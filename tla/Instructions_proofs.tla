------------------------ MODULE Instructions_proofs ------------------------
(***************************************************************************)
(* Instructions implements Catalogue, for any updates, timers, albums and   *)
(* contents.                                                                *)
(***************************************************************************)
EXTENDS Instructions, FiniteSetTheorems, TLAPS

-----------------------------------------------------------------------------
(* The inductive invariant.                                                 *)

\* A task brings a text or a photo, or both.
Brought(t) ==
    /\ text[t] # None \/ files[t] # {}
    /\ \A f, g \in files[t] : f = g

\* A transaction that has none of these locals.
Nothing(t) == read[t] = None /\ removed[t] = {}

Resting(t) ==
    /\ op[t] = "none" /\ pc[t] \in {"idle", "enter", "sleeping", "done"}
    /\ Nothing(t) /\ files[t] = {} /\ wrote[t] = FALSE

Creating(t) ==
    /\ op[t] = "create" /\ pc[t] \in {"order", "insert", "commit"}
    /\ Nothing(t) /\ Brought(t)
    /\ name[t] \in Titles
    /\ pc[t] # "order" => num[t] \in Nat

\* The caption has been written if and only if it is not the one that was read.
Replacing(t) ==
    /\ op[t] = "replace"
    /\ pc[t] \in {"get", "delete", "deleting", "update", "photos", "commit"}
    /\ id[t] \in used /\ Brought(t)
    /\ pc[t] = "get" => Nothing(t)
    /\ pc[t] # "get" => read[t] # None
    /\ pc[t] \in {"get", "delete", "deleting"} => wrote[t] = FALSE
    /\ pc[t] = "update" => wrote[t] = FALSE /\ text[t] # read[t].caption
    /\ pc[t] \in {"photos", "commit"} => (wrote[t] = TRUE <=> text[t] # read[t].caption)

Retitling(t) ==
    /\ op[t] = "retitle" /\ pc[t] \in {"retitle", "commit"}
    /\ Nothing(t) /\ files[t] = {}
    /\ id[t] \in used /\ name[t] \in Titles

Removing(t) ==
    /\ op[t] = "remove" /\ pc[t] \in {"remove", "commit"}
    /\ read[t] = None /\ files[t] = {}
    /\ id[t] \in used

TaskOK(t) == Resting(t) \/ Creating(t) \/ Replacing(t) \/ Retitling(t) \/ Removing(t)

\* The timer of a bucket sleeps, and is that of no other bucket.
BucketOK ==
    \A g \in Albums : bucket[g] # None =>
        /\ pc[bucket[g].task] = "sleeping"
        /\ \A h \in Albums \ {g} : bucket[h] # None => bucket[h].task # bucket[g].task

ChatOK == DialogueHasSubject /\ target \in used \cup {None}

\* The number of an instruction that waits for its commit is nobody else's.
Numbered(t) == op[t] = "create" /\ pc[t] = "commit"
OrderOf(t) ==
    Numbered(t) =>
        /\ num[t] \notin Orders
        /\ \A s \in Tasks \ {t} : Numbered(s) => num[s] # num[t]

\* Photos that wait for their commit are the only ones, but for those that the
\* transaction has deleted.
InsertedOf(t) ==
    Inserted(t) =>
        /\ Photos(id[t]) \subseteq removed[t]
        /\ \A s \in Tasks \ {t} : Inserted(s) => id[s] # id[t]

\* A replacement deletes the photos that it has read and that are still there.
DeletedOf(t) ==
    op[t] = "replace" /\ pc[t] \in {"deleting", "update", "photos", "commit"} =>
        \A f \in Photos(id[t]) : f \in read[t].photos => f \in removed[t]

OnePhoto == \A i \in DOMAIN inst : \A f, g \in inst[i].photos : f = g

\* Photos that are not committed yet are in no instruction, have been read by
\* nobody, and are of one task or bucket.
Fresh ==
    /\ \A s \in Tasks : \A f \in files[s] :
           /\ \A i \in DOMAIN inst : f \notin inst[i].photos
           /\ \A t \in Tasks : read[t] # None => f \notin read[t].photos
           /\ \A t \in Tasks \ {s} : f \notin files[t]
           /\ \A g \in Albums : bucket[g] # None => f # bucket[g].file
    /\ \A g \in Albums : bucket[g] # None =>
           /\ \A i \in DOMAIN inst : bucket[g].file \notin inst[i].photos
           /\ \A t \in Tasks : read[t] # None => bucket[g].file \notin read[t].photos
           /\ \A h \in Albums \ {g} : bucket[h] # None => bucket[h].file # bucket[g].file

Inv ==
    /\ TypeOK
    /\ \A t \in Tasks : TaskOK(t) /\ OrderOf(t) /\ InsertedOf(t) /\ DeletedOf(t)
    /\ BucketOK
    /\ ChatOK
    /\ OrdersDistinct
    /\ OnePhoto
    /\ Fresh

-----------------------------------------------------------------------------
(* What a step of one task leaves alone.                                    *)

Buckets == [task : Timers, file : Files, caption : Captions] \cup {None}

ChatTyped ==
    state \in States /\ title \in Titles \cup {None} /\ target \in Ids \cup {None}

TablesTyped ==
    /\ DOMAIN inst \subseteq used /\ inst \in [DOMAIN inst -> Rows]
    /\ used \subseteq Ids

WorkTyped ==
    /\ pc \in [Tasks -> {"idle", "enter", "sleeping", "order", "insert", "get", "delete",
                         "deleting", "update", "photos", "retitle", "remove", "commit", "done"}]
    /\ what \in [Tasks -> DOMAIN Handlers \cup {None}]
    /\ op \in [Tasks -> {"none", "create", "replace", "retitle", "remove"}]
    /\ id \in [Tasks -> Ids \cup {None}]
    /\ num \in [Tasks -> Nat \cup {None}]
    /\ name \in [Tasks -> Titles \cup {None}]
    /\ text \in [Tasks -> Captions]
    /\ files \in [Tasks -> SUBSET Files]
    /\ read \in [Tasks -> Contents \cup {None}]
    /\ removed \in [Tasks -> SUBSET Files]
    /\ wrote \in [Tasks -> BOOLEAN]

LEMMA TypeParts ==
    /\ TypeOK <=> TablesTyped /\ ChatTyped /\ bucket \in [Albums -> Buckets] /\ WorkTyped
    /\ TypeOK' <=> TablesTyped' /\ ChatTyped' /\ bucket' \in [Albums -> Buckets] /\ WorkTyped'
  BY DEF TypeOK, TablesTyped, ChatTyped, Buckets, WorkTyped

\* A task that goes on, or one without a transaction that comes to rest elsewhere.
Same(s) ==
    /\ \/ pc'[s] = pc[s]
       \/ op[s] = "none" /\ pc'[s] \in {"idle", "enter", "sleeping", "done"}
    /\ op'[s] = op[s] /\ id'[s] = id[s] /\ num'[s] = num[s] /\ name'[s] = name[s]
    /\ text'[s] = text[s] /\ files'[s] = files[s] /\ read'[s] = read[s]
    /\ removed'[s] = removed[s] /\ wrote'[s] = wrote[s]

\* Buckets may be taken.
Emptied == bucket' \in [Albums -> Buckets] /\ \A g \in Albums : bucket'[g] \in {bucket[g], None}

\* While the instructions stay, only the task that moves has something to show.
LEMMA StepKeeps ==
    ASSUME Inv, NEW t \in Tasks, UNCHANGED tables, TypeOK',
           \A s \in Tasks \ {t} : Same(s),
           TaskOK(t)', OrderOf(t)', InsertedOf(t)', DeletedOf(t)'
    PROVE  /\ \A s \in Tasks : (TaskOK(s) /\ OrderOf(s) /\ InsertedOf(s) /\ DeletedOf(s))'
           /\ OrdersDistinct' /\ OnePhoto'
  <1>1. OrdersDistinct' /\ OnePhoto'
    BY DEF Inv, OrdersDistinct, OnePhoto, tables
  <1>2. ASSUME NEW s \in Tasks \ {t}
        PROVE  TaskOK(s)'
    BY <1>2 DEF Inv, TypeOK, Same, tables, TaskOK, Resting, Creating, Replacing, Retitling,
           Removing, Nothing, Brought
  <1>3. ASSUME NEW s \in Tasks \ {t}
        PROVE  OrderOf(s)'
    BY <1>3 DEF Inv, Same, tables, OrderOf, Numbered, Orders
  <1>4. ASSUME NEW s \in Tasks \ {t}
        PROVE  InsertedOf(s)'
    BY <1>4 DEF Inv, Same, tables, InsertedOf, Inserted, Photos
  <1>5. ASSUME NEW s \in Tasks \ {t}
        PROVE  DeletedOf(s)'
    BY <1>5 DEF Inv, Same, tables, DeletedOf, Photos
  <1> QED
    BY <1>1, <1>2, <1>3, <1>4, <1>5

\* No task takes new files, no task reads.
LEMMA FreshKept ==
    ASSUME Inv, UNCHANGED tables, Emptied,
           \A s \in Tasks : files'[s] \in {files[s], {}} /\ read'[s] \in {read[s], None}
    PROVE  Fresh'
  BY DEF Inv, Fresh, tables, Emptied

LEMMA EndTyped ==
    ASSUME TypeOK, NEW t \in Tasks, Finish(t) \/ Leave(t, "done"), UNCHANGED tables, Emptied, ChatTyped'
    PROVE  TypeOK'
  <1>1. TablesTyped' /\ ChatTyped' /\ bucket' \in [Albums -> Buckets]
    BY TypeParts DEF TablesTyped, tables, Emptied
  <1>2. WorkTyped'
    <2>1. CASE Finish(t)
      BY <2>1, TypeParts DEF WorkTyped, Finish, Leave, Goto, Captions
    <2>2. CASE Leave(t, "done")
      BY <2>2, TypeParts DEF WorkTyped, Leave, Goto, Captions
    <2> QED
      BY <2>1, <2>2
  <1> QED
    BY <1>1, <1>2, TypeParts

\* What the end of a task does to the places of all tasks.
LEMMA Places ==
    ASSUME TypeOK, NEW t \in Tasks, Finish(t) \/ Leave(t, "done")
    PROVE  pc'[t] \in {"idle", "done"} /\ \A s \in Tasks \ {t} : pc'[s] = pc[s]
  BY DEF TypeOK, Finish, Leave, Goto

\* A task ends without a commit.
LEMMA EndInv ==
    ASSUME Inv, NEW t \in Tasks, Finish(t) \/ Leave(t, "done"),
           UNCHANGED tables, Emptied, ChatTyped', ChatOK',
           \A g \in Albums : bucket'[g] # None => bucket'[g].task # t
    PROVE  Inv'
  <1>1. TypeOK'
    BY EndTyped DEF Inv
  <1>2. \A s \in Tasks \ {t} : Same(s)
    BY DEF Inv, TypeOK, Finish, Leave, Goto, Same
  <1>3. (TaskOK(t) /\ OrderOf(t) /\ InsertedOf(t) /\ DeletedOf(t))'
    BY DEF Inv, TypeOK, Finish, Leave, Goto, TaskOK, Resting, Nothing, OrderOf, Numbered,
           InsertedOf, Inserted, DeletedOf
  <1>4. BucketOK'
    BY Places DEF Inv, TypeOK, BucketOK, Emptied, Tasks
  <1>5. Fresh'
    BY FreshKept DEF Inv, TypeOK, Finish, Leave
  <1> QED
    BY <1>1, <1>2, <1>3, <1>4, <1>5, StepKeeps DEF Inv

\* ... and that is not the timer of a bucket.
LEMMA RefuseInv ==
    ASSUME Inv, NEW t \in Tasks, pc[t] # "sleeping", Finish(t) \/ Leave(t, "done"),
           UNCHANGED <<inst, used, bucket>>,
           ChatTyped', ChatOK'
    PROVE  Inv'
  <1>1. \A g \in Albums : bucket'[g] # None => bucket'[g].task # t
    BY DEF Inv, BucketOK
  <1>2. Emptied
    BY DEF Inv, TypeOK, Emptied, Buckets
  <1> QED
    BY <1>1, <1>2, EndInv DEF tables

-----------------------------------------------------------------------------
(* Steps without a transaction.                                             *)

LEMMA ArriveInv ==
    ASSUME Inv, NEW t \in Updates, NEW h \in DOMAIN Handlers, Arrive(t, h)
    PROVE  Inv'
  <1> t \in Tasks
    BY DEF Tasks
  <1>1. TypeOK'
    BY DEF Inv, TypeOK, Arrive, Goto, tables, chat, work
  <1>2. op[t] = "none"
    BY DEF Inv, Arrive, TaskOK, Resting, Creating, Replacing, Retitling,
               Removing
  <1>3. \A s \in Tasks : Same(s)
    BY <1>2 DEF Inv, TypeOK, Arrive, Goto, Same, work
  <1>4. (TaskOK(t) /\ OrderOf(t) /\ InsertedOf(t) /\ DeletedOf(t))'
    BY <1>2 DEF Inv, TypeOK, Arrive, Goto, work, tables, TaskOK, Resting, Creating, Replacing,
           Retitling, Removing, Nothing, OrderOf, Numbered, InsertedOf, Inserted, DeletedOf
  <1>5. BucketOK'
    BY DEF Inv, TypeOK, BucketOK, Arrive, Goto
  <1>6. Fresh'
    <2> Emptied
      BY DEF Inv, TypeOK, Emptied, Buckets, Arrive
    <2> QED
      BY FreshKept DEF Inv, Arrive, work
  <1>7. ChatOK'
    BY DEF Inv, ChatOK, DialogueHasSubject, Arrive, chat, tables
  <1> QED
    BY <1>1, <1>3, <1>4, <1>5, <1>6, <1>7, StepKeeps DEF Inv, Arrive

\* The tasks that sleep, or have just begun, have no transaction.
LEMMA RestInv ==
    ASSUME Inv, UNCHANGED <<tables, work>>, ChatTyped', ChatOK',
           pc' \in [Tasks -> {"idle", "enter", "sleeping", "order", "insert", "get", "delete",
                              "deleting", "update", "photos", "retitle", "remove", "commit", "done"}],
           what' \in [Tasks -> DOMAIN Handlers \cup {None}],
           bucket' \in [Albums -> Buckets],
           \A s \in Tasks : Same(s),
           BucketOK', Fresh'
    PROVE  Inv'
  <1>1. TypeOK'
    BY TypeParts DEF Inv, TablesTyped, WorkTyped, tables, work
  <1>2. CASE Tasks = {}
    BY <1>1, <1>2 DEF Inv, OrdersDistinct, OnePhoto, tables
  <1>3. CASE Tasks # {}
    <2>1. PICK t \in Tasks : TRUE
      BY <1>3
    <2>2. (TaskOK(t) /\ OrderOf(t) /\ InsertedOf(t) /\ DeletedOf(t))'
      <3>1. TaskOK(t)'
        BY DEF Inv, TypeOK, Same, work, tables, TaskOK, Resting, Creating, Replacing, Retitling,
               Removing, Nothing, Brought
      <3>2. OrderOf(t)'
        BY DEF Inv, Same, work, tables, OrderOf, Numbered, Orders
      <3>3. InsertedOf(t)'
        BY DEF Inv, Same, work, tables, InsertedOf, Inserted, Photos
      <3>4. DeletedOf(t)'
        BY DEF Inv, Same, work, tables, DeletedOf, Photos
      <3> QED
        BY <3>1, <3>2, <3>3, <3>4
    <2> QED
      BY <1>1, <2>2, StepKeeps DEF Inv
  <1> QED
    BY <1>2, <1>3

LEMMA CmdCancelInv ==
    ASSUME Inv, NEW t \in Updates, CmdCancel(t)
    PROVE  Inv'
  <1> DEFINE over == {t} \cup {bucket[g].task : g \in {h \in Albums : bucket[h] # None}}
  <1>1. \A s \in over : s \in Tasks /\ op[s] = "none"
    <2>1. t \in Tasks /\ op[t] = "none"
      BY DEF Tasks, Inv, CmdCancel, Pressed, TaskOK, Resting, Creating, Replacing, Retitling,
               Removing
    <2>2. \A g \in Albums : bucket[g] # None => bucket[g].task \in Tasks /\ op[bucket[g].task] = "none"
      BY DEF Tasks, Inv, TypeOK, BucketOK, TaskOK, Resting, Creating, Replacing, Retitling,
               Removing
    <2> QED
      BY <2>1, <2>2
  <1>2. ChatTyped' /\ ChatOK'
    BY DEF CmdCancel, Clear, ChatTyped, States, ChatOK, DialogueHasSubject
  <1>3. /\ pc' = [s \in Tasks |-> IF s \in over THEN "idle" ELSE pc[s]]
        /\ what' = [s \in Tasks |-> IF s \in over THEN None ELSE what[s]]
    BY DEF CmdCancel
  <1>4. /\ pc' \in [Tasks -> {"idle", "enter", "sleeping", "order", "insert", "get", "delete",
                              "deleting", "update", "photos", "retitle", "remove", "commit", "done"}]
        /\ what' \in [Tasks -> DOMAIN Handlers \cup {None}]
    BY <1>3 DEF Inv, TypeOK
  <1>5. \A s \in Tasks : Same(s)
    BY <1>1, <1>3 DEF Same, CmdCancel, work
  <1>6. bucket' \in [Albums -> Buckets] /\ BucketOK' /\ Emptied
    BY DEF CmdCancel, Buckets, BucketOK, Emptied
  <1>7. Fresh'
    BY <1>6, FreshKept DEF Inv, CmdCancel, work
  <1> QED
    BY <1>2, <1>4, <1>5, <1>6, <1>7, RestInv DEF CmdCancel

LEMMA BotRestartInv ==
    ASSUME Inv, BotRestart
    PROVE  Inv'
  <1>1. TypeOK'
    <2>1. TablesTyped' /\ ChatTyped' /\ bucket' \in [Albums -> Buckets]
      BY TypeParts DEF Inv, BotRestart, TablesTyped, ChatTyped, States, Buckets, tables
    <2>2. WorkTyped'
      BY DEF BotRestart, WorkTyped, Captions
    <2> QED
      BY <2>1, <2>2, TypeParts
  <1>2. \A t \in Tasks : (TaskOK(t) /\ OrderOf(t) /\ InsertedOf(t) /\ DeletedOf(t))'
    BY DEF BotRestart, TaskOK, Resting, Nothing, OrderOf, Numbered, InsertedOf, Inserted, DeletedOf
  <1>3. BucketOK' /\ ChatOK' /\ Fresh'
    BY DEF BotRestart, BucketOK, ChatOK, DialogueHasSubject, Fresh
  <1>4. OrdersDistinct' /\ OnePhoto'
    BY DEF Inv, BotRestart, OrdersDistinct, OnePhoto, tables
  <1> QED
    BY <1>1, <1>2, <1>3, <1>4 DEF Inv

\* A photo that nothing knows, or that of the album so far.
LEMMA AlbumPhotoInv ==
    ASSUME Inv, NEW t \in Updates, NEW h \in DOMAIN Handlers, AlbumPhoto(t, h)
    PROVE  Inv'
  <1>1. PICK g \in Albums, n \in Timers :
            LET b == bucket[g]
                last == IF b = None THEN None ELSE b.task
            IN /\ pc[n] = "idle" \/ n = last
               /\ \E f \in Files, c \in Captions :
                      /\ IF b = None THEN Unknown(f) ELSE f = b.file /\ (c # None \/ c = b.caption)
                      /\ bucket' = [bucket EXCEPT ![g] = [task |-> n, file |-> f, caption |-> c]]
               /\ pc' = [s \in Tasks |-> IF s = n THEN "sleeping"
                                         ELSE IF s \in {t, last} THEN "idle" ELSE pc[s]]
               /\ what' = [s \in Tasks |-> IF s = n THEN h
                                           ELSE IF s \in {t, last} THEN None ELSE what[s]]
    BY DEF AlbumPhoto
  <1> DEFINE last == IF bucket[g] = None THEN None ELSE bucket[g].task
  <1>2. PICK f \in Files, c \in Captions :
            /\ IF bucket[g] = None THEN Unknown(f) ELSE f = bucket[g].file
            /\ bucket' = [bucket EXCEPT ![g] = [task |-> n, file |-> f, caption |-> c]]
    BY <1>1
  <1>3. \A s \in {t, n, last} : s \in Tasks => op[s] = "none"
    <2>1. op[t] = "none"
      BY DEF Tasks, Inv, AlbumPhoto, Handled, TaskOK, Resting, Creating, Replacing, Retitling,
               Removing
    <2>2. bucket[g] # None => op[bucket[g].task] = "none"
      BY DEF Tasks, Inv, TypeOK, BucketOK, TaskOK, Resting, Creating, Replacing, Retitling,
               Removing
    <2>3. op[n] = "none"
      BY <1>1, <2>2, TaskAssumption DEF Tasks, Inv, TaskOK, Resting, Creating, Replacing, Retitling,
               Removing
    <2> QED
      BY <2>1, <2>2, <2>3, TaskAssumption DEF Tasks
  <1>4. /\ pc' \in [Tasks -> {"idle", "enter", "sleeping", "order", "insert", "get", "delete",
                              "deleting", "update", "photos", "retitle", "remove", "commit", "done"}]
        /\ what' \in [Tasks -> DOMAIN Handlers \cup {None}]
    BY <1>1 DEF Inv, TypeOK
  <1>5. \A s \in Tasks : Same(s)
    BY <1>1, <1>3 DEF Same, AlbumPhoto, work
  <1>6. bucket' \in [Albums -> Buckets]
    BY <1>2 DEF Inv, TypeOK, Buckets
  <1>7. BucketOK'
    <2>1. \A k \in Albums \ {g} : bucket[k] # None =>
              bucket[k].task \notin {t, n, last} /\ bucket[k].task \in Timers
      BY <1>1, TaskAssumption DEF Inv, TypeOK, BucketOK, Tasks
    <2>2. n \in Tasks /\ pc'[n] = "sleeping"
      BY <1>1 DEF Tasks
    <2>3. \A k \in Albums \ {g} : bucket[k] # None => pc'[bucket[k].task] = "sleeping"
      BY <1>1, <2>1 DEF Inv, BucketOK, Tasks
    <2> QED
      BY <1>2, <2>1, <2>2, <2>3 DEF Inv, TypeOK, BucketOK
  <1>8. Fresh'
    BY <1>2 DEF Inv, TypeOK, Fresh, Unknown, AlbumPhoto, work, tables
  <1>9. ChatTyped' /\ ChatOK'
    BY DEF Inv, TypeOK, ChatTyped, ChatOK, DialogueHasSubject, AlbumPhoto, chat, tables
  <1> QED
    BY <1>4, <1>5, <1>6, <1>7, <1>8, <1>9, RestInv DEF AlbumPhoto

-----------------------------------------------------------------------------
(* The beginning of a transaction.                                          *)

LEMMA BeginInv ==
    ASSUME Inv, NEW t \in Tasks, UNCHANGED <<tables, chat, what>>, Emptied,
           \A g \in Albums : bucket'[g] # None => bucket'[g].task # t,
           \A s \in Tasks \ {t} : Same(s) /\ pc'[s] = pc[s],
           WorkTyped', TaskOK(t)', pc'[t] \in {"order", "get", "retitle", "remove"}, Fresh'
    PROVE  Inv'
  <1>1. TypeOK'
    BY TypeParts DEF Inv, TablesTyped, ChatTyped, Emptied, tables, chat
  <1>2. ChatOK'
    BY DEF Inv, ChatOK, DialogueHasSubject, chat, tables
  <1>3. BucketOK'
    <2>1. \A g \in Albums : bucket'[g] # None =>
              bucket[g] # None /\ bucket'[g] = bucket[g] /\ bucket[g].task \in Tasks \ {t}
      BY DEF Inv, TypeOK, Emptied, Tasks
    <2> QED
      BY <2>1 DEF Inv, BucketOK
  <1>4. (OrderOf(t) /\ InsertedOf(t) /\ DeletedOf(t))'
    BY DEF OrderOf, Numbered, InsertedOf, Inserted, DeletedOf
  <1> QED
    BY <1>1, <1>2, <1>3, <1>4, StepKeeps DEF Inv

LEMMA FreshNew ==
    ASSUME Inv, NEW t \in Tasks, NEW fs, UNCHANGED <<tables, bucket, read>>,
           files' = [files EXCEPT ![t] = fs],
           fs = {} \/ \E f \in Files : fs = {f} /\ Unknown(f)
    PROVE  Fresh'
  BY DEF Inv, TypeOK, Fresh, Unknown, tables

LEMMA FreshTaken ==
    ASSUME Inv, NEW t \in Tasks, NEW g \in Albums, bucket[g] # None, UNCHANGED <<tables, read>>,
           files' = [files EXCEPT ![t] = {bucket[g].file}],
           bucket' = [bucket EXCEPT ![g] = None]
    PROVE  Fresh'
  BY DEF Inv, TypeOK, Fresh, tables

\* What a task brings, and where it comes from.
Source(t, c, fs) ==
    /\ c \in Captions /\ fs \in SUBSET Files
    /\ c # None \/ fs # {}
    /\ \A f, g \in fs : f = g
    /\ Emptied
    /\ \A g \in Albums : bucket'[g] # None => bucket'[g].task # t

LEMMA BeginCreateInv ==
    ASSUME Inv, NEW t \in Tasks, NEW c, NEW fs, op[t] = "none", title # None,
           BeginCreate(t, c, fs), UNCHANGED <<tables, chat, what>>,
           Source(t, c, fs), Fresh'
    PROVE  Inv'
  <1>1. WorkTyped'
    BY TypeParts DEF Inv, WorkTyped, ChatTyped, BeginCreate, Goto, Source
  <1>2. TaskOK(t)'
    BY DEF Inv, TypeOK, TaskOK, Resting, Creating, Replacing, Retitling, Removing, Nothing,
           Brought, BeginCreate, Goto, Source
  <1>3. \A s \in Tasks \ {t} : Same(s) /\ pc'[s] = pc[s]
    BY DEF Inv, TypeOK, Same, BeginCreate, Goto
  <1>4. pc'[t] = "order"
    BY DEF Inv, TypeOK, BeginCreate, Goto
  <1> QED
    BY <1>1, <1>2, <1>3, <1>4, BeginInv DEF Source

LEMMA BeginReplaceInv ==
    ASSUME Inv, NEW t \in Tasks, NEW c, NEW fs, op[t] = "none", target # None,
           BeginReplace(t, c, fs), UNCHANGED <<tables, chat, what>>,
           Source(t, c, fs), Fresh'
    PROVE  Inv'
  <1>1. WorkTyped'
    BY TypeParts DEF Inv, WorkTyped, ChatTyped, BeginReplace, Goto, Source
  <1>2. TaskOK(t)'
    <2>1. id'[t] \in used'
      BY DEF Inv, TypeOK, ChatOK, BeginReplace, tables
    <2>2. Nothing(t)' /\ wrote'[t] \in BOOLEAN
      BY DEF Inv, TypeOK, TaskOK, Resting, Creating, Replacing, Retitling, Removing, Nothing,
             BeginReplace
    <2>3. wrote'[t] = FALSE
      BY DEF Inv, TaskOK, Resting, Creating, Replacing, Retitling, Removing, BeginReplace
    <2> QED
      BY <2>1, <2>2, <2>3 DEF Inv, TypeOK, TaskOK, Replacing, Brought, BeginReplace, Goto, Source
  <1>3. \A s \in Tasks \ {t} : Same(s) /\ pc'[s] = pc[s]
    BY DEF Inv, TypeOK, Same, BeginReplace, Goto
  <1>4. pc'[t] = "get"
    BY DEF Inv, TypeOK, BeginReplace, Goto
  <1> QED
    BY <1>1, <1>2, <1>3, <1>4, BeginInv DEF Source

\* An update that has the row, and a text or a photo, has no timer.
LEMMA UpdateBrings ==
    ASSUME Inv, NEW t \in Updates, NEW h \in DOMAIN Handlers, Handled(t, h),
           NEW c \in Captions, NEW fs \in SUBSET Files, Brings(h, c, fs),
           UNCHANGED <<tables, bucket>>
    PROVE  op[t] = "none" /\ Source(t, c, fs)
  <1>1. op[t] = "none"
    BY DEF Tasks, Inv, Handled, TaskOK, Resting, Creating, Replacing, Retitling, Removing
  <1>2. Emptied /\ \A g \in Albums : bucket'[g] # None => bucket'[g].task # t
    BY TaskAssumption DEF Inv, TypeOK, Emptied, Buckets
  <1>3. (c # None \/ fs # {}) /\ \A f, g \in fs : f = g
    BY DEF Brings
  <1> QED
    BY <1>1, <1>2, <1>3 DEF Source

LEMMA AddInstructionInv ==
    ASSUME Inv, NEW t \in Updates, NEW h \in DOMAIN Handlers, AddInstruction(t, h)
    PROVE  Inv'
  <1> t \in Tasks
    BY DEF Tasks
  <1>1. CASE title = None
    <2>1. ChatTyped' /\ ChatOK' /\ pc[t] # "sleeping"
      BY <1>1 DEF AddInstruction, SessionReset, NothingWritten, Clear,
                  ChatTyped, States, ChatOK, DialogueHasSubject, Handled
    <2> QED
      BY <1>1, <2>1, RefuseInv DEF AddInstruction, SessionReset, NothingWritten, tables
  <1>2. CASE title # None
    <2>1. PICK c \in Captions, fs \in SUBSET Files : Brings(h, c, fs) /\ BeginCreate(t, c, fs)
      BY <1>2 DEF AddInstruction
    <2>2. op[t] = "none" /\ Source(t, c, fs)
      BY <2>1, UpdateBrings DEF AddInstruction
    <2>3. Fresh'
      <3>1. fs = {} \/ \E f \in Files : fs = {f} /\ Unknown(f)
        BY <2>1 DEF Brings
      <3> QED
        BY <2>1, <3>1, FreshNew DEF AddInstruction, BeginCreate
    <2> QED
      BY <1>2, <2>1, <2>2, <2>3, BeginCreateInv DEF AddInstruction
  <1> QED
    BY <1>1, <1>2

LEMMA EditInstructionInv ==
    ASSUME Inv, NEW t \in Updates, NEW h \in DOMAIN Handlers, EditInstruction(t, h)
    PROVE  Inv'
  <1> t \in Tasks
    BY DEF Tasks
  <1>1. CASE target = None
    <2>1. ChatTyped' /\ ChatOK' /\ pc[t] # "sleeping"
      BY <1>1 DEF EditInstruction, SessionReset, NothingWritten, Clear,
                  ChatTyped, States, ChatOK, DialogueHasSubject, Handled
    <2> QED
      BY <1>1, <2>1, RefuseInv DEF EditInstruction, SessionReset, NothingWritten, tables
  <1>2. CASE target # None
    <2>1. PICK c \in Captions, fs \in SUBSET Files : Brings(h, c, fs) /\ BeginReplace(t, c, fs)
      BY <1>2 DEF EditInstruction
    <2>2. op[t] = "none" /\ Source(t, c, fs)
      BY <2>1, UpdateBrings DEF EditInstruction
    <2>3. Fresh'
      <3>1. fs = {} \/ \E f \in Files : fs = {f} /\ Unknown(f)
        BY <2>1 DEF Brings
      <3> QED
        BY <2>1, <3>1, FreshNew DEF EditInstruction, BeginReplace
    <2> QED
      BY <1>2, <2>1, <2>2, <2>3, BeginReplaceInv DEF EditInstruction
  <1> QED
    BY <1>1, <1>2

LEMMA InstrEditTitleCommitInv ==
    ASSUME Inv, NEW t \in Updates, InstrEditTitleCommit(t)
    PROVE  Inv'
  <1> t \in Tasks
    BY DEF Tasks
  <1>0. pc[t] = "enter" /\ op[t] = "none"
    BY DEF InstrEditTitleCommit, Handled, Inv, TaskOK, Resting, Creating, Replacing, Retitling, Removing
  <1>1. CASE target = None
    <2>1. ChatTyped' /\ ChatOK'
      BY <1>1 DEF InstrEditTitleCommit, SessionReset, NothingWritten, Clear,
                  ChatTyped, States, ChatOK, DialogueHasSubject
    <2> QED
      BY <1>0, <1>1, <2>1, RefuseInv DEF InstrEditTitleCommit, SessionReset, NothingWritten, tables
  <1>2. CASE target # None
    <2>1. PICK n \in Titles :
              /\ op' = [op EXCEPT ![t] = "retitle"] /\ id' = [id EXCEPT ![t] = target]
              /\ name' = [name EXCEPT ![t] = n] /\ Goto(t, "retitle")
              /\ UNCHANGED <<chat, what, num, text, files, read, removed, wrote, tables, bucket>>
      BY <1>2 DEF InstrEditTitleCommit
    <2>2. WorkTyped'
      BY <2>1, TypeParts DEF Inv, WorkTyped, ChatTyped, Goto
    <2>3. TaskOK(t)' /\ pc'[t] = "retitle"
      BY <1>0, <1>2, <2>1 DEF Inv, TypeOK, ChatOK, TaskOK, Resting, Creating, Replacing, Retitling,
                              Removing, Nothing, Goto, tables
    <2>4. \A s \in Tasks \ {t} : Same(s) /\ pc'[s] = pc[s]
      BY <2>1 DEF Inv, TypeOK, Same, Goto
    <2>5. Emptied /\ \A g \in Albums : bucket'[g] # None => bucket'[g].task # t
      BY <2>1, TaskAssumption DEF Inv, TypeOK, Emptied, Buckets
    <2>6. Fresh'
      BY <2>1, <2>5, FreshKept
    <2> QED
      BY <2>1, <2>2, <2>3, <2>4, <2>5, <2>6, BeginInv
  <1> QED
    BY <1>1, <1>2

LEMMA InstrDelConfirmInv ==
    ASSUME Inv, NEW t \in Updates, InstrDelConfirm(t)
    PROVE  Inv'
  <1> t \in Tasks
    BY DEF Tasks
  <1>1. pc[t] = "idle" /\ op[t] = "none"
    BY DEF InstrDelConfirm, Pressed, Inv, TaskOK, Resting, Creating, Replacing, Retitling, Removing
  <1>2. WorkTyped'
    BY TypeParts DEF Inv, WorkTyped, TablesTyped, InstrDelConfirm, Goto
  <1>3. TaskOK(t)' /\ pc'[t] = "remove"
    BY <1>1 DEF Inv, TypeOK, TaskOK, Resting, Creating, Replacing, Retitling, Removing, Nothing,
                Goto, tables, InstrDelConfirm
  <1>4. \A s \in Tasks \ {t} : Same(s) /\ pc'[s] = pc[s]
    BY DEF Inv, TypeOK, Same, Goto, InstrDelConfirm
  <1>5. Emptied /\ \A g \in Albums : bucket'[g] # None => bucket'[g].task # t
    BY TaskAssumption DEF Inv, TypeOK, Emptied, Buckets, InstrDelConfirm
  <1>6. Fresh'
    BY <1>5, FreshKept DEF InstrDelConfirm
  <1> QED
    BY <1>2, <1>3, <1>4, <1>5, <1>6, BeginInv DEF InstrDelConfirm

\* An album that is taken is a photo that only its bucket has.
LEMMA AlbumBrings ==
    ASSUME Inv, NEW f \in Timers, NEW g \in Albums, TakeAlbum(f, g)
    PROVE  /\ bucket[g] # None /\ op[f] = "none"
           /\ Source(f, bucket[g].caption, {bucket[g].file})
  <1>1. bucket[g] # None /\ op[f] = "none"
    BY DEF Tasks, Inv, TakeAlbum, TaskOK, Resting, Creating, Replacing, Retitling, Removing
  <1>2. Emptied
    BY DEF Inv, TypeOK, Emptied, Buckets, TakeAlbum
  <1>3. \A h \in Albums : bucket'[h] # None => bucket'[h].task # f
    BY DEF Inv, TypeOK, BucketOK, TakeAlbum
  <1>4. bucket[g].caption \in Captions /\ bucket[g].file \in Files
    BY <1>1 DEF Inv, TypeOK
  <1> QED
    BY <1>1, <1>2, <1>3, <1>4 DEF Source

LEMMA AlbumEnds ==
    ASSUME Inv, NEW f \in Timers, NEW g \in Albums, TakeAlbum(f, g), Finish(f) \/ Leave(f, "done"),
           UNCHANGED tables,
           UNCHANGED chat \/ Clear
    PROVE  Inv'
  <1>1. ChatTyped' /\ ChatOK'
    BY DEF Inv, TypeOK, Clear, ChatTyped, States, ChatOK, DialogueHasSubject, chat, tables
  <1> QED
    BY <1>1, AlbumBrings, EndInv DEF Source, Tasks

LEMMA FinishAddAlbumInv ==
    ASSUME Inv, NEW f \in Timers, FinishAddAlbum(f)
    PROVE  Inv'
  <1>1. PICK g \in Albums :
            /\ TakeAlbum(f, g)
            /\ IF state # "add_media" THEN Finish(f) /\ UNCHANGED chat
               ELSE IF title = None THEN SessionReset(f)
               ELSE /\ BeginCreate(f, bucket[g].caption, {bucket[g].file})
                    /\ UNCHANGED <<chat, what>>
    BY DEF FinishAddAlbum
  <1>2. CASE state # "add_media" \/ title = None
    BY <1>1, <1>2, AlbumEnds DEF FinishAddAlbum, SessionReset, NothingWritten
  <1>3. CASE state = "add_media" /\ title # None
    <2>1. Fresh'
      <3>1. UNCHANGED <<tables, read>> /\ files' = [files EXCEPT ![f] = {bucket[g].file}]
        BY <1>1, <1>3 DEF FinishAddAlbum, BeginCreate
      <3>2. f \in Tasks /\ bucket[g] # None /\ bucket' = [bucket EXCEPT ![g] = None]
        BY <1>1 DEF TakeAlbum, Tasks
      <3> QED
        BY <3>1, <3>2, FreshTaken
    <2> QED
      BY <1>1, <1>3, <2>1, AlbumBrings, BeginCreateInv DEF FinishAddAlbum, Tasks
  <1> QED
    BY <1>2, <1>3

LEMMA FinishEditAlbumInv ==
    ASSUME Inv, NEW f \in Timers, FinishEditAlbum(f)
    PROVE  Inv'
  <1>1. PICK g \in Albums :
            /\ TakeAlbum(f, g)
            /\ IF state # "edit_media" THEN Finish(f) /\ UNCHANGED chat
               ELSE IF target = None THEN SessionReset(f)
               ELSE /\ BeginReplace(f, bucket[g].caption, {bucket[g].file})
                    /\ UNCHANGED <<chat, what>>
    BY DEF FinishEditAlbum
  <1>2. CASE state # "edit_media" \/ target = None
    BY <1>1, <1>2, AlbumEnds DEF FinishEditAlbum, SessionReset, NothingWritten
  <1>3. CASE state = "edit_media" /\ target # None
    <2>1. Fresh'
      <3>1. UNCHANGED <<tables, read>> /\ files' = [files EXCEPT ![f] = {bucket[g].file}]
        BY <1>1, <1>3 DEF FinishEditAlbum, BeginReplace
      <3>2. f \in Tasks /\ bucket[g] # None /\ bucket' = [bucket EXCEPT ![g] = None]
        BY <1>1 DEF TakeAlbum, Tasks
      <3> QED
        BY <3>1, <3>2, FreshTaken
    <2> QED
      BY <1>1, <1>3, <2>1, AlbumBrings, BeginReplaceInv DEF FinishEditAlbum, Tasks
  <1> QED
    BY <1>2, <1>3

-----------------------------------------------------------------------------
(* Handlers that end without a transaction's commit.                        *)

LEMMA DialogueInv ==
    ASSUME Inv, NEW t \in Updates,
           \/ MenuInstrAdd(t) \/ AddInstructionTitle(t)
           \/ InstrEditTitleStart(t) \/ InstrEditMediaStart(t) \/ OtherDialogue(t)
    PROVE  Inv'
  <1> t \in Tasks
    BY DEF Tasks
  <1>1. CASE MenuInstrAdd(t)
    <2>1. ChatTyped' /\ ChatOK'
      BY <1>1 DEF Inv, TypeOK, MenuInstrAdd, ChatTyped, States, ChatOK, DialogueHasSubject, tables
    <2> QED
      BY <1>1, <2>1, RefuseInv DEF MenuInstrAdd, Pressed, tables
  <1>2. CASE AddInstructionTitle(t)
    <2>1. ChatTyped' /\ ChatOK'
      BY <1>2, DataAssumption DEF Inv, TypeOK, AddInstructionTitle, ChatTyped, States, ChatOK,
                                  DialogueHasSubject, tables
    <2> QED
      BY <1>2, <2>1, RefuseInv DEF AddInstructionTitle, Handled, tables
  <1>3. CASE InstrEditTitleStart(t) \/ InstrEditMediaStart(t)
    <2>1. PICK s \in {"edit_title", "edit_media"} : EditStart(t, s)
      BY <1>3 DEF InstrEditTitleStart, InstrEditMediaStart
    <2>2. ChatTyped' /\ ChatOK'
      BY <2>1, DataAssumption DEF Inv, TypeOK, EditStart, ChatTyped, States, ChatOK,
                                  DialogueHasSubject, tables
    <2> QED
      BY <2>1, <2>2, RefuseInv DEF EditStart, Pressed, tables
  <1>4. CASE OtherDialogue(t)
    <2>1. ChatTyped' /\ ChatOK'
      BY <1>4 DEF Inv, TypeOK, OtherDialogue, Clear, ChatTyped, States, ChatOK, DialogueHasSubject, tables
    <2> QED
      BY <1>4, <2>1, RefuseInv DEF OtherDialogue, Pressed, tables
  <1> QED
    BY <1>1, <1>2, <1>3, <1>4

\* The chat may be cleared.
LEMMA ChatKept ==
    ASSUME Inv, UNCHANGED chat \/ Clear, used \subseteq used'
    PROVE  ChatTyped' /\ ChatOK'
  BY DEF Inv, TypeOK, Clear, ChatTyped, States, ChatOK, DialogueHasSubject, chat

LEMMA FailInv ==
    ASSUME Inv, NEW t \in Tasks, pc[t] # "sleeping", Finish(t) \/ Leave(t, "done"),
           UNCHANGED <<tables, bucket>>,
           UNCHANGED chat \/ Clear
    PROVE  Inv'
  BY ChatKept, RefuseInv DEF tables

LEMMA ReturnsInv ==
    ASSUME Inv, NEW t \in Updates, HandlerReturns(t)
    PROVE  Inv'
  <1>1. \A g \in Albums : bucket'[g] # None => bucket'[g].task # t
    BY TaskAssumption DEF Inv, TypeOK, HandlerReturns
  <1>2. Emptied
    BY DEF Inv, TypeOK, Emptied, Buckets, HandlerReturns
  <1>3. ChatTyped' /\ ChatOK'
    BY ChatKept DEF HandlerReturns, tables
  <1> QED
    BY <1>1, <1>2, <1>3, EndInv DEF HandlerReturns, Tasks

-----------------------------------------------------------------------------
(* Statements.                                                              *)

LEMMA StatementInv ==
    ASSUME Inv, NEW t \in Tasks, pc[t] \notin {"idle", "enter", "sleeping"},
           UNCHANGED <<tables, bucket>>, UNCHANGED chat \/ Clear,
           WorkTyped', \A s \in Tasks \ {t} : Same(s) /\ pc'[s] = pc[s],
           TaskOK(t)', OrderOf(t)', InsertedOf(t)', DeletedOf(t)', Fresh'
    PROVE  Inv'
  <1>1. ChatTyped' /\ ChatOK'
    BY ChatKept DEF tables
  <1>2. TypeOK'
    BY <1>1, TypeParts DEF Inv, TablesTyped, tables
  <1>3. BucketOK'
    BY DEF Inv, TypeOK, BucketOK, Tasks
  <1> QED
    BY <1>1, <1>2, <1>3, StepKeeps DEF Inv

\* Only what t reads, draws, deletes or has written changes.
LEMMA FreshStays ==
    ASSUME Inv, UNCHANGED <<tables, bucket, files, read>>
    PROVE  Fresh'
  BY DEF Inv, Fresh, tables

LEMMA NextSortOrderInv ==
    ASSUME Inv, NEW t \in Tasks, NextSortOrder(t)
    PROVE  Inv'
  <1>1. PICK m \in Orders \cup {0} : num' = [num EXCEPT ![t] = m + 1]
    BY DEF NextSortOrder
  <1>2. m + 1 \in Nat
    BY DEF Inv, TypeOK, Orders, Rows
  <1>3. WorkTyped'
    BY <1>1, <1>2, TypeParts DEF Inv, WorkTyped, NextSortOrder, Goto
  <1>4. \A s \in Tasks \ {t} : Same(s) /\ pc'[s] = pc[s]
    BY <1>1 DEF Inv, TypeOK, Same, NextSortOrder, Goto
  <1>5. TaskOK(t)' /\ op'[t] = "create" /\ pc'[t] = "insert"
    BY <1>1, <1>2 DEF Inv, TypeOK, TaskOK, Resting, Creating, Replacing, Retitling, Removing,
                      Nothing, Brought, NextSortOrder, Goto
  <1>6. (OrderOf(t) /\ InsertedOf(t) /\ DeletedOf(t))'
    BY <1>5 DEF OrderOf, Numbered, InsertedOf, Inserted, DeletedOf
  <1>7. Fresh' /\ UNCHANGED <<tables, bucket>> /\ UNCHANGED chat
    BY FreshStays DEF NextSortOrder
  <1> QED
    BY <1>3, <1>4, <1>5, <1>6, <1>7, StatementInv DEF NextSortOrder

\* Whoever writes comes to its commit with the chat kept or cleared.
LEMMA WrittenStep ==
    ASSUME Inv, NEW t \in Tasks, Written(t), UNCHANGED <<what, op, id, num, name, text, files, read>>,
           removed' \in [Tasks -> SUBSET Files], wrote' \in [Tasks -> BOOLEAN],
           \A s \in Tasks \ {t} : removed'[s] = removed[s] /\ wrote'[s] = wrote[s]
    PROVE  /\ WorkTyped' /\ pc'[t] = "commit"
           /\ \A s \in Tasks \ {t} : Same(s) /\ pc'[s] = pc[s]
           /\ UNCHANGED chat \/ Clear
  <1>1. WorkTyped'
    BY TypeParts DEF Inv, WorkTyped, Written, Goto
  <1>2. pc'[t] = "commit" /\ \A s \in Tasks \ {t} : Same(s) /\ pc'[s] = pc[s]
    BY DEF Inv, TypeOK, Same, Written, Goto
  <1> QED
    BY <1>1, <1>2 DEF Written

LEMMA InsertInstructionInv ==
    ASSUME Inv, NEW t \in Tasks, InsertInstruction(t)
    PROVE  Inv'
  <1>1. CASE num[t] \in Orders
    BY <1>1, FailInv DEF InsertInstruction, Refused
  <1>2. CASE num[t] \notin Orders
    <2>1. Written(t) /\ UNCHANGED <<tables, bucket, what, work>>
      BY <1>2 DEF InsertInstruction
    <2>2. /\ WorkTyped' /\ pc'[t] = "commit" /\ (UNCHANGED chat \/ Clear)
          /\ \A s \in Tasks \ {t} : Same(s) /\ pc'[s] = pc[s]
      BY <2>1, WrittenStep DEF work, Inv, TypeOK
    <2>3. TaskOK(t)' /\ op'[t] = "create"
      BY <2>1, <2>2 DEF Inv, TaskOK, Resting, Creating, Replacing, Retitling, Removing,
                        Nothing, Brought, InsertInstruction, work
    <2>4. OrderOf(t)'
      <3>1. \A s \in Tasks \ {t} : Numbered(s) => num[s] # num[t]
        BY DEF InsertInstruction, WaitsFor, Numbered
      <3> QED
        BY <1>2, <2>1, <2>2, <3>1 DEF OrderOf, Numbered, Orders, work, tables
    <2>5. (InsertedOf(t) /\ DeletedOf(t))'
      BY <2>3 DEF InsertedOf, Inserted, DeletedOf
    <2>6. Fresh'
      BY <2>1, FreshStays DEF work
    <2> QED
      BY <2>1, <2>2, <2>3, <2>4, <2>5, <2>6, StatementInv DEF InsertInstruction
  <1> QED
    BY <1>1, <1>2

LEMMA GetInstructionInv ==
    ASSUME Inv, NEW t \in Tasks, GetInstruction(t)
    PROVE  Inv'
  <1>1. CASE id[t] \notin DOMAIN inst
    BY <1>1, FailInv DEF GetInstruction, NothingWritten
  <1>2. CASE id[t] \in DOMAIN inst
    <2> DEFINE content == [caption |-> inst[id[t]].caption, photos |-> inst[id[t]].photos]
    <2>1. /\ read' = [read EXCEPT ![t] = content] /\ Goto(t, "delete")
          /\ UNCHANGED <<chat, what, op, id, num, name, text, files, removed, wrote, tables, bucket>>
      BY <1>2 DEF GetInstruction
    <2>2. content \in Contents /\ content # None
      BY <1>2, DataAssumption DEF Inv, TypeOK, Rows, Contents
    <2>3. WorkTyped'
      BY <2>1, <2>2, TypeParts DEF Inv, WorkTyped, Goto
    <2>4. \A s \in Tasks \ {t} : Same(s) /\ pc'[s] = pc[s]
      BY <2>1 DEF Inv, TypeOK, Same, Goto
    <2>5. TaskOK(t)' /\ pc'[t] = "delete"
      BY <2>1, <2>2 DEF Inv, TypeOK, TaskOK, Resting, Creating, Replacing, Retitling, Removing,
                        Nothing, Brought, GetInstruction, Goto, tables
    <2>6. (OrderOf(t) /\ InsertedOf(t) /\ DeletedOf(t))'
      BY <2>5 DEF OrderOf, Numbered, InsertedOf, Inserted, DeletedOf
    <2>7. Fresh'
      <3>1. \A s \in Tasks : read'[s] = IF s = t THEN content ELSE read[s]
        BY <2>1 DEF Inv, TypeOK
      <3>2. content.photos = inst[id[t]].photos
        OBVIOUS
      <3> HIDE DEF content
      <3> QED
        BY <1>2, <2>1, <3>1, <3>2 DEF Inv, Fresh, tables
    <2> QED
      BY <2>1, <2>3, <2>4, <2>5, <2>6, <2>7, StatementInv DEF GetInstruction
  <1> QED
    BY <1>1, <1>2

LEMMA PhotosType ==
    ASSUME Inv, NEW i
    PROVE  Photos(i) \in SUBSET Files
  BY DEF Inv, TypeOK, Photos, Rows

LEMMA DeletePhotosInv ==
    ASSUME Inv, NEW t \in Tasks, DeletePhotos(t)
    PROVE  Inv'
  <1>1. removed' = [removed EXCEPT ![t] = Photos(id[t])] /\ Photos(id[t]) \in SUBSET Files
    BY PhotosType DEF DeletePhotos
  <1>2. WorkTyped'
    BY <1>1, TypeParts DEF Inv, WorkTyped, DeletePhotos, Goto
  <1>3. \A s \in Tasks \ {t} : Same(s) /\ pc'[s] = pc[s]
    BY <1>1 DEF Inv, TypeOK, Same, DeletePhotos, Goto
  <1>4. TaskOK(t)' /\ pc'[t] = "deleting"
    BY DEF Inv, TypeOK, TaskOK, Resting, Creating, Replacing, Retitling, Removing,
           Nothing, Brought, DeletePhotos, Goto, tables
  <1>5. DeletedOf(t)'
    BY <1>1 DEF Inv, TypeOK, DeletedOf, Photos, DeletePhotos, tables
  <1>6. (OrderOf(t) /\ InsertedOf(t))'
    BY <1>4 DEF OrderOf, Numbered, InsertedOf, Inserted
  <1>7. Fresh'
    BY FreshStays DEF DeletePhotos
  <1> QED
    BY <1>2, <1>3, <1>4, <1>5, <1>6, <1>7, StatementInv DEF DeletePhotos

LEMMA PhotosDeletedInv ==
    ASSUME Inv, NEW t \in Tasks, PhotosDeleted(t)
    PROVE  Inv'
  <1>0. op[t] = "replace" /\ Replacing(t) /\ pc[t] = "deleting"
    BY DEF Inv, TaskOK, Resting, Creating, Replacing, Retitling, Removing, PhotosDeleted
  <1>1. removed' = [removed EXCEPT ![t] = removed[t] \cap Photos(id[t])]
    BY DEF PhotosDeleted
  <1>2. /\ pc' \in {[pc EXCEPT ![t] = l] : l \in {"update", "photos", "commit"}}
        /\ UNCHANGED chat \/ Clear
        /\ pc'[t] = "update" => text[t] # read[t].caption
        /\ pc'[t] \in {"photos", "commit"} => text[t] = read[t].caption
        /\ pc'[t] = "commit" => files[t] = {}
    BY DEF PhotosDeleted, Written, Goto, Inv, TypeOK
  <1>3. WorkTyped'
    BY <1>1, <1>2, TypeParts DEF Inv, WorkTyped, PhotosDeleted
  <1>4. \A s \in Tasks \ {t} : Same(s) /\ pc'[s] = pc[s]
    BY <1>1, <1>2 DEF Inv, TypeOK, Same, PhotosDeleted
  <1>5. TaskOK(t)'
    BY <1>0, <1>2 DEF Inv, TypeOK, TaskOK, Replacing, Nothing, Brought, PhotosDeleted, tables
  <1>6. DeletedOf(t)'
    BY <1>0, <1>1 DEF Inv, TypeOK, DeletedOf, Photos, PhotosDeleted, tables
  <1>7. (OrderOf(t) /\ InsertedOf(t))'
    BY <1>0, <1>2 DEF OrderOf, Numbered, InsertedOf, Inserted, PhotosDeleted
  <1>8. Fresh'
    BY FreshStays DEF PhotosDeleted
  <1> QED
    BY <1>2, <1>3, <1>4, <1>5, <1>6, <1>7, <1>8, StatementInv DEF PhotosDeleted

LEMMA UpdateCaptionInv ==
    ASSUME Inv, NEW t \in Tasks, UpdateCaption(t)
    PROVE  Inv'
  <1>1. CASE id[t] \notin DOMAIN inst
    BY <1>1, FailInv DEF UpdateCaption, Refused
  <1>2. CASE id[t] \in DOMAIN inst
    <2>0. op[t] = "replace" /\ Replacing(t) /\ pc[t] = "update"
      BY DEF Inv, TaskOK, Resting, Creating, Replacing, Retitling, Removing, UpdateCaption
    <2>1. /\ wrote' = [wrote EXCEPT ![t] = TRUE]
          /\ UNCHANGED <<tables, bucket, what, op, id, num, name, text, files, read, removed>>
          /\ pc' \in {[pc EXCEPT ![t] = l] : l \in {"photos", "commit"}}
          /\ UNCHANGED chat \/ Clear
          /\ pc'[t] = "commit" => files[t] = {}
      BY <1>2 DEF UpdateCaption, Written, Goto, Inv, TypeOK
    <2>2. WorkTyped'
      BY <2>1, TypeParts DEF Inv, WorkTyped
    <2>3. \A s \in Tasks \ {t} : Same(s) /\ pc'[s] = pc[s]
      BY <2>1 DEF Inv, TypeOK, Same
    <2>4. TaskOK(t)'
      BY <2>0, <2>1 DEF Inv, TypeOK, TaskOK, Replacing, Nothing, Brought, tables
    <2>5. DeletedOf(t)'
      BY <2>0, <2>1 DEF Inv, DeletedOf, Photos, tables
    <2>6. (OrderOf(t) /\ InsertedOf(t))'
      BY <2>0, <2>1 DEF OrderOf, Numbered, InsertedOf, Inserted
    <2>7. Fresh'
      BY <2>1, FreshStays
    <2> QED
      BY <2>0, <2>1, <2>2, <2>3, <2>4, <2>5, <2>6, <2>7, StatementInv
  <1> QED
    BY <1>1, <1>2

\* The index on the positions: an insert waits for the others', and finds no
\* photo that it has not deleted.
LEMMA InsertPhotosInv ==
    ASSUME Inv, NEW t \in Tasks, InsertPhotos(t)
    PROVE  Inv'
  <1>1. CASE ~(id[t] \in DOMAIN inst /\ Photos(id[t]) \subseteq removed[t])
    BY <1>1, FailInv DEF InsertPhotos, Refused
  <1>2. CASE id[t] \in DOMAIN inst /\ Photos(id[t]) \subseteq removed[t]
    <2>0. op[t] = "replace" /\ Replacing(t) /\ pc[t] = "photos"
      BY DEF Inv, TaskOK, Resting, Creating, Replacing, Retitling, Removing, InsertPhotos
    <2>1. Written(t) /\ UNCHANGED <<tables, bucket, what, work>>
      BY <1>2 DEF InsertPhotos
    <2>2. /\ WorkTyped' /\ pc'[t] = "commit" /\ (UNCHANGED chat \/ Clear)
          /\ \A s \in Tasks \ {t} : Same(s) /\ pc'[s] = pc[s]
      BY <2>1, WrittenStep DEF work, Inv, TypeOK
    <2>3. TaskOK(t)'
      BY <2>0, <2>1, <2>2 DEF Inv, TaskOK, Replacing, Nothing, Brought, work, tables
    <2>4. InsertedOf(t)'
      <3>1. \A s \in Tasks \ {t} : Inserted(s) => id[s] # id[t]
        BY <2>0 DEF InsertPhotos, WaitsFor
      <3>2. \A s \in Tasks \ {t} : Inserted(s)' => Inserted(s)
        BY <2>1, <2>2 DEF Inserted, work
      <3> QED
        BY <1>2, <2>1, <3>1, <3>2 DEF InsertedOf, Photos, work, tables
    <2>5. DeletedOf(t)'
      BY <2>0, <2>1 DEF Inv, DeletedOf, Photos, work, tables
    <2>6. OrderOf(t)'
      BY <2>0, <2>1 DEF OrderOf, Numbered, work
    <2>7. Fresh'
      BY <2>1, FreshStays DEF work
    <2> QED
      BY <2>0, <2>1, <2>2, <2>3, <2>4, <2>5, <2>6, <2>7, StatementInv
  <1> QED
    BY <1>1, <1>2

LEMMA UpdateTitleInv ==
    ASSUME Inv, NEW t \in Tasks, UpdateTitle(t)
    PROVE  Inv'
  <1>1. CASE id[t] \notin DOMAIN inst
    BY <1>1, FailInv DEF UpdateTitle, NothingWritten
  <1>2. CASE id[t] \in DOMAIN inst
    <2>0. Retitling(t) /\ pc[t] = "retitle"
      BY DEF Inv, TaskOK, Resting, Creating, Replacing, Retitling, Removing, UpdateTitle
    <2>1. /\ wrote' = [wrote EXCEPT ![t] = TRUE] /\ Written(t)
          /\ UNCHANGED <<what, op, id, num, name, text, files, read, removed, tables, bucket>>
      BY <1>2 DEF UpdateTitle
    <2>2. /\ WorkTyped' /\ pc'[t] = "commit" /\ (UNCHANGED chat \/ Clear)
          /\ \A s \in Tasks \ {t} : Same(s) /\ pc'[s] = pc[s]
      BY <2>1, WrittenStep DEF Inv, TypeOK
    <2>3. TaskOK(t)'
      BY <2>0, <2>1, <2>2 DEF TaskOK, Retitling, Nothing, tables
    <2>4. (OrderOf(t) /\ InsertedOf(t) /\ DeletedOf(t))'
      BY <2>0, <2>1 DEF Retitling, OrderOf, Numbered, InsertedOf, Inserted, DeletedOf
    <2>5. Fresh'
      BY <2>1, FreshStays
    <2> QED
      BY <2>0, <2>1, <2>2, <2>3, <2>4, <2>5, StatementInv
  <1> QED
    BY <1>1, <1>2

LEMMA DeleteInstructionInv ==
    ASSUME Inv, NEW t \in Tasks, DeleteInstruction(t)
    PROVE  Inv'
  <1>1. CASE id[t] \notin DOMAIN inst
    BY <1>1, FailInv DEF DeleteInstruction
  <1>2. CASE id[t] \in DOMAIN inst
    <2>0. Removing(t) /\ pc[t] = "remove"
      BY DEF Inv, TaskOK, Resting, Creating, Replacing, Retitling, Removing, DeleteInstruction
    <2>1. /\ wrote' = [wrote EXCEPT ![t] = TRUE] /\ Goto(t, "commit")
          /\ removed' = [removed EXCEPT ![t] = Photos(id[t])] /\ Photos(id[t]) \in SUBSET Files
          /\ UNCHANGED <<what, op, id, num, name, text, files, read, tables, chat, bucket>>
      BY <1>2, PhotosType DEF DeleteInstruction
    <2>2. WorkTyped'
      BY <2>1, TypeParts DEF Inv, WorkTyped, Goto
    <2>3. \A s \in Tasks \ {t} : Same(s) /\ pc'[s] = pc[s]
      BY <2>1 DEF Inv, TypeOK, Same, Goto
    <2>4. TaskOK(t)'
      BY <2>0, <2>1 DEF Inv, TypeOK, TaskOK, Removing, Goto, tables
    <2>5. (OrderOf(t) /\ InsertedOf(t) /\ DeletedOf(t))'
      BY <2>0, <2>1 DEF Removing, OrderOf, Numbered, InsertedOf, Inserted, DeletedOf
    <2>6. Fresh'
      BY <2>1, FreshStays
    <2> QED
      BY <2>0, <2>1, <2>2, <2>3, <2>4, <2>5, <2>6, StatementInv
  <1> QED
    BY <1>1, <1>2

-----------------------------------------------------------------------------
(* Commits.                                                                 *)

\* Whoever commits has its session closed and leaves the chat alone.
LEMMA CommitEnds ==
    ASSUME Inv, NEW t \in Tasks, Commit(t)
    PROVE  (Finish(t) \/ Leave(t, "done")) /\ pc[t] = "commit" /\ UNCHANGED <<chat, bucket>>
  BY DEF Commit, Finish

\* What a commit may do to the instructions as far as other tasks care.
LEMMA CommitKeeps ==
    ASSUME Inv, NEW t \in Tasks, pc[t] = "commit", Finish(t) \/ Leave(t, "done"), UNCHANGED bucket,
           UNCHANGED chat \/ Clear, used \subseteq used', TablesTyped',
           OrdersDistinct', OnePhoto', Fresh',
           \A s \in Tasks \ {t} : (OrderOf(s) /\ InsertedOf(s) /\ DeletedOf(s))'
    PROVE  Inv'
  <1>1. ChatTyped' /\ ChatOK'
    BY ChatKept
  <1>2. TypeOK'
    <2>1. WorkTyped'
      <3>1. CASE Finish(t)
        BY <3>1, TypeParts DEF Inv, WorkTyped, Finish, Leave, Goto, Captions
      <3>2. CASE Leave(t, "done")
        BY <3>2, TypeParts DEF Inv, WorkTyped, Leave, Goto, Captions
      <3> QED
        BY <3>1, <3>2
    <2> QED
      BY <1>1, <2>1, TypeParts DEF Inv
  <1>3. \A s \in Tasks \ {t} : Same(s)
    BY DEF Inv, TypeOK, Finish, Leave, Goto, Same
  <1>4. \A s \in Tasks : TaskOK(s)'
    <2>1. TaskOK(t)'
      BY DEF Inv, TypeOK, Finish, Leave, Goto, TaskOK, Resting, Nothing
    <2>2. ASSUME NEW s \in Tasks \ {t}
          PROVE  TaskOK(s)'
      BY <1>3, <2>2 DEF Inv, TypeOK, Same, TaskOK, Resting, Creating, Replacing, Retitling,
             Removing, Nothing, Brought
    <2> QED
      BY <2>1, <2>2
  <1>5. (OrderOf(t) /\ InsertedOf(t) /\ DeletedOf(t))'
    BY DEF Inv, TypeOK, Finish, Leave, Goto, OrderOf, Numbered, InsertedOf, Inserted, DeletedOf
  <1>6. BucketOK'
    BY Places DEF Inv, TypeOK, BucketOK, Tasks
  <1> QED
    BY <1>1, <1>2, <1>4, <1>5, <1>6 DEF Inv

\* No instruction, number or photo comes: nobody is in the way.
LEMMA CommitLess ==
    ASSUME Inv, NEW t \in Tasks, pc[t] = "commit", Finish(t) \/ Leave(t, "done"), UNCHANGED <<bucket, used>>,
           UNCHANGED chat \/ Clear, TablesTyped',
           DOMAIN inst' \subseteq DOMAIN inst,
           \A i \in DOMAIN inst' : inst'[i].order = inst[i].order /\ inst'[i].photos \subseteq inst[i].photos
    PROVE  Inv'
  <1>1. OrdersDistinct' /\ OnePhoto'
    BY DEF Inv, OrdersDistinct, OnePhoto
  <1>2. \A s \in Tasks \ {t} : Same(s)
    BY DEF Inv, TypeOK, Finish, Leave, Goto, Same
  <1>3. Orders' \subseteq Orders /\ \A i : Photos(i)' \subseteq Photos(i)
    BY DEF Orders, Photos
  <1>4. ASSUME NEW s \in Tasks \ {t}
        PROVE  (OrderOf(s) /\ InsertedOf(s) /\ DeletedOf(s))'
    <2>1. OrderOf(s)'
      <3>1. ~Numbered(t)'
        BY DEF Inv, TypeOK, Finish, Leave, Goto, Numbered
      <3> QED
        BY <1>2, <1>3, <1>4, <3>1 DEF Inv, Same, OrderOf, Numbered
    <2>2. InsertedOf(s)'
      <3>1. ~Inserted(t)'
        BY DEF Inv, TypeOK, Finish, Leave, Goto, Inserted
      <3> QED
        BY <1>2, <1>3, <1>4, <3>1 DEF Inv, Same, InsertedOf, Inserted
    <2>3. DeletedOf(s)'
      BY <1>2, <1>3, <1>4 DEF Inv, Same, DeletedOf
    <2> QED
      BY <2>1, <2>2, <2>3
  <1>5. Fresh'
    <2>1. \A s \in Tasks : files'[s] \in {files[s], {}} /\ read'[s] \in {read[s], None}
      BY DEF Inv, TypeOK, Finish, Leave
    <2> QED
      BY <2>1 DEF Inv, Fresh
  <1> QED
    BY <1>1, <1>4, <1>5, CommitKeeps

LEMMA CommitTitleInv ==
    ASSUME Inv, NEW t \in Tasks, Commit(t), op[t] = "retitle"
    PROVE  Inv'
  <1>1. inst' = [inst EXCEPT ![id[t]].title = name[t]] /\ used' = used
    BY DEF Commit, CommitTitle
  <1>2. name[t] \in Titles
    BY DEF Inv, TaskOK, Resting, Creating, Replacing, Retitling, Removing
  <1>3. \A i \in DOMAIN inst :
            /\ inst'[i] \in Rows
            /\ inst'[i].order = inst[i].order /\ inst'[i].photos = inst[i].photos
    BY <1>1, <1>2, SMTT(30) DEF Inv, TypeOK, Rows
  <1>4. TablesTyped'
    BY <1>1, <1>3 DEF Inv, TypeOK, TablesTyped
  <1> QED
    BY <1>1, <1>3, <1>4, CommitEnds, CommitLess

LEMMA CommitRemoveInv ==
    ASSUME Inv, NEW t \in Tasks, Commit(t), op[t] = "remove"
    PROVE  Inv'
  <1>1. inst' = [j \in DOMAIN inst \ {id[t]} |-> inst[j]] /\ used' = used
    BY DEF Commit, CommitRemove
  <1>2. TablesTyped'
    BY <1>1 DEF Inv, TypeOK, TablesTyped
  <1> QED
    BY <1>1, <1>2, CommitEnds, CommitLess

\* What a replacement leaves behind, when the instruction is still there.
LEMMA ReplacedRow ==
    ASSUME Inv, NEW t \in Tasks, Commit(t), op[t] = "replace", id[t] \in DOMAIN inst
    PROVE  /\ TablesTyped' /\ used' = used /\ DOMAIN inst' = DOMAIN inst
           /\ \A i \in DOMAIN inst : inst'[i].order = inst[i].order /\ inst'[i].title = inst[i].title
           /\ \A i \in DOMAIN inst \ {id[t]} : inst'[i] = inst[i]
           /\ inst'[id[t]].photos = (inst[id[t]].photos \ removed[t]) \cup files[t]
           /\ inst'[id[t]].caption = IF wrote[t] THEN text[t] ELSE inst[id[t]].caption
  <1> DEFINE i == id[t]
             row == [inst[i] EXCEPT !.photos = (inst[i].photos \ removed[t]) \cup files[t],
                                    !.caption = IF wrote[t] THEN text[t] ELSE inst[i].caption]
  <1>1. inst' = [inst EXCEPT ![i] = row] /\ used' = used
    BY DEF Commit, CommitReplace, Inv, TypeOK, Rows
  <1>2. inst[i] \in Rows /\ text[t] \in Captions /\ files[t] \in SUBSET Files
    BY DEF Inv, TypeOK
  <1>3. /\ row \in Rows
        /\ row.order = inst[i].order /\ row.title = inst[i].title
        /\ row.photos = (inst[i].photos \ removed[t]) \cup files[t]
        /\ row.caption = IF wrote[t] THEN text[t] ELSE inst[i].caption
    BY <1>2 DEF Rows
  <1> HIDE DEF row
  <1> QED
    BY <1>1, <1>3 DEF Inv, TypeOK, TablesTyped

LEMMA CommitReplaceInv ==
    ASSUME Inv, NEW t \in Tasks, Commit(t), op[t] = "replace"
    PROVE  Inv'
  <1>0. Replacing(t) /\ pc[t] = "commit"
    BY DEF Commit, Inv, TaskOK, Resting, Creating, Replacing, Retitling, Removing
  <1>1. CASE id[t] \notin DOMAIN inst
    <2>1. UNCHANGED tables
      BY <1>1 DEF Commit, CommitReplace, tables
    <2> QED
      BY <1>0, <2>1, CommitEnds, FailInv
  <1>2. CASE id[t] \in DOMAIN inst /\ files[t] = {}
    BY <1>2, ReplacedRow, CommitEnds, CommitLess
  <1>3. CASE id[t] \in DOMAIN inst /\ files[t] # {}
    <2> DEFINE i == id[t]
    <2>1. /\ TablesTyped' /\ used' = used /\ DOMAIN inst' = DOMAIN inst
          /\ \A j \in DOMAIN inst : inst'[j].order = inst[j].order
          /\ \A j \in DOMAIN inst \ {i} : inst'[j] = inst[j]
          /\ inst'[i].photos = (inst[i].photos \ removed[t]) \cup files[t]
      BY <1>3, ReplacedRow
    <2>2. Inserted(t) /\ inst'[i].photos = files[t]
      BY <1>0, <1>3, <2>1 DEF Inv, Inserted, InsertedOf, Photos
    <2>3. \A s \in Tasks \ {t} : Same(s)
      BY DEF Inv, TypeOK, Commit, Finish, Leave, Goto, Same
    <2>4. OrdersDistinct' /\ Orders' = Orders
      BY <2>1 DEF Inv, OrdersDistinct, Orders
    <2>5. OnePhoto'
      BY <1>0, <2>1, <2>2 DEF Inv, OnePhoto, Replacing, Brought
    <2>6. Fresh'
      <3>1. /\ files'[t] = {} /\ read'[t] = None /\ bucket' = bucket
            /\ \A s \in Tasks \ {t} : files'[s] = files[s] /\ read'[s] = read[s]
        BY DEF Inv, TypeOK, Commit, Finish, Leave
      <3>2. \A j \in DOMAIN inst' : inst'[j].photos = IF j = i THEN files[t] ELSE inst[j].photos
        BY <2>1, <2>2
      <3> QED
        BY <1>3, <2>1, <3>1, <3>2 DEF Inv, Fresh
    <2>7. ASSUME NEW s \in Tasks \ {t}
          PROVE  (OrderOf(s) /\ InsertedOf(s) /\ DeletedOf(s))'
      <3>1. OrderOf(s)'
        <4>1. ~Numbered(t)'
          BY DEF Inv, TypeOK, Commit, Finish, Leave, Goto, Numbered
        <4> QED
          BY <2>3, <2>4, <2>7, <4>1 DEF Inv, Same, OrderOf, Numbered
      <3>2. InsertedOf(s)'
        <4>1. ~Inserted(t)'
          BY DEF Inv, TypeOK, Commit, Finish, Leave, Goto, Inserted
        <4>2. Inserted(s)' => Inserted(s) /\ id[s] # i
          BY <2>2, <2>3, <2>7 DEF Inv, Same, Inserted, InsertedOf
        <4>3. id[s] # i => Photos(id[s])' = Photos(id[s])
          BY <2>1, <2>3, <2>7 DEF Same, Photos
        <4> QED
          BY <2>3, <2>7, <4>1, <4>2, <4>3 DEF Inv, Same, InsertedOf, Inserted
      <3>3. DeletedOf(s)'
        <4>1. ASSUME NEW f \in Photos(id[s])', f \notin Photos(id[s])
              PROVE  f \in files[t]
          BY <2>1, <2>2, <2>3, <2>7, <4>1 DEF Same, Photos
        <4>2. \A f \in files[t] : read[s] # None => f \notin read[s].photos
          BY <2>7 DEF Inv, Fresh
        <4>3. op[s] = "replace" /\ pc[s] # "get" => read[s] # None
          BY <2>7 DEF Inv, TaskOK, Resting, Creating, Replacing, Retitling, Removing
        <4> QED
          BY <2>3, <2>7, <4>1, <4>2, <4>3 DEF Inv, Same, DeletedOf
      <3> QED
        BY <3>1, <3>2, <3>3
    <2> QED
      BY <1>0, <2>1, <2>4, <2>5, <2>6, <2>7, CommitEnds, CommitKeeps
  <1> QED
    BY <1>1, <1>2, <1>3

LEMMA CommitCreateInv ==
    ASSUME Inv, NEW t \in Tasks, Commit(t), op[t] = "create"
    PROVE  Inv'
  <1>0. Creating(t) /\ pc[t] = "commit" /\ Numbered(t)
    BY DEF Commit, Inv, TaskOK, Resting, Creating, Replacing, Retitling, Removing, Numbered
  <1> DEFINE row == [title |-> name[t], order |-> num[t], caption |-> text[t], photos |-> files[t]]
  <1>1. PICK i \in Ids \ used :
            /\ inst' = [j \in DOMAIN inst \cup {i} |-> IF j = i THEN row ELSE inst[j]]
            /\ used' = used \cup {i}
    BY DEF Commit, CommitCreate
  <1>2. row \in Rows /\ row.order = num[t] /\ row.photos = files[t]
    BY <1>0 DEF Creating, Inv, TypeOK, Rows
  <1> HIDE DEF row
  <1>3. /\ i \notin DOMAIN inst /\ DOMAIN inst' = DOMAIN inst \cup {i}
        /\ inst'[i] = row /\ \A j \in DOMAIN inst : inst'[j] = inst[j]
    BY <1>1 DEF Inv, TypeOK
  <1>4. TablesTyped'
    BY <1>1, <1>2 DEF Inv, TypeOK, TablesTyped
  <1>5. \A s \in Tasks \ {t} : Same(s)
    BY DEF Inv, TypeOK, Commit, Finish, Leave, Goto, Same
  <1>6. OrdersDistinct' /\ \A n \in Orders' : n \in Orders \/ n = num[t]
    BY <1>0, <1>2, <1>3 DEF Inv, OrdersDistinct, Orders, OrderOf
  <1>7. OnePhoto'
    BY <1>0, <1>2, <1>3 DEF Inv, OnePhoto, Creating, Brought
  <1>8. Fresh'
    BY <1>2, <1>3 DEF Inv, TypeOK, Commit, Finish, Leave, Fresh
  <1>9. ASSUME NEW s \in Tasks \ {t}
        PROVE  (OrderOf(s) /\ InsertedOf(s) /\ DeletedOf(s))'
    <2>1. OrderOf(s)'
      <3>1. ~Numbered(t)'
        BY DEF Inv, TypeOK, Commit, Finish, Leave, Goto, Numbered
      <3>2. Numbered(s) => num[s] # num[t]
        BY <1>0, <1>9 DEF Inv, OrderOf
      <3> QED
        BY <1>5, <1>6, <1>9, <3>1, <3>2 DEF Inv, Same, OrderOf, Numbered
    <2>2. op[s] = "replace" => Photos(id[s])' = Photos(id[s])
      <3>1. op[s] = "replace" => id[s] \in used
        BY <1>9 DEF Inv, TaskOK, Resting, Creating, Replacing, Retitling, Removing
      <3> QED
        BY <1>1, <1>3, <1>5, <1>9, <3>1 DEF Same, Photos
    <2>3. InsertedOf(s)'
      <3>1. ~Inserted(t)'
        BY DEF Inv, TypeOK, Commit, Finish, Leave, Goto, Inserted
      <3> QED
        BY <1>5, <1>9, <2>2, <3>1 DEF Inv, Same, InsertedOf, Inserted
    <2>4. DeletedOf(s)'
      BY <1>5, <1>9, <2>2 DEF Inv, Same, DeletedOf
    <2> QED
      BY <2>1, <2>3, <2>4
  <1> QED
    BY <1>0, <1>1, <1>4, <1>6, <1>7, <1>8, <1>9, CommitEnds, CommitKeeps

-----------------------------------------------------------------------------
(* The invariant, and what follows from it.                                 *)

LEMMA InitInv == Init => Inv
  <1> SUFFICES ASSUME Init
               PROVE  Inv
    OBVIOUS
  <1>1. TypeOK
    <2>1. TablesTyped /\ ChatTyped /\ bucket \in [Albums -> Buckets]
      BY DEF Init, TablesTyped, ChatTyped, States, Buckets
    <2>2. WorkTyped
      BY DEF Init, WorkTyped, Captions
    <2> QED
      BY <2>1, <2>2, TypeParts
  <1>2. \A t \in Tasks : TaskOK(t) /\ OrderOf(t) /\ InsertedOf(t) /\ DeletedOf(t)
    BY DEF Init, TaskOK, Resting, Nothing, OrderOf, Numbered, InsertedOf, Inserted, DeletedOf
  <1>3. BucketOK /\ ChatOK /\ OrdersDistinct /\ OnePhoto /\ Fresh
    BY DEF Init, BucketOK, ChatOK, DialogueHasSubject, OrdersDistinct, OnePhoto, Fresh
  <1> QED
    BY <1>1, <1>2, <1>3 DEF Inv

LEMMA StepInv ==
    ASSUME Inv, NEW t \in Tasks, Statement(t)
    PROVE  Inv'
  <1>1. CASE Commit(t)
    BY <1>1, CommitCreateInv, CommitReplaceInv, CommitTitleInv, CommitRemoveInv DEF Commit
  <1>2. CASE ~Commit(t)
    BY <1>2, NextSortOrderInv, InsertInstructionInv, GetInstructionInv, DeletePhotosInv,
       PhotosDeletedInv, UpdateCaptionInv, InsertPhotosInv, UpdateTitleInv,
       DeleteInstructionInv DEF Statement
  <1> QED
    BY <1>1, <1>2

LEMMA HandlerInv ==
    ASSUME Inv, NEW t \in Updates, Dialogue(t) \/ Begin(t)
    PROVE  Inv'
  <1>1. DOMAIN Handlers = {"add_instruction_title", "add_instruction_media",
                           "add_instruction_text_only", "instr_edit_title_commit",
                           "edit_instruction_media", "edit_instruction_text_only"}
    BY DEF Handlers
  <1>2. CASE Dialogue(t)
    BY <1>1, <1>2, DialogueInv, CmdCancelInv, AlbumPhotoInv DEF Dialogue, AddAlbumPhoto, EditAlbumPhoto
  <1>3. CASE Begin(t)
    BY <1>1, <1>3, AddInstructionInv, EditInstructionInv, InstrEditTitleCommitInv, InstrDelConfirmInv
       DEF Begin, AddInstructionMedia, AddInstructionTextOnly, EditInstructionMedia,
           EditInstructionTextOnly
  <1> QED
    BY <1>2, <1>3

LEMMA NextInv == Inv /\ [Next]_vars => Inv'
  <1> SUFFICES ASSUME Inv, [Next]_vars
               PROVE  Inv'
    OBVIOUS
  <1>1. ASSUME NEW t \in Updates, NEW h \in DOMAIN Handlers, Arrive(t, h)
        PROVE  Inv'
    BY <1>1, ArriveInv
  <1>2. ASSUME NEW t \in Updates, Dialogue(t) \/ Begin(t) \/ HandlerReturns(t)
        PROVE  Inv'
    BY <1>2, HandlerInv, ReturnsInv
  <1>3. ASSUME NEW f \in Timers, FinishAddAlbum(f) \/ FinishEditAlbum(f) \/ AlbumFails(f) \/ AlbumDone(f)
        PROVE  Inv'
    BY <1>3, FinishAddAlbumInv, FinishEditAlbumInv, FailInv DEF AlbumFails, AlbumDone, Tasks
  <1>4. ASSUME NEW t \in Tasks, Statement(t)
        PROVE  Inv'
    BY <1>4, StepInv
  <1>5. CASE BotRestart
    BY <1>5, BotRestartInv
  <1>6. CASE UNCHANGED vars
    <2>1. \A s \in Tasks : Same(s)
      BY <1>6 DEF vars, Same
    <2>2. BucketOK' /\ ChatOK' /\ Fresh'
      BY <1>6 DEF vars, Inv, BucketOK, ChatOK, DialogueHasSubject, Fresh
    <2> QED
      BY <1>6, <2>1, <2>2, RestInv DEF vars, tables, work, Inv, TypeOK, ChatTyped, Buckets
  <1> QED
    BY <1>1, <1>2, <1>3, <1>4, <1>5, <1>6 DEF Next

LEMMA AlwaysInv == Spec => []Inv
  BY InitInv, NextInv, PTL DEF Spec

\* The variables have their types in every reachable state.
THEOREM InstructionsTypeCorrect == Spec => []TypeOK
  <1>1. Inv => TypeOK
    BY DEF Inv
  <1> QED
    BY <1>1, AlwaysInv, PTL

\* An instruction never has the photos of two submissions, whatever replaces them
\* at the same time: replace_instruction_photos waits at the index or fails.
THEOREM OneSubmission == Spec => []PhotosOfOneSubmission
  <1>1. Inv => PhotosOfOneSubmission
    <2> SUFFICES ASSUME Inv, NEW i \in DOMAIN inst
                 PROVE  Cardinality(inst[i].photos) <= 1
      BY DEF PhotosOfOneSubmission
    <2>1. inst[i].photos = {} \/ \E f : inst[i].photos = {f}
      <3>1. \A f, g \in inst[i].photos : f = g
        BY DEF Inv, OnePhoto
      <3> QED
        BY <3>1
    <2>2. CASE inst[i].photos = {}
      BY <2>2, FS_EmptySet
    <2>3. ASSUME NEW f, inst[i].photos = {f}
          PROVE  Cardinality(inst[i].photos) <= 1
      <3>1. Cardinality({f}) = 1
        BY FS_Singleton
      <3> QED
        BY <2>3, <3>1
    <2> QED
      BY <2>1, <2>2, <2>3
  <1> QED
    BY <1>1, AlwaysInv, PTL

\* No two instructions have the same place in the list, although
\* _next_sort_order reads it without a lock.
THEOREM OrdersNeverClash == Spec => []OrdersDistinct
  <1>1. Inv => OrdersDistinct
    BY DEF Inv
  <1> QED
    BY <1>1, AlwaysInv, PTL

\* The chat has a title or an instruction whenever its state asks for it.
THEOREM SubjectKnown == Spec => []DialogueHasSubject
  <1>1. Inv => DialogueHasSubject
    BY DEF Inv, ChatOK
  <1> QED
    BY <1>1, AlwaysInv, PTL

-----------------------------------------------------------------------------
(* Steps that readers see.                                                  *)

\* All steps but a commit and a reading leave the instructions, and give up what
\* some tasks have read.
Unseen ==
    /\ UNCHANGED tables
    /\ \E ws \in SUBSET Tasks : read' = [w \in Tasks |-> IF w \in ws THEN None ELSE read[w]]

LEMMA KeptUnseen ==
    ASSUME Inv, UNCHANGED <<tables, read>>
    PROVE  Unseen
  <1> DEFINE ws == {}
  <1>1. read' = [w \in Tasks |-> IF w \in ws THEN None ELSE read[w]]
    BY DEF Inv, TypeOK
  <1>2. ws \in SUBSET Tasks
    OBVIOUS
  <1> HIDE DEF ws
  <1> QED
    BY <1>1, <1>2 DEF Unseen

LEMMA FinishUnseen ==
    ASSUME Inv, NEW t \in Tasks, Finish(t) \/ Leave(t, "done"), UNCHANGED tables
    PROVE  Unseen
  <1>1. read' = [w \in Tasks |-> IF w \in {t} THEN None ELSE read[w]]
    BY DEF Inv, TypeOK, Finish, Leave
  <1> QED
    BY <1>1 DEF Unseen

LEMMA StatementUnseen ==
    ASSUME Inv, NEW t \in Tasks, Statement(t), ~Commit(t),
           ~(GetInstruction(t) /\ id[t] \in DOMAIN inst)
    PROVE  Unseen
  <1>1. ((Finish(t) \/ Leave(t, "done")) /\ UNCHANGED tables) \/ UNCHANGED <<tables, read>>
    BY DEF Statement, NextSortOrder, InsertInstruction, GetInstruction, DeletePhotos, PhotosDeleted,
           UpdateCaption, InsertPhotos, UpdateTitle, DeleteInstruction, Refused, NothingWritten, work
  <1> QED
    BY <1>1, FinishUnseen, KeptUnseen

LEMMA DialogueUnseen ==
    ASSUME Inv, NEW t \in Updates, Dialogue(t)
    PROVE  Unseen
  <1>1. ((Finish(t) \/ Leave(t, "done")) /\ UNCHANGED tables) \/ UNCHANGED <<tables, read>>
    BY DEF Dialogue, MenuInstrAdd, AddInstructionTitle, InstrEditTitleStart, InstrEditMediaStart,
           EditStart, CmdCancel, OtherDialogue, AddAlbumPhoto, EditAlbumPhoto, AlbumPhoto, tables, work
  <1> QED
    BY <1>1, FinishUnseen, KeptUnseen DEF Tasks

LEMMA BeginUnseen ==
    ASSUME Inv, NEW t \in Updates, Begin(t)
    PROVE  Unseen
  <1>1. ((Finish(t) \/ Leave(t, "done")) /\ UNCHANGED tables) \/ UNCHANGED <<tables, read>>
    <2>1. ASSUME NEW h, AddInstruction(t, h)
          PROVE  ((Finish(t) \/ Leave(t, "done")) /\ UNCHANGED tables) \/ UNCHANGED <<tables, read>>
      BY <2>1 DEF AddInstruction, SessionReset, NothingWritten, BeginCreate
    <2>2. ASSUME NEW h, EditInstruction(t, h)
          PROVE  ((Finish(t) \/ Leave(t, "done")) /\ UNCHANGED tables) \/ UNCHANGED <<tables, read>>
      BY <2>2 DEF EditInstruction, SessionReset, NothingWritten, BeginReplace
    <2>3. ASSUME InstrEditTitleCommit(t) \/ InstrDelConfirm(t)
          PROVE  ((Finish(t) \/ Leave(t, "done")) /\ UNCHANGED tables) \/ UNCHANGED <<tables, read>>
      BY <2>3 DEF InstrEditTitleCommit, SessionReset, NothingWritten, InstrDelConfirm
    <2> QED
      BY <2>1, <2>2, <2>3 DEF Begin, AddInstructionMedia, AddInstructionTextOnly,
                              EditInstructionMedia, EditInstructionTextOnly
  <1> QED
    BY <1>1, FinishUnseen, KeptUnseen DEF Tasks

LEMMA AlbumUnseen ==
    ASSUME Inv, NEW f \in Timers, FinishAddAlbum(f) \/ FinishEditAlbum(f) \/ AlbumFails(f) \/ AlbumDone(f)
    PROVE  Unseen
  <1>1. ((Finish(f) \/ Leave(f, "done")) /\ UNCHANGED tables) \/ UNCHANGED <<tables, read>>
    BY DEF FinishAddAlbum, FinishEditAlbum, AlbumFails, AlbumDone, SessionReset,
           NothingWritten, BeginCreate, BeginReplace
  <1> QED
    BY <1>1, FinishUnseen, KeptUnseen DEF Tasks

LEMMA RestartUnseen ==
    ASSUME Inv, BotRestart
    PROVE  Unseen
  <1>1. read' = [w \in Tasks |-> IF w \in Tasks THEN None ELSE read[w]]
    BY DEF BotRestart
  <1> QED
    BY <1>1 DEF Unseen, BotRestart

LEMMA OtherStep ==
    ASSUME Inv, [Next]_vars,
           \A t \in Tasks : ~Commit(t) /\ ~(GetInstruction(t) /\ id[t] \in DOMAIN inst)
    PROVE  Unseen
  <1>1. CASE BotRestart
    BY <1>1, RestartUnseen
  <1>2. CASE UNCHANGED vars
    BY <1>2, KeptUnseen DEF vars, tables
  <1>3. ASSUME NEW t \in Tasks, Statement(t)
        PROVE  Unseen
    BY <1>3, StatementUnseen
  <1>4. ASSUME NEW t \in Updates, NEW h \in DOMAIN Handlers, Arrive(t, h)
        PROVE  Unseen
    BY <1>4, KeptUnseen DEF Arrive, work
  <1>5. ASSUME NEW t \in Updates, HandlerReturns(t)
        PROVE  Unseen
    BY <1>5, FinishUnseen DEF HandlerReturns, Tasks
  <1> QED
    BY <1>1, <1>2, <1>3, <1>4, <1>5, DialogueUnseen, BeginUnseen, AlbumUnseen DEF Next

\* What the property asks of a step.
EmptiedByText ==
    \A i \in DOMAIN inst \cap DOMAIN inst' :
        /\ inst'[i].caption = None /\ inst'[i].photos = {}
        /\ inst[i].caption # None \/ inst[i].photos # {}
        =>
            \E t \in Tasks :
                /\ op[t] = "replace" /\ id[t] = i /\ files[t] = {} /\ text[t] # None
                /\ text[t] = read[t].caption /\ inst[i].caption = None

LEMMA EmptiedStep == Inv /\ [Next]_vars => EmptiedByText
  <1> SUFFICES ASSUME Inv, [Next]_vars,
                      NEW i \in DOMAIN inst \cap DOMAIN inst',
                      inst'[i].caption = None /\ inst'[i].photos = {},
                      inst[i].caption # None \/ inst[i].photos # {}
               PROVE  \E t \in Tasks :
                         /\ op[t] = "replace" /\ id[t] = i /\ files[t] = {} /\ text[t] # None
                         /\ text[t] = read[t].caption /\ inst[i].caption = None
    BY DEF EmptiedByText
  <1>1. inst' # inst
    OBVIOUS
  <1>2. PICK t \in Tasks : Commit(t)
    BY <1>1, OtherStep DEF Unseen, tables, GetInstruction
  <1>3. CASE op[t] = "create"
    BY <1>2, <1>3 DEF Commit, CommitCreate, Inv, TypeOK
  <1>4. CASE op[t] = "remove"
    BY <1>2, <1>4 DEF Commit, CommitRemove
  <1>5. CASE op[t] = "retitle"
    <2>1. inst' = [inst EXCEPT ![id[t]].title = name[t]]
      BY <1>2, <1>5 DEF Commit, CommitTitle
    <2>2. inst'[i].caption = inst[i].caption /\ inst'[i].photos = inst[i].photos
      BY <2>1 DEF Inv, TypeOK, Rows
    <2> QED
      BY <2>2
  <1>6. CASE op[t] = "replace"
    <2>1. Replacing(t) /\ pc[t] = "commit"
      BY <1>2, <1>6 DEF Commit, Inv, TaskOK, Resting, Creating, Replacing, Retitling, Removing
    <2>2. id[t] = i
      BY <1>1, <1>2, <1>6, ReplacedRow DEF Commit, CommitReplace
    <2>3. /\ inst'[i].photos = (inst[i].photos \ removed[t]) \cup files[t]
          /\ inst'[i].caption = IF wrote[t] THEN text[t] ELSE inst[i].caption
      BY <1>2, <1>6, <2>2, ReplacedRow
    <2>4. files[t] = {} /\ text[t] # None
      BY <2>1, <2>3 DEF Replacing, Brought
    <2>5. wrote[t] = FALSE /\ inst[i].caption = None
      BY <2>3, <2>4 DEF Inv, TypeOK
    <2> QED
      BY <1>6, <2>1, <2>2, <2>4, <2>5 DEF Replacing
  <1> QED
    BY <1>2, <1>3, <1>4, <1>5, <1>6 DEF Commit

\* replace_instruction_photos empties an instruction only in one case: a text
\* that has read the same text, and is overtaken by photos without a caption.
THEOREM EmptiedOnlyByText == Spec => EmptiedByOvertakenText
  <1>1. EmptiedByOvertakenText <=> [][EmptiedByText]_vars
    BY DEF EmptiedByOvertakenText, EmptiedByText
  <1> QED
    BY <1>1, EmptiedStep, AlwaysInv, PTL DEF Spec

-----------------------------------------------------------------------------
(* The refinement.                                                          *)

LEMMA AddStep ==
    ASSUME Inv, NEW t \in Tasks, Commit(t), op[t] = "create"
    PROVE  \E i \in Ids : Promised!Add(i)
  <1>1. Creating(t) /\ Numbered(t)
    BY DEF Commit, Inv, TaskOK, Resting, Creating, Replacing, Retitling, Removing, Numbered
  <1> DEFINE row == [title |-> name[t], order |-> num[t], caption |-> text[t], photos |-> files[t]]
  <1>2. PICK i \in Ids \ used :
            /\ inst' = [j \in DOMAIN inst \cup {i} |-> IF j = i THEN row ELSE inst[j]]
            /\ used' = used \cup {i}
    BY DEF Commit, CommitCreate
  <1>3. /\ row \in [title : Titles, order : Nat, caption : Texts \cup {None}, photos : SUBSET Files]
        /\ row.order = num[t] /\ row.caption = text[t] /\ row.photos = files[t]
    BY <1>1 DEF Creating, Numbered, Inv, TypeOK, Captions
  <1> HIDE DEF row
  <1>4. /\ i \notin DOMAIN inst /\ DOMAIN inst' = DOMAIN inst \cup {i}
        /\ inst'[i] = row /\ \A j \in DOMAIN inst : inst'[j] = inst[j]
    BY <1>2 DEF Inv, TypeOK
  <1>5. [caption |-> text[t], photos |-> files[t]] \in Promised!Submissions
    <2>1. files[t] \in {{}} \cup {{f} : f \in Files}
      <3>1. CASE files[t] = {}
        BY <3>1
      <3>2. CASE files[t] # {}
        <4>1. PICK f \in Files : files[t] = {f}
          BY <1>1, <3>2 DEF Creating, Brought, Inv, TypeOK
        <4> QED
          BY <4>1
      <3> QED
        BY <3>1, <3>2
    <2>2. text[t] \in Texts \cup {None}
      BY DEF Inv, TypeOK, Captions
    <2> QED
      BY <1>1, <2>1, <2>2 DEF Promised!Submissions, Creating, Brought
  <1>6. Promised!Content(inst'[i]) \in Promised!Submissions
    BY <1>3, <1>4, <1>5 DEF Promised!Content
  <1>7. \A j \in DOMAIN inst : inst[j].order # inst'[i].order
    BY <1>1, <1>3, <1>4 DEF Inv, OrderOf, Orders
  <1>8. read' = read
    BY <1>1 DEF Commit, Finish, Leave, Creating, Nothing, Inv, TypeOK
  <1> QED
    BY <1>2, <1>3, <1>4, <1>6, <1>7, <1>8 DEF Promised!Add

LEMMA GiveUpStep ==
    ASSUME Unseen
    PROVE  \E ws \in SUBSET Tasks : Promised!GiveUp(ws)
  BY DEF Unseen, tables, Promised!GiveUp

LEMMA BeginStep ==
    ASSUME Inv, NEW t \in Tasks, GetInstruction(t), id[t] \in DOMAIN inst
    PROVE  Promised!Begin(t, id[t])
  BY DEF GetInstruction, tables, Promised!Begin, Promised!Content

LEMMA ReplaceStep ==
    ASSUME Inv, NEW t \in Tasks, Commit(t), op[t] = "replace", id[t] \in DOMAIN inst
    PROVE  \E c \in Promised!Submissions : Promised!Replace(t, id[t], c)
  <1> DEFINE i == id[t]
             c == [caption |-> text[t], photos |-> files[t]]
             left == inst[i].photos \ removed[t]
             next == [inst EXCEPT
                         ![i].photos = c.photos \cup left,
                         ![i].caption = IF c.caption = read[t].caption THEN @ ELSE c.caption]
  <1>1. Replacing(t) /\ pc[t] = "commit"
    BY DEF Commit, Inv, TaskOK, Resting, Creating, Replacing, Retitling, Removing
  <1>2. c \in Promised!Submissions
    <2>1. files[t] \in {{}} \cup {{f} : f \in Files}
      <3>1. CASE files[t] = {}
        BY <3>1
      <3>2. CASE files[t] # {}
        <4>1. PICK f \in Files : files[t] = {f}
          BY <1>1, <3>2 DEF Replacing, Brought, Inv, TypeOK
        <4> QED
          BY <4>1
      <3> QED
        BY <3>1, <3>2
    <2>2. text[t] \in Texts \cup {None}
      BY DEF Inv, TypeOK, Captions
    <2> QED
      BY <1>1, <2>1, <2>2 DEF Promised!Submissions, Replacing, Brought
  <1>3. left \in SUBSET (inst[i].photos \ read[t].photos)
    BY <1>1 DEF Replacing, Inv, DeletedOf, Photos
  <1>4. c.photos # {} => left = {}
    BY <1>1 DEF Replacing, Inv, InsertedOf, Inserted, Photos
  <1>5. inst' = next
    <2>1. wrote[t] = TRUE <=> text[t] # read[t].caption
      BY <1>1 DEF Replacing
    <2>2. inst' = [inst EXCEPT
                      ![i].photos = (inst[i].photos \ removed[t]) \cup files[t],
                      ![i].caption = IF wrote[t] THEN text[t] ELSE inst[i].caption]
      BY DEF Commit, CommitReplace, Inv, TypeOK, Rows
    <2> QED
      BY <2>1, <2>2 DEF Inv, TypeOK, Rows
  <1>6. used' = used /\ read' = [read EXCEPT ![t] = None]
    BY DEF Commit, CommitReplace, Finish, Leave
  <1>7. read[t] # None
    BY <1>1 DEF Replacing
  <1>8. Promised!Replace(t, i, c)
    BY <1>3, <1>4, <1>5, <1>6, <1>7 DEF Promised!Replace
  <1> QED
    BY <1>2, <1>8

LEMMA RetitleStep ==
    ASSUME Inv, NEW t \in Tasks, Commit(t), op[t] = "retitle", id[t] \in DOMAIN inst
    PROVE  \E n \in Titles : Promised!Retitle(id[t], n)
  <1>1. name[t] \in Titles /\ read[t] = None
    BY DEF Inv, TaskOK, Resting, Creating, Replacing, Retitling, Removing, Nothing
  <1>2. read' = read
    BY <1>1 DEF Commit, Finish, Leave, Inv, TypeOK
  <1> QED
    BY <1>1, <1>2 DEF Commit, CommitTitle, Promised!Retitle

LEMMA RemoveStep ==
    ASSUME Inv, NEW t \in Tasks, Commit(t), op[t] = "remove", id[t] \in DOMAIN inst
    PROVE  Promised!Remove(id[t])
  <1>1. read[t] = None
    BY DEF Inv, TaskOK, Resting, Creating, Replacing, Retitling, Removing, Nothing
  <1>2. read' = read
    BY <1>1 DEF Commit, Finish, Leave, Inv, TypeOK
  <1> QED
    BY <1>2 DEF Commit, CommitRemove, Promised!Remove

\* The instruction was deleted before the commit.
LEMMA GoneStep ==
    ASSUME Inv, NEW t \in Tasks, Commit(t), op[t] # "create", id[t] \notin DOMAIN inst
    PROVE  Unseen
  <1>1. inst' = inst /\ used' = used
    BY DEF Commit, CommitReplace, CommitTitle, CommitRemove, Inv, TypeOK
  <1> QED
    BY <1>1, CommitEnds, FinishUnseen DEF tables

LEMMA CatalogueStep == Inv /\ [Next]_vars => [Promised!Next]_<<inst, used, read>>
  <1> SUFFICES ASSUME Inv, [Next]_vars
               PROVE  Promised!Next
    OBVIOUS
  <1>0. \A t \in Tasks : id[t] \in DOMAIN inst => id[t] \in Ids
    BY DEF Inv, TypeOK
  <1>1. CASE Unseen
    BY <1>1, GiveUpStep DEF Promised!Next
  <1>2. ASSUME NEW t \in Tasks, GetInstruction(t), id[t] \in DOMAIN inst
        PROVE  Promised!Next
    BY <1>0, <1>2, BeginStep DEF Promised!Next
  <1>3. ASSUME NEW t \in Tasks, Commit(t)
        PROVE  Promised!Next
    <2>1. CASE op[t] = "create"
      BY <1>3, <2>1, AddStep DEF Promised!Next
    <2>2. CASE op[t] # "create" /\ id[t] \notin DOMAIN inst
      BY <1>1, <1>3, <2>2, GoneStep
    <2>3. CASE op[t] = "replace" /\ id[t] \in DOMAIN inst
      BY <1>0, <1>3, <2>3, ReplaceStep DEF Promised!Next
    <2>4. CASE op[t] = "retitle" /\ id[t] \in DOMAIN inst
      BY <1>0, <1>3, <2>4, RetitleStep DEF Promised!Next
    <2>5. CASE op[t] = "remove" /\ id[t] \in DOMAIN inst
      BY <1>0, <1>3, <2>5, RemoveStep DEF Promised!Next
    <2> QED
      BY <1>3, <2>1, <2>2, <2>3, <2>4, <2>5 DEF Commit
  <1> QED
    BY <1>1, <1>2, <1>3, OtherStep

\* The handlers, the tasks of the albums and a restart of the bot do to the
\* instructions only what Catalogue allows: for any number of updates, albums
\* and instructions, Instructions implements Catalogue.
THEOREM CatalogueKept == Spec => KeepsCatalogue
  <1>1. Init => Promised!Init
    BY DEF Init, Promised!Init
  <1> QED
    BY <1>1, CatalogueStep, AlwaysInv, PTL DEF Spec, KeepsCatalogue, Promised!Spec

\* What Catalogue comes to for a reader: orders are distinct, an instruction has the
\* photos of one submission at most, and an id that was given and is no longer
\* there does not come back.
CatalogueInv ==
    /\ DOMAIN inst \subseteq used
    /\ OrdersDistinct
    /\ \A i \in DOMAIN inst : \A f, g \in inst[i].photos : f = g

NoneReturns == \A i \in used \ DOMAIN inst : i \in used' \ DOMAIN inst'

THEOREM CataloguePromises ==
    Promised!Spec => [](OrdersDistinct /\ PhotosOfOneSubmission) /\ [][NoneReturns]_<<inst, used>>
  <1> USE DEF CatalogueInv, OrdersDistinct, NoneReturns
  <1>1. Promised!Init => CatalogueInv
    BY DEF Promised!Init
  <1>2. ASSUME CatalogueInv, [Promised!Next]_<<inst, used, read>>
        PROVE  CatalogueInv' /\ [NoneReturns]_<<inst, used>>
    <2>1. ASSUME NEW i \in Ids, Promised!Add(i)
          PROVE  CatalogueInv' /\ NoneReturns
      BY <1>2, <2>1 DEF Promised!Add, Promised!Submissions, Promised!Content
    <2>2. ASSUME NEW i \in Ids, Promised!Remove(i)
          PROVE  CatalogueInv' /\ NoneReturns
      BY <1>2, <2>2 DEF Promised!Remove
    <2>3. ASSUME NEW i \in Ids, NEW t, Promised!Retitle(i, t)
          PROVE  CatalogueInv' /\ NoneReturns
      BY <1>2, <2>3 DEF Promised!Retitle
    <2>4. ASSUME NEW w, NEW i, NEW c \in Promised!Submissions, Promised!Replace(w, i, c)
          PROVE  CatalogueInv' /\ NoneReturns
      BY <1>2, <2>4 DEF Promised!Replace, Promised!Submissions
    <2>5. CASE UNCHANGED <<inst, used>>
      BY <1>2, <2>5
    <2> QED
      BY <1>2, <2>1, <2>2, <2>3, <2>4, <2>5
         DEF Promised!Next, Promised!Begin, Promised!GiveUp
  <1>3. CatalogueInv => OrdersDistinct /\ PhotosOfOneSubmission
    <2> SUFFICES ASSUME CatalogueInv, NEW i \in DOMAIN inst
                 PROVE  Cardinality(inst[i].photos) <= 1
      BY DEF PhotosOfOneSubmission
    <2>1. CASE inst[i].photos = {}
      <3>1. Cardinality(inst[i].photos) = 0
        BY <2>1, FS_EmptySet, Zenon
      <3> QED
        BY <3>1
    <2>2. ASSUME NEW f \in inst[i].photos
          PROVE  Cardinality(inst[i].photos) <= 1
      <3>1. inst[i].photos = {f}
        BY <2>2
      <3>2. Cardinality(inst[i].photos) = 1
        BY <3>1, FS_Singleton, Zenon
      <3> QED
        BY <3>2
    <2> QED
      BY <2>1, <2>2
  <1> QED
    BY <1>1, <1>2, <1>3, PTL DEF Promised!Spec
=============================================================================
