---------------------------- MODULE Instructions ----------------------------
(***************************************************************************)
(* The instructions and the admin who keeps them.  An update of the admin   *)
(* is handled in one transaction, under the lock the middleware takes on    *)
(* the admin's row; its filter has seen the state of the chat on arrival,   *)
(* before the wait for that lock.  The photos of an album are collected in  *)
(* a bucket; a task that each photo starts anew takes the bucket after a    *)
(* pause, looks at the chat once more and writes in a session of its own,   *)
(* without that lock.  Transactions are READ COMMITTED and take the locks   *)
(* of PostgreSQL on the rows and index entries they change.                 *)
(***************************************************************************)
EXTENDS Naturals, FiniteSets

CONSTANTS
    Updates,  \* updates of the admin that are handled at the same time
    Timers,   \* tasks that finish an album, the bound on those there are at a time
    Albums,   \* media groups
    Ids,      \* the ids that uuid4 draws
    Titles, Texts,
    Files,    \* the photos of a message, or of an album as far as it has come
    None

ASSUME TaskAssumption == None \notin Updates \cup Timers /\ Updates \cap Timers = {}
Captions == Texts \cup {None}
Contents == [caption : Captions, photos : SUBSET Files]

ASSUME DataAssumption ==
    None \notin Albums \cup Ids \cup Titles \cup Texts \cup Files \cup Contents

VARIABLES
    inst, used,        \* committed rows: id -> title, order, caption, photos; ids drawn
    state,             \* FSM state of the admin's chat
    title, target,     \* its data: title, edit_instruction_id
    bucket,            \* _album_buffers: the task, the photos and the caption of an album
    pc, what,          \* where a task is; the handler it runs, or was started by
    op, id,            \* what its transaction does, and to which instruction
    num, name,         \* the sort_order it has drawn; the title to store
    text, files,       \* the caption and the photos to store
    read, removed,     \* the content that session.get read; the photos it deletes
    wrote              \* whether it has updated the instruction's row

tables == <<inst, used>>
chat == <<state, title, target>>
work == <<op, id, num, name, text, files, read, removed, wrote>>
vars == <<inst, used, state, title, target, bucket, pc, what,
          op, id, num, name, text, files, read, removed, wrote>>

Tasks == Updates \cup Timers
Rows == [title : Titles, order : Nat, caption : Captions, photos : SUBSET Files]

\* "other" is the state of a dialogue of another kind.
States == {"none", "add_title", "add_media", "edit_title", "edit_media", "other"}

\* The handlers of messages, and the state that their filter asks for.
Handlers == [add_instruction_title |-> "add_title",
             add_instruction_media |-> "add_media",
             add_instruction_text_only |-> "add_media",
             instr_edit_title_commit |-> "edit_title",
             edit_instruction_media |-> "edit_media",
             edit_instruction_text_only |-> "edit_media"]

TypeOK ==
    /\ DOMAIN inst \subseteq used /\ inst \in [DOMAIN inst -> Rows]
    /\ used \subseteq Ids
    /\ state \in States
    /\ title \in Titles \cup {None} /\ target \in Ids \cup {None}
    /\ bucket \in [Albums -> [task : Timers, file : Files, caption : Captions] \cup {None}]
    /\ pc \in [Tasks -> {"idle", "enter", "sleeping", "order", "insert", "get", "delete",
                         "deleting", "update", "photos", "retitle", "remove", "commit", "done"}]
    /\ what \in [Tasks -> DOMAIN Handlers \cup {None}]
    /\ op \in [Tasks -> {"none", "create", "replace", "retitle", "remove"}]
    /\ id \in [Tasks -> Ids \cup {None}]
    /\ num \in [Tasks -> Nat \cup {None}]
    /\ name \in [Tasks -> Titles \cup {None}]
    /\ text \in [Tasks -> Captions]
    /\ files \in [Tasks -> SUBSET Files]
    /\ read \in [Tasks -> Contents \cup {None}]
    /\ removed \in [Tasks -> SUBSET Files]
    /\ wrote \in [Tasks -> BOOLEAN]

Init ==
    /\ inst = [i \in {} |-> None] /\ used = {}
    /\ state = "none" /\ title = None /\ target = None
    /\ bucket = [g \in Albums |-> None]
    /\ pc = [t \in Tasks |-> "idle"]
    /\ what = [t \in Tasks |-> None]
    /\ op = [t \in Tasks |-> "none"]
    /\ id = [t \in Tasks |-> None]
    /\ num = [t \in Tasks |-> None]
    /\ name = [t \in Tasks |-> None]
    /\ text = [t \in Tasks |-> None]
    /\ files = [t \in Tasks |-> {}]
    /\ read = [t \in Tasks |-> None]
    /\ removed = [t \in Tasks |-> {}]
    /\ wrote = [t \in Tasks |-> FALSE]

-----------------------------------------------------------------------------
(***************************************************************************)
(* Transactions.                                                            *)
(***************************************************************************)
Goto(t, l) == pc' = [pc EXCEPT ![t] = l]

\* s has deleted photos, or has inserted photos, and not committed it.
Deleted(s) == IF pc[s] = "deleting" THEN {} ELSE removed[s]
Inserted(s) == op[s] = "replace" /\ pc[s] = "commit" /\ files[s] # {}

\* The transactions the next statement of t waits for: sort_order is unique,
\* a row is changed by one transaction at a time, the rows of photos refer to
\* the instruction, and each position has one photo.
WaitsFor(t) ==
    {s \in Tasks \ {t} :
        \/ /\ pc[t] = "insert" /\ pc[s] = "commit"
           /\ \/ op[s] = "create" /\ num[s] = num[t]
              \/ op[s] = "remove" /\ inst[id[s]].order = num[t]
        \/ pc[t] = "deleting" /\ Deleted(s) \cap removed[t] # {}
        \/ /\ id[s] = id[t]
           /\ \/ pc[t] \in {"update", "retitle", "remove"} /\ wrote[s]
              \/ pc[t] = "remove" /\ (Inserted(s) \/ Deleted(s) # {})
              \/ pc[t] = "photos" /\ (Inserted(s) \/ Deleted(s) \ removed[t] # {})
              \/ pc[t] = "photos" /\ op[s] = "remove" /\ wrote[s]}

\* The session of the task is closed, its locals are gone.
Leave(t, l) ==
    /\ Goto(t, l)
    /\ what' = [what EXCEPT ![t] = None]
    /\ op' = [op EXCEPT ![t] = "none"]
    /\ id' = [id EXCEPT ![t] = None]
    /\ num' = [num EXCEPT ![t] = None]
    /\ name' = [name EXCEPT ![t] = None]
    /\ text' = [text EXCEPT ![t] = None]
    /\ files' = [files EXCEPT ![t] = {}]
    /\ read' = [read EXCEPT ![t] = None]
    /\ removed' = [removed EXCEPT ![t] = {}]
    /\ wrote' = [wrote EXCEPT ![t] = FALSE]

\* The task is over.
Finish(t) == Leave(t, "idle")

\* Mutant: the data goes, the state stays.
ClearData == title' = None /\ target' = None /\ UNCHANGED state

\* state.clear
Clear == state' = "none" /\ title' = None /\ target' = None

\* A handler clears the state after its last statement, before the middleware
\* commits; a task that finishes an album commits and closes its session first.
Written(t) ==
    /\ Goto(t, "commit")
    /\ IF t \in Updates THEN Clear ELSE UNCHANGED chat

\* A handler that has nothing to write clears the state before it answers; a task
\* that finishes an album does so later, see AlbumDone.
NothingWritten(t) ==
    IF t \in Updates THEN Finish(t) /\ Clear ELSE Leave(t, "done") /\ UNCHANGED chat

\* A statement violates a constraint: rollback, and the chat stays as it is.
Refused(t) == Finish(t) /\ UNCHANGED <<tables, chat, bucket>>

\* create_instruction, with the title that the chat has.
BeginCreate(t, c, fs) ==
    /\ op' = [op EXCEPT ![t] = "create"]
    /\ name' = [name EXCEPT ![t] = title]
    /\ text' = [text EXCEPT ![t] = c]
    /\ files' = [files EXCEPT ![t] = fs]
    /\ Goto(t, "order")
    /\ UNCHANGED <<id, num, read, removed, wrote>>

Orders == {inst[i].order : i \in DOMAIN inst}

\* _next_sort_order reads and locks nothing.
NextSortOrder(t) ==
    /\ pc[t] = "order"
    /\ \E m \in Orders \cup {0} :
           /\ \A n \in Orders : n <= m
           /\ num' = [num EXCEPT ![t] = m + 1]
    /\ Goto(t, "insert")
    /\ UNCHANGED <<tables, chat, bucket, what, op, id, name, text, files, read, removed, wrote>>

\* Mutant: sort_order is not unique.
InsertInstructionUnchecked(t) ==
    /\ pc[t] = "insert"
    /\ Written(t)
    /\ UNCHANGED <<tables, bucket, what, work>>

InsertInstruction(t) ==
    /\ pc[t] = "insert" /\ WaitsFor(t) = {}
    /\ IF num[t] \in Orders
       THEN Refused(t)
       ELSE Written(t) /\ UNCHANGED <<tables, bucket, what, work>>

\* replace_instruction_photos, of the instruction that the chat has.
BeginReplace(t, c, fs) ==
    /\ op' = [op EXCEPT ![t] = "replace"]
    /\ id' = [id EXCEPT ![t] = target]
    /\ text' = [text EXCEPT ![t] = c]
    /\ files' = [files EXCEPT ![t] = fs]
    /\ Goto(t, "get")
    /\ UNCHANGED <<num, name, read, removed, wrote>>

GetInstruction(t) ==
    /\ pc[t] = "get"
    /\ IF id[t] \in DOMAIN inst
       THEN /\ read' = [read EXCEPT ![t] = [caption |-> inst[id[t]].caption,
                                            photos |-> inst[id[t]].photos]]
            /\ Goto(t, "delete")
            /\ UNCHANGED <<chat, what, op, id, num, name, text, files, removed, wrote>>
       ELSE NothingWritten(t)
    /\ UNCHANGED <<tables, bucket>>

Photos(i) == IF i \in DOMAIN inst THEN inst[i].photos ELSE {}

\* The DELETE finds the photos that are committed when it begins, and waits
\* for those that somebody else is deleting.
DeletePhotos(t) ==
    /\ pc[t] = "delete"
    /\ removed' = [removed EXCEPT ![t] = Photos(id[t])]
    /\ Goto(t, "deleting")
    /\ UNCHANGED <<tables, chat, bucket, what, op, id, num, name, text, files, read, wrote>>

\* Then the flush: the caption is written only when it is not the one read.
PhotosDeleted(t) ==
    /\ pc[t] = "deleting" /\ WaitsFor(t) = {}
    /\ removed' = [removed EXCEPT ![t] = @ \cap Photos(id[t])]
    /\ IF text[t] # read[t].caption THEN Goto(t, "update") /\ UNCHANGED chat
       ELSE IF files[t] # {} THEN Goto(t, "photos") /\ UNCHANGED chat
       ELSE Written(t)
    /\ UNCHANGED <<tables, bucket, what, op, id, num, name, text, files, read, wrote>>

UpdateCaption(t) ==
    /\ pc[t] = "update" /\ WaitsFor(t) = {}
    /\ IF id[t] \in DOMAIN inst
       THEN /\ wrote' = [wrote EXCEPT ![t] = TRUE]
            /\ IF files[t] # {} THEN Goto(t, "photos") /\ UNCHANGED chat ELSE Written(t)
            /\ UNCHANGED <<tables, bucket, what, op, id, num, name, text, files, read, removed>>
       ELSE Refused(t)

\* Mutant: there is no index on the positions.
InsertPhotosUnchecked(t) ==
    /\ pc[t] = "photos"
    /\ IF id[t] \in DOMAIN inst
       THEN Written(t) /\ UNCHANGED <<tables, bucket, what, work>>
       ELSE Refused(t)

InsertPhotos(t) ==
    /\ pc[t] = "photos" /\ WaitsFor(t) = {}
    /\ IF id[t] \in DOMAIN inst /\ Photos(id[t]) \subseteq removed[t]
       THEN Written(t) /\ UNCHANGED <<tables, bucket, what, work>>
       ELSE Refused(t)

UpdateTitle(t) ==
    /\ pc[t] = "retitle" /\ WaitsFor(t) = {}
    /\ IF id[t] \in DOMAIN inst
       THEN /\ wrote' = [wrote EXCEPT ![t] = TRUE]
            /\ Written(t)
            /\ UNCHANGED <<what, op, id, num, name, text, files, read, removed>>
       ELSE NothingWritten(t)
    /\ UNCHANGED <<tables, bucket>>

\* delete_instruction, and the cascade to the photos.
DeleteInstruction(t) ==
    /\ pc[t] = "remove" /\ WaitsFor(t) = {}
    /\ IF id[t] \in DOMAIN inst
       THEN /\ wrote' = [wrote EXCEPT ![t] = TRUE]
            /\ removed' = [removed EXCEPT ![t] = Photos(id[t])]
            /\ Goto(t, "commit")
            /\ UNCHANGED <<what, op, id, num, name, text, files, read>>
       ELSE Finish(t)
    /\ UNCHANGED <<tables, chat, bucket>>

CommitCreate(t) ==
    \E i \in Ids \ used :
        /\ inst' = [j \in DOMAIN inst \cup {i} |->
                       IF j = i THEN [title |-> name[t], order |-> num[t],
                                      caption |-> text[t], photos |-> files[t]]
                       ELSE inst[j]]
        /\ used' = used \cup {i}

\* Mutant: an instruction that was deleted is written all the same.
CommitReplaceUpsert(t) ==
    /\ inst' = [j \in DOMAIN inst \cup {id[t]} |->
                   IF j # id[t] THEN inst[j]
                   ELSE [title |-> IF j \in DOMAIN inst THEN inst[j].title ELSE CHOOSE n \in Titles : TRUE,
                         order |-> IF j \in DOMAIN inst THEN inst[j].order ELSE 0,
                         caption |-> text[t], photos |-> (Photos(j) \ removed[t]) \cup files[t]]]
    /\ UNCHANGED used

\* The row may be gone when the transaction has changed nothing of it.
CommitReplace(t) ==
    /\ inst' = IF id[t] \notin DOMAIN inst THEN inst
               ELSE [inst EXCEPT
                        ![id[t]].photos = (@ \ removed[t]) \cup files[t],
                        ![id[t]].caption = IF wrote[t] THEN text[t] ELSE @]
    /\ UNCHANGED used

\* Mutant: the text is stored as the title.
CommitTitleText(t) ==
    /\ inst' = [inst EXCEPT ![id[t]].title = text[t]]
    /\ UNCHANGED used

CommitTitle(t) ==
    /\ inst' = [inst EXCEPT ![id[t]].title = name[t]]
    /\ UNCHANGED used

CommitRemove(t) ==
    /\ inst' = [j \in DOMAIN inst \ {id[t]} |-> inst[j]]
    /\ UNCHANGED used

Commit(t) ==
    /\ pc[t] = "commit"
    /\ \/ op[t] = "create" /\ CommitCreate(t)
       \/ op[t] = "replace" /\ CommitReplace(t)
       \/ op[t] = "retitle" /\ CommitTitle(t)
       \/ op[t] = "remove" /\ CommitRemove(t)
    /\ Leave(t, IF t \in Timers THEN "done" ELSE "idle")
    /\ UNCHANGED <<chat, bucket>>

-----------------------------------------------------------------------------
(***************************************************************************)
(* The admin's updates.                                                     *)
(***************************************************************************)
\* The middleware's UPDATE has the admin's row.
HasRow(t) == \A s \in Updates \ {t} : pc[s] \in {"idle", "enter"}

\* A command or a button: nothing has been read before the wait for the row.
Pressed(t) == pc[t] = "idle" /\ HasRow(t)

\* A message: the filters on the state are evaluated when it comes in.
Arrive(t, h) ==
    /\ pc[t] = "idle"
    /\ state = Handlers[h]
    /\ Goto(t, "enter")
    /\ what' = [what EXCEPT ![t] = h]
    /\ UNCHANGED <<tables, chat, bucket, work>>

Handled(t, h) == pc[t] = "enter" /\ what[t] = h /\ HasRow(t)

MenuInstrAdd(t) ==
    /\ Pressed(t)
    /\ state' = "add_title"
    /\ Finish(t)
    /\ UNCHANGED <<tables, title, target, bucket>>

AddInstructionTitle(t) ==
    /\ Handled(t, "add_instruction_title")
    /\ title' \in Titles
    /\ state' = "add_media"
    /\ Finish(t)
    /\ UNCHANGED <<tables, target, bucket>>

\* An instruction that is there has been picked.
EditStart(t, s) ==
    /\ Pressed(t)
    /\ state' = s
    /\ target' \in DOMAIN inst
    /\ Finish(t)
    /\ UNCHANGED <<tables, title, bucket>>

InstrEditTitleStart(t) == EditStart(t, "edit_title")
InstrEditMediaStart(t) == EditStart(t, "edit_media")

\* Photos that nothing in the system knows.
Unknown(f) ==
    /\ \A i \in DOMAIN inst : f \notin inst[i].photos
    /\ \A g \in Albums : ~(bucket[g] # None /\ bucket[g].file = f)
    /\ \A s \in Tasks : f \notin files[s] \cup removed[s] /\ ~(read[s] # None /\ f \in read[s].photos)

\* Mutant: the text may be empty.
BringsNothing(h, c, fs) ==
    IF h \in {"add_instruction_text_only", "edit_instruction_text_only"}
    THEN fs = {}
    ELSE \E f \in Files : fs = {f} /\ Unknown(f)

\* What a text or a single photo brings.
Brings(h, c, fs) ==
    IF h \in {"add_instruction_text_only", "edit_instruction_text_only"}
    THEN c # None /\ fs = {}
    ELSE \E f \in Files : fs = {f} /\ Unknown(f)

\* "The session was reset": the chat's data does not name what the message is for.
SessionReset(t) == NothingWritten(t)

AddInstruction(t, h) ==
    /\ Handled(t, h)
    /\ IF title = None
       THEN SessionReset(t)
       ELSE /\ \E c \in Captions, fs \in SUBSET Files : Brings(h, c, fs) /\ BeginCreate(t, c, fs)
            /\ UNCHANGED <<chat, what>>
    /\ UNCHANGED <<tables, bucket>>

AddInstructionMedia(t) == AddInstruction(t, "add_instruction_media")
AddInstructionTextOnly(t) == AddInstruction(t, "add_instruction_text_only")

EditInstruction(t, h) ==
    /\ Handled(t, h)
    /\ IF target = None
       THEN SessionReset(t)
       ELSE /\ \E c \in Captions, fs \in SUBSET Files : Brings(h, c, fs) /\ BeginReplace(t, c, fs)
            /\ UNCHANGED <<chat, what>>
    /\ UNCHANGED <<tables, bucket>>

EditInstructionMedia(t) == EditInstruction(t, "edit_instruction_media")
EditInstructionTextOnly(t) == EditInstruction(t, "edit_instruction_text_only")

InstrEditTitleCommit(t) ==
    /\ Handled(t, "instr_edit_title_commit")
    /\ IF target = None
       THEN SessionReset(t)
       ELSE /\ op' = [op EXCEPT ![t] = "retitle"]
            /\ id' = [id EXCEPT ![t] = target]
            /\ \E n \in Titles : name' = [name EXCEPT ![t] = n]
            /\ Goto(t, "retitle")
            /\ UNCHANGED <<chat, what, num, text, files, read, removed, wrote>>
    /\ UNCHANGED <<tables, bucket>>

\* The button may be that of an instruction that was deleted.
InstrDelConfirm(t) ==
    /\ Pressed(t)
    /\ op' = [op EXCEPT ![t] = "remove"]
    /\ \E i \in used : id' = [id EXCEPT ![t] = i]
    /\ Goto(t, "remove")
    /\ UNCHANGED <<tables, chat, bucket, what, num, name, text, files, read, removed, wrote>>

\* A photo of an album: the bucket, with the caption that came last, a new task,
\* and the one of the photo before is cancelled.
AlbumPhoto(t, h) ==
    /\ Handled(t, h)
    /\ \E g \in Albums, n \in Timers :
           LET b == bucket[g]
               last == IF b = None THEN None ELSE b.task
           IN /\ pc[n] = "idle" \/ n = last
              /\ \E f \in Files, c \in Captions :
                     /\ IF b = None THEN Unknown(f) ELSE f = b.file /\ (c # None \/ c = b.caption)
                     /\ bucket' = [bucket EXCEPT ![g] = [task |-> n, file |-> f, caption |-> c]]
              /\ pc' = [s \in Tasks |-> IF s = n THEN "sleeping"
                                        ELSE IF s \in {t, last} THEN "idle" ELSE pc[s]]
              /\ what' = [s \in Tasks |-> IF s = n THEN h
                                          ELSE IF s \in {t, last} THEN None ELSE what[s]]
    /\ UNCHANGED <<tables, chat, work>>

AddAlbumPhoto(t) == AlbumPhoto(t, "add_instruction_media")
EditAlbumPhoto(t) == target # None /\ AlbumPhoto(t, "edit_instruction_media")

\* cmd_cancel and instr_edit_cancel: the buckets go, their tasks are cancelled.
CmdCancel(t) ==
    /\ Pressed(t)
    /\ Clear
    /\ bucket' = [g \in Albums |-> None]
    /\ LET over == {t} \cup {bucket[g].task : g \in {h \in Albums : bucket[h] # None}}
       IN /\ pc' = [s \in Tasks |-> IF s \in over THEN "idle" ELSE pc[s]]
          /\ what' = [s \in Tasks |-> IF s \in over THEN None ELSE what[s]]
    /\ UNCHANGED <<tables, work>>

\* A handler of another dialogue ends this one, or takes the chat over.
OtherDialogue(t) ==
    /\ Pressed(t)
    /\ Clear \/ (state' = "other" /\ UNCHANGED <<title, target>>)
    /\ Finish(t)
    /\ UNCHANGED <<tables, bucket>>

\* A handler that only answers: the message or the button is not valid, the
\* dialogue is not one that /cancel ends; or it raises, and its transaction is
\* rolled back, whether it has cleared the state or not.
HandlerReturns(t) ==
    /\ pc[t] # "idle"
    /\ Finish(t)
    /\ UNCHANGED <<tables, chat, bucket>>

-----------------------------------------------------------------------------
(***************************************************************************)
(* The tasks that finish an album.                                          *)
(***************************************************************************)
\* The pause is over: the bucket goes.
TakeAlbum(f, g) ==
    /\ pc[f] = "sleeping"
    /\ bucket[g] # None /\ bucket[g].task = f
    /\ bucket' = [bucket EXCEPT ![g] = None]

\* The album is for the title that the chat has now, if its state is still the
\* one it was sent in ...
FinishAddAlbum(f) ==
    /\ what[f] = "add_instruction_media"
    /\ \E g \in Albums :
           /\ TakeAlbum(f, g)
           /\ IF state # "add_media" THEN Finish(f) /\ UNCHANGED chat
              ELSE IF title = None THEN SessionReset(f)
              ELSE /\ BeginCreate(f, bucket[g].caption, {bucket[g].file})
                   /\ UNCHANGED <<chat, what>>
    /\ UNCHANGED tables

\* ... or for the instruction that it is about now.
FinishEditAlbum(f) ==
    /\ what[f] = "edit_instruction_media"
    /\ \E g \in Albums :
           /\ TakeAlbum(f, g)
           /\ IF state # "edit_media" THEN Finish(f) /\ UNCHANGED chat
              ELSE IF target = None THEN SessionReset(f)
              ELSE /\ BeginReplace(f, bucket[g].caption, {bucket[g].file})
                   /\ UNCHANGED <<chat, what>>
    /\ UNCHANGED tables

\* More photos than an instruction may have, or a statement fails: the admin is
\* told, and the chat stays as it is.
AlbumFails(f) ==
    /\ pc[f] \notin {"idle", "sleeping", "done"}
    /\ Finish(f)
    /\ UNCHANGED <<tables, chat, bucket>>

\* The task has committed, or told that the session was reset, and clears the
\* state of the chat, whatever that has become since.
AlbumDone(f) ==
    /\ pc[f] = "done"
    /\ Finish(f) /\ Clear
    /\ UNCHANGED <<tables, bucket>>

\* The chat's state, the buckets and the tasks are in the memory of the bot.
BotRestart ==
    /\ state' = "none" /\ title' = None /\ target' = None
    /\ bucket' = [g \in Albums |-> None]
    /\ pc' = [t \in Tasks |-> "idle"]
    /\ what' = [t \in Tasks |-> None]
    /\ op' = [t \in Tasks |-> "none"]
    /\ id' = [t \in Tasks |-> None]
    /\ num' = [t \in Tasks |-> None]
    /\ name' = [t \in Tasks |-> None]
    /\ text' = [t \in Tasks |-> None]
    /\ files' = [t \in Tasks |-> {}]
    /\ read' = [t \in Tasks |-> None]
    /\ removed' = [t \in Tasks |-> {}]
    /\ wrote' = [t \in Tasks |-> FALSE]
    /\ UNCHANGED tables

-----------------------------------------------------------------------------
Dialogue(t) ==
    \/ MenuInstrAdd(t) \/ AddInstructionTitle(t)
    \/ InstrEditTitleStart(t) \/ InstrEditMediaStart(t)
    \/ CmdCancel(t) \/ OtherDialogue(t)
    \/ AddAlbumPhoto(t) \/ EditAlbumPhoto(t)

Begin(t) ==
    \/ AddInstructionMedia(t) \/ AddInstructionTextOnly(t)
    \/ EditInstructionMedia(t) \/ EditInstructionTextOnly(t)
    \/ InstrEditTitleCommit(t) \/ InstrDelConfirm(t)

Statement(t) ==
    \/ NextSortOrder(t) \/ InsertInstruction(t)
    \/ GetInstruction(t) \/ DeletePhotos(t) \/ PhotosDeleted(t)
    \/ UpdateCaption(t) \/ InsertPhotos(t)
    \/ UpdateTitle(t) \/ DeleteInstruction(t)
    \/ Commit(t)

Next ==
    \/ \E t \in Updates :
           \/ \E h \in DOMAIN Handlers : Arrive(t, h)
           \/ Dialogue(t) \/ Begin(t) \/ HandlerReturns(t)
    \/ \E f \in Timers : FinishAddAlbum(f) \/ FinishEditAlbum(f) \/ AlbumFails(f) \/ AlbumDone(f)
    \/ \E t \in Tasks : Statement(t)
    \/ BotRestart

Spec == Init /\ [][Next]_vars

-----------------------------------------------------------------------------
(***************************************************************************)
(* Properties.                                                              *)
(***************************************************************************)
Promised == INSTANCE Catalogue
    WITH entries <- inst, base <- read, Writers <- Tasks

\* Readers see what Catalogue promises, whichever of the admin's updates and
\* album tasks run into each other.
KeepsCatalogue == Promised!Spec

\* Two replacements of one instruction leave the photos of one of them: the
\* index on the positions makes the other fail.
PhotosOfOneSubmission ==
    \A i \in DOMAIN inst : Cardinality(inst[i].photos) <= 1

\* The list of instructions has an order: two that are added at the same time
\* do not get the same number.
OrdersDistinct ==
    \A i, j \in DOMAIN inst : inst[i].order = inst[j].order => i = j

\* A chat that waits for media or for a new title knows what for, although
\* filters, handlers and album tasks all look at and clear it at their own time.
DialogueHasSubject ==
    /\ state = "add_media" => title # None
    /\ state \in {"edit_title", "edit_media"} => target # None

\* An instruction that has content does not lose all of it, but to a text that
\* replaces it while somebody else does: the text has read the same text, does
\* not write it, and deletes the photos that replaced it.
EmptiedByOvertakenText ==
    [][\A i \in DOMAIN inst \cap DOMAIN inst' :
         /\ inst'[i].caption = None /\ inst'[i].photos = {}
         /\ inst[i].caption # None \/ inst[i].photos # {}
         =>
             \E t \in Tasks :
                 /\ op[t] = "replace" /\ id[t] = i /\ files[t] = {} /\ text[t] # None
                 /\ text[t] = read[t].caption /\ inst[i].caption = None]_vars
=============================================================================
