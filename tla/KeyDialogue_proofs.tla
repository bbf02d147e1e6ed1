------------------------- MODULE KeyDialogue_proofs -------------------------
(***************************************************************************)
(* KeyDialogue implements KeyQuota, for any users, chats, limit and updates. *)
(***************************************************************************)
EXTENDS KeyDialogue, FiniteSetTheorems, TLAPS

\* t has the lock on the row of its user.
Busy(t) == pc[t] \notin {"idle", "enter"}

\* The lock of the middleware: one update of a user at a time.
OneUpdatePerUser ==
    \A s, t \in Updates : Busy(s) /\ Busy(t) /\ UserOf(s) = UserOf(t) => s = t

\* What the locals of an update are at each point.
Locals ==
    \A t \in Updates :
        /\ pc[t] # "idle" => from[t] \in Dialogues
        /\ pc[t] # "created" => new[t] = {}
        /\ pc[t] \in {"idle", "enter", "has_whitelist"} => whitelist[t] = FALSE
        /\ pc[t] = "has_whitelist" => UserOf(t) \notin Admins
        /\ pc[t] = "count" /\ UserOf(t) \in Admins => whitelist[t] = TRUE

\* A dialogue that creates a key is over; an admin is never asked.
DialogueState ==
    /\ \A t \in Updates : pc[t] \in {"count", "created"} => state[from[t]] = "none"
    /\ \A d \in Dialogues : d[1] \in Admins => ~Prompted(d)

\* A row that waits for its commit may be added.
Addable(r) ==
    /\ r.id \in drawn
    /\ \A k \in active : k.id # r.id
    /\ IF r.owner \in Admins
       THEN r.whitelist = TRUE
       ELSE Cardinality(KeysOf(r.owner)) < MaxActive

CreatedRows ==
    \A t \in Updates : pc[t] = "created" =>
        \E r \in Rows :
            /\ new[t] = {r} /\ r.owner = UserOf(t) /\ r.whitelist = whitelist[t]
            /\ Addable(r)
            /\ \A s \in Updates \ {t} : \A q \in new[s] : q.id # r.id

\* The rows are finitely many, under ids that were drawn.
RowIds == IsFiniteSet(active) /\ \A k \in active : k.id \in drawn

Inv ==
    /\ TypeOK
    /\ OneUpdatePerUser
    /\ Locals
    /\ DialogueState
    /\ CreatedRows
    /\ RowIds

-----------------------------------------------------------------------------
(* Dialogues.                                                               *)

LEMMA DialogueUser ==
    /\ \A d \in Dialogues : d[1] \in Users
    /\ \A u \in Users : {d \in Dialogues : d[1] = u} = {u} \X Chats[u]
  BY DEF Dialogues

\* A user has no more dialogues than chats.
LEMMA DialoguesOfUser ==
    ASSUME NEW u \in Users
    PROVE  LET D == {d \in Dialogues : d[1] = u}
           IN  IsFiniteSet(D) /\ Cardinality(D) <= Cardinality(Chats[u])
  <1> DEFINE D == {d \in Dialogues : d[1] = u}
             f == [c \in Chats[u] |-> <<u, c>>]
  <1>1. IsFiniteSet(Chats[u])
    BY ChatAssumption
  <1>2. D = {u} \X Chats[u]
    BY DialogueUser
  <1>3. f \in Surjection(Chats[u], D)
    BY <1>2 DEF Surjection
  <1> QED
    BY <1>1, <1>3, FS_Surjection

-----------------------------------------------------------------------------
(* Steps that insert and commit no row.                                     *)

\* When keys are only taken away the quota of a row to be added is kept.
LEMMA AddableFewer ==
    ASSUME RowIds, active' \subseteq active, drawn \subseteq drawn',
           NEW r \in Rows, Addable(r)
    PROVE  Addable(r)'
  <1>1. r.id \in drawn' /\ \A k \in active' : k.id # r.id
    BY DEF Addable
  <1>2. CASE r.owner \in Admins
    BY <1>1, <1>2 DEF Addable
  <1>3. CASE r.owner \notin Admins
    <2> DEFINE K == KeysOf(r.owner)
               L == {k \in active' : k.owner = r.owner}
    <2>1. L \subseteq K /\ IsFiniteSet(K) /\ L = KeysOf(r.owner)'
      BY FS_Subset DEF RowIds, KeysOf
    <2>2. IsFiniteSet(L) /\ Cardinality(L) <= Cardinality(K)
      BY <2>1, FS_Subset
    <2>3. Cardinality(L) \in Nat /\ Cardinality(K) \in Nat
      BY <2>1, <2>2, FS_CardinalityType
    <2>4. Cardinality(K) < MaxActive
      BY <1>3 DEF Addable
    <2>5. Cardinality(KeysOf(r.owner)') < MaxActive
      <3>1. Cardinality(L) < MaxActive
        <4> HIDE DEF K, L
        <4> QED
          BY <2>2, <2>3, <2>4, LimitAssumption
      <3> QED
        BY <2>1, <3>1
    <2> QED
      BY <1>1, <1>3, <2>5 DEF Addable
  <1> QED
    BY <1>2, <1>3

\* No new row waits for its commit, and no key is added.
Fewer ==
    /\ active' \subseteq active
    /\ drawn' = drawn
    /\ \A s \in Updates : pc'[s] = "created" =>
           /\ pc[s] = "created" /\ new'[s] = new[s]
           /\ from'[s] = from[s] /\ whitelist'[s] = whitelist[s]
    /\ \A s \in Updates : new'[s] \subseteq new[s]

LEMMA FewerRows ==
    ASSUME Inv, Fewer
    PROVE  CreatedRows' /\ RowIds'
  <1>1. RowIds'
    BY FS_Subset DEF Inv, RowIds, Fewer
  <1>2. CreatedRows'
    <2> SUFFICES ASSUME NEW t \in Updates, pc'[t] = "created"
                 PROVE  \E r \in Rows :
                          /\ new'[t] = {r}
                          /\ r.owner = UserOf(t)' /\ r.whitelist = whitelist'[t]
                          /\ Addable(r)'
                          /\ \A s \in Updates \ {t} : \A q \in new'[s] : q.id # r.id
      BY DEF CreatedRows
    <2>1. /\ pc[t] = "created" /\ new'[t] = new[t]
          /\ UserOf(t)' = UserOf(t) /\ whitelist'[t] = whitelist[t]
      BY DEF Fewer, UserOf
    <2>2. PICK r \in Rows :
              /\ new[t] = {r} /\ r.owner = UserOf(t) /\ r.whitelist = whitelist[t]
              /\ Addable(r)
              /\ \A s \in Updates \ {t} : \A q \in new[s] : q.id # r.id
      BY <2>1 DEF Inv, CreatedRows
    <2>3. Addable(r)'
      BY <2>2, AddableFewer DEF Inv, Fewer
    <2> QED
      BY <2>1, <2>2, <2>3 DEF Fewer
  <1> QED
    BY <1>1, <1>2

LEMMA ArriveInv ==
    ASSUME Inv, NEW t \in Updates, NEW d \in Dialogues, NEW a \in Acts, Arrive(t, d, a)
    PROVE  Inv'
  <1>1. TypeOK'
    BY DEF Inv, TypeOK, Arrive, Goto
  <1>2. OneUpdatePerUser' /\ Locals' /\ DialogueState'
    BY DEF Inv, TypeOK, Arrive, Goto, OneUpdatePerUser, Busy, UserOf, Locals,
           DialogueState, Prompted
  <1>3. Fewer
    BY DEF Inv, TypeOK, Arrive, Goto, Fewer
  <1> QED
    BY <1>1, <1>2, <1>3, FewerRows DEF Inv

\* An update that ends without a commit.
LEMMA EndInv ==
    ASSUME Inv, NEW t \in Updates, Finish(t), UNCHANGED <<active, drawn, state>>
    PROVE  Inv'
  <1>1. TypeOK'
    BY DEF Inv, TypeOK, Finish, Goto
  <1>2. OneUpdatePerUser' /\ Locals' /\ DialogueState'
    BY DEF Inv, TypeOK, Finish, Goto, OneUpdatePerUser, Busy, UserOf, Locals,
           DialogueState, Prompted
  <1>3. Fewer
    BY DEF Inv, TypeOK, Finish, Goto, Fewer
  <1> QED
    BY <1>1, <1>2, <1>3, FewerRows DEF Inv

\* A handler that begins, or goes on, without a row to insert: what it may do
\* to the state of its dialogue and to its own locals.
Moves(t, p, st, wl) ==
    /\ pc[t] \in {"enter", "has_whitelist", "count"}
    /\ Goto(t, p) /\ p \in {"has_whitelist", "count", "answered"}
    /\ state' = [state EXCEPT ![from[t]] = st] /\ st \in States
    /\ whitelist' = [whitelist EXCEPT ![t] = wl] /\ wl \in BOOLEAN
    /\ \A s \in Updates \ {t} : UserOf(s) = UserOf(t) => ~Busy(s)
    /\ p = "has_whitelist" => wl = FALSE /\ UserOf(t) \notin Admins
    /\ p = "count" => st = "none" /\ (UserOf(t) \in Admins => wl = TRUE)
    /\ p = "count" /\ UserOf(t) \notin Admins /\ wl = TRUE => Prompted(from[t])
    /\ st = "waiting_for_whitelist_choice" =>
           /\ UserOf(t) \notin Admins
           /\ Prompted(from[t]) \/ WhitelistKeysOf(UserOf(t)) = {}
    /\ UNCHANGED <<active, drawn, from, what, new>>

LEMMA MovesInv ==
    ASSUME Inv, NEW t \in Updates, NEW p, NEW st, NEW wl, Moves(t, p, st, wl)
    PROVE  Inv'
  <1>0. from[t] \in Dialogues
    BY DEF Moves, Inv, Locals
  <1>1. TypeOK'
    BY <1>0 DEF Inv, TypeOK, Moves, Goto
  <1>2. OneUpdatePerUser'
    BY DEF Inv, TypeOK, OneUpdatePerUser, Moves, Goto, Busy, UserOf
  <1>3. Locals'
    BY DEF Inv, TypeOK, Locals, Moves, Goto, UserOf
  <1>4. DialogueState'
    <2>1. ASSUME NEW s \in Updates, pc'[s] \in {"count", "created"}
          PROVE  state'[from'[s]] = "none"
      <3>1. CASE s = t
        BY <1>0, <2>1, <3>1 DEF Inv, TypeOK, Moves, Goto
      <3>2. CASE s # t
        <4>1. pc[s] \in {"count", "created"} /\ from[s] # from[t]
          BY <2>1, <3>2 DEF Inv, TypeOK, Moves, Goto, Busy, UserOf
        <4> QED
          BY <1>0, <4>1 DEF Inv, TypeOK, DialogueState, Moves, Locals
      <3> QED
        BY <3>1, <3>2
    <2>2. \A d \in Dialogues : d[1] \in Admins => ~Prompted(d)'
      BY <1>0 DEF Inv, TypeOK, DialogueState, Moves, Prompted, UserOf
    <2> QED
      BY <2>1, <2>2 DEF DialogueState
  <1>5. Fewer
    BY DEF Inv, TypeOK, Fewer, Moves, Goto
  <1> QED
    BY <1>1, <1>2, <1>3, <1>4, <1>5, FewerRows DEF Inv

\* Every step of a handler before its INSERT or its commit is such a move.
LEMMA HandlerMoves ==
    ASSUME Inv, NEW t \in Updates,
           \/ MenuKeysAdd(t) \/ LabelCustom(t) \/ LabelRefused(t) \/ LabelChosen(t)
           \/ Resolve(t) \/ WhitelistChosen(t) \/ LimitReached(t)
    PROVE  \E p, st, wl : Moves(t, p, st, wl)
  <1> USE DEF locals, States, Goto, SetState
  <1>1. pc[t] # "idle" => from[t] \in Dialogues
    BY DEF Inv, Locals
  <1>2. pc[t] \in {"has_whitelist", "count"} =>
            \A s \in Updates \ {t} : UserOf(s) = UserOf(t) => ~Busy(s)
    BY DEF Inv, OneUpdatePerUser, Busy
  <1>3. ASSUME NEW a, Handled(t, a)
        PROVE  /\ pc[t] = "enter" /\ whitelist[t] = FALSE /\ from[t] \in Dialogues
               /\ \A s \in Updates \ {t} : UserOf(s) = UserOf(t) => ~Busy(s)
    BY <1>3 DEF Handled, Busy, Inv, Locals
  <1>4. CASE MenuKeysAdd(t)
    <2>1. Moves(t, "answered", "none", FALSE)
      BY <1>3, <1>4 DEF MenuKeysAdd, Moves, Inv, TypeOK
    <2> QED
      BY <2>1
  <1>5. CASE LabelCustom(t)
    <2>1. Moves(t, "answered", "waiting_for_label", FALSE)
      BY <1>3, <1>5 DEF LabelCustom, Moves, Inv, TypeOK
    <2> QED
      BY <2>1
  <1>6. CASE LabelRefused(t)
    <2>1. Moves(t, "answered", state[from[t]], FALSE)
      BY <1>3, <1>6
      DEF LabelRefused, Moves, Inv, TypeOK, DialogueState, Prompted, UserOf
    <2> QED
      BY <2>1
  <1>7. CASE LabelChosen(t)
    <2>1. CASE UserOf(t) \in Admins
      <3>1. Moves(t, "count", "none", TRUE)
        BY <1>3, <1>7, <2>1 DEF LabelChosen, Moves, Inv, TypeOK
      <3> QED
        BY <3>1
    <2>2. CASE UserOf(t) \notin Admins
      <3>1. /\ state' = [state EXCEPT ![from[t]] = state[from[t]]] /\ state[from[t]] \in States
            /\ whitelist' = [whitelist EXCEPT ![t] = FALSE]
        BY <1>3, <1>7, <2>2 DEF LabelChosen, Inv, TypeOK
      <3>2. state[from[t]] = "waiting_for_whitelist_choice" => Prompted(from[t])
        BY DEF Prompted
      <3>3. Moves(t, "has_whitelist", state[from[t]], FALSE)
        BY <1>3, <1>7, <2>2, <3>1, <3>2 DEF LabelChosen, Moves
      <3> QED
        BY <3>3
    <2> QED
      BY <2>1, <2>2
  <1>8. CASE Resolve(t)
    <2>0. pc[t] = "has_whitelist" /\ whitelist[t] = FALSE /\ UserOf(t) \notin Admins
      BY <1>8 DEF Resolve, Inv, Locals
    <2>1. CASE WhitelistKeysOf(UserOf(t)) # {}
      <3>1. Moves(t, "count", "none", FALSE)
        BY <1>1, <1>2, <1>8, <2>0, <2>1 DEF Resolve, Moves, Inv, TypeOK
      <3> QED
        BY <3>1
    <2>2. CASE WhitelistKeysOf(UserOf(t)) = {}
      <3>1. Moves(t, "answered", "waiting_for_whitelist_choice", FALSE)
        BY <1>1, <1>2, <1>8, <2>0, <2>2 DEF Resolve, Moves, Inv, TypeOK
      <3> QED
        BY <3>1
    <2> QED
      BY <2>1, <2>2
  <1>9. CASE WhitelistChosen(t)
    <2>1. CASE state[from[t]] = "waiting_for_whitelist_choice"
      <3>1. UserOf(t) \notin Admins /\ Prompted(from[t])
        BY <1>3, <1>9, <2>1 DEF WhitelistChosen, Inv, DialogueState, Prompted, UserOf
      <3>2. Moves(t, "count", "none", what[t] = "yes")
        BY <1>3, <1>9, <2>1, <3>1 DEF WhitelistChosen, Moves, Inv, TypeOK
      <3> QED
        BY <3>2
    <2>2. CASE state[from[t]] # "waiting_for_whitelist_choice"
      <3>1. Moves(t, "answered", state[from[t]], FALSE)
        BY <1>3, <1>9, <2>2 DEF WhitelistChosen, Moves, Inv, TypeOK
      <3> QED
        BY <3>1
    <2> QED
      BY <2>1, <2>2
  <1>10. CASE LimitReached(t)
    <2>1. pc[t] = "count" /\ state[from[t]] = "none"
      BY <1>10 DEF LimitReached, Inv, DialogueState
    <2>2. Moves(t, "answered", "none", whitelist[t])
      BY <1>1, <1>2, <1>10, <2>1 DEF LimitReached, Moves, Inv, TypeOK
    <2> QED
      BY <2>2
  <1> QED
    BY <1>4, <1>5, <1>6, <1>7, <1>8, <1>9, <1>10

-----------------------------------------------------------------------------
(* The INSERT, the commit, and what others do.                              *)

LEMMA CreateInv ==
    ASSUME Inv, NEW t \in Updates, NEW id \in Keys, CreateSubscription(t, id)
    PROVE  Inv'
  <1>0. /\ pc[t] = "count" /\ pc' = [pc EXCEPT ![t] = "created"]
        /\ drawn' = drawn \cup {id} /\ id \notin drawn
        /\ UNCHANGED <<active, state, from, what, whitelist>>
        /\ from[t] \in Dialogues /\ UserOf(t) \in Users
    BY DialogueUser DEF CreateSubscription, Goto, Inv, Locals, UserOf
  <1>1. PICK r \in Rows :
            /\ new' = [new EXCEPT ![t] = {r}]
            /\ r.id = id /\ r.owner = UserOf(t) /\ r.whitelist = whitelist[t]
    <2> DEFINE fresh == [id |-> id, owner |-> UserOf(t), whitelist |-> whitelist[t]]
    <2>1. fresh \in Rows /\ new' = [new EXCEPT ![t] = {fresh}]
      BY <1>0 DEF CreateSubscription, Rows, Inv, TypeOK
    <2>2. fresh.id = id /\ fresh.owner = UserOf(t) /\ fresh.whitelist = whitelist[t]
      OBVIOUS
    <2> QED
      BY <2>1, <2>2
  <1>2. TypeOK'
    BY <1>0, <1>1 DEF Inv, TypeOK
  <1>3. OneUpdatePerUser' /\ Locals' /\ DialogueState' /\ RowIds'
    BY <1>0, <1>1 DEF Inv, TypeOK, OneUpdatePerUser, Busy, UserOf, Locals, DialogueState,
                Prompted, RowIds
  <1>4. \A s \in Updates : UserOf(s)' = UserOf(s)
    BY <1>0 DEF UserOf
  <1>5. Addable(r)'
    <2>1. r.id \in drawn' /\ \A k \in active' : k.id # r.id
      BY <1>0, <1>1 DEF Inv, RowIds
    <2>2. CASE r.owner \in Admins
      BY <1>0, <1>1, <2>1, <2>2 DEF Inv, Locals, Addable
    <2>3. CASE r.owner \notin Admins
      <3>1. IsFiniteSet(KeysOf(r.owner))
        BY FS_Subset DEF Inv, RowIds, KeysOf
      <3>2. Cardinality(KeysOf(r.owner)) \in Nat
        BY <3>1, FS_CardinalityType
      <3>3. Cardinality(KeysOf(r.owner)) < MaxActive
        BY <1>1, <2>3, <3>2, LimitAssumption DEF CreateSubscription, AtLimit
      <3>4. KeysOf(r.owner)' = KeysOf(r.owner)
        BY <1>0 DEF KeysOf
      <3> QED
        BY <2>1, <2>3, <3>3, <3>4 DEF Addable
    <2> QED
      BY <2>2, <2>3
  <1>6. CreatedRows'
    <2> SUFFICES ASSUME NEW s \in Updates, pc'[s] = "created"
                 PROVE  \E q \in Rows :
                          /\ new'[s] = {q}
                          /\ q.owner = UserOf(s)' /\ q.whitelist = whitelist'[s]
                          /\ Addable(q)'
                          /\ \A o \in Updates \ {s} : \A x \in new'[o] : x.id # q.id
      BY DEF CreatedRows
    <2>1. \A o \in Updates \ {t} : \A x \in new[o] : x.id \in drawn
      BY DEF Inv, CreatedRows, Locals, Addable
    <2>2. CASE s = t
      BY <1>0, <1>1, <1>4, <1>5, <2>1, <2>2 DEF Inv, TypeOK
    <2>3. CASE s # t
      <3>1. pc[s] = "created"
        BY <1>0, <2>3 DEF Inv, TypeOK
      <3>2. PICK q \in Rows :
                /\ new[s] = {q} /\ q.owner = UserOf(s) /\ q.whitelist = whitelist[s]
                /\ Addable(q)
                /\ \A o \in Updates \ {s} : \A x \in new[o] : x.id # q.id
        BY <3>1 DEF Inv, CreatedRows
      <3>3. Addable(q)' /\ q.id \in drawn
        BY <1>0, <3>2, AddableFewer DEF Inv, Addable
      <3>4. new'[s] = {q} /\ q.owner = UserOf(s)' /\ q.whitelist = whitelist'[s]
        BY <1>0, <1>1, <1>4, <2>3, <3>2 DEF Inv, TypeOK
      <3>5. ASSUME NEW o \in Updates \ {s}, NEW x \in new'[o]
            PROVE  x.id # q.id
        <4>1. CASE o = t
          BY <1>0, <1>1, <3>3, <3>5, <4>1 DEF Inv, TypeOK
        <4>2. CASE o # t
          BY <1>1, <3>2, <3>5, <4>2 DEF Inv, TypeOK
        <4> QED
          BY <4>1, <4>2
      <3> QED
        BY <3>3, <3>4, <3>5
    <2> QED
      BY <2>2, <2>3
  <1> QED
    BY <1>2, <1>3, <1>6 DEF Inv

\* What an update of another user sees of a commit: nothing of its own.
LEMMA AddableOther ==
    ASSUME Inv, NEW r \in Rows, NEW q \in Rows, active' = active \cup {r}, drawn' = drawn,
           r.owner # q.owner, r.id # q.id, Addable(q)
    PROVE  Addable(q)'
  <1>1. KeysOf(q.owner)' = KeysOf(q.owner)
    BY DEF KeysOf
  <1> QED
    BY <1>1 DEF Addable

\* What a commit changes.
LEMMA CommitEffect ==
    ASSUME Inv, NEW t \in Updates, pc[t] = "created", Commit(t)
    PROVE  /\ UNCHANGED <<drawn, state>> /\ active' = active \cup new[t]
           /\ pc'[t] = "idle" /\ new'[t] = {} /\ whitelist'[t] = FALSE
           /\ \A s \in Updates \ {t} :
                  /\ pc'[s] = pc[s] /\ from'[s] = from[s] /\ UserOf(s)' = UserOf(s)
                  /\ whitelist'[s] = whitelist[s] /\ new'[s] = new[s]
  BY DEF Commit, Finish, Goto, Inv, TypeOK, UserOf

LEMMA CommitInv ==
    ASSUME Inv, NEW t \in Updates, pc[t] = "created", Commit(t)
    PROVE  Inv'
  <1>0. /\ UNCHANGED <<drawn, state>> /\ active' = active \cup new[t]
        /\ pc'[t] = "idle" /\ new'[t] = {} /\ whitelist'[t] = FALSE
        /\ \A s \in Updates \ {t} :
               /\ pc'[s] = pc[s] /\ from'[s] = from[s] /\ UserOf(s)' = UserOf(s)
               /\ whitelist'[s] = whitelist[s] /\ new'[s] = new[s]
    BY CommitEffect
  <1>1. PICK r \in Rows :
            /\ new[t] = {r} /\ r.owner = UserOf(t) /\ Addable(r)
            /\ \A s \in Updates \ {t} : \A q \in new[s] : q.id # r.id
    BY DEF Inv, CreatedRows
  <1>2. TypeOK'
    BY <1>1 DEF Commit, Finish, Goto, Inv, TypeOK
  <1>3. active' = active \cup {r}
    BY <1>0, <1>1
  <1>4. OneUpdatePerUser'
    BY <1>0 DEF Inv, OneUpdatePerUser, Busy
  <1>5. Locals'
    BY <1>0 DEF Inv, Locals, UserOf
  <1>6. DialogueState'
    BY <1>0 DEF Inv, DialogueState, Prompted
  <1>7. RowIds'
    BY <1>1, <1>0, <1>3, FS_AddElement DEF Inv, RowIds, Addable
  <1>8. CreatedRows'
    <2> SUFFICES ASSUME NEW s \in Updates, pc'[s] = "created"
                 PROVE  \E q \in Rows :
                          /\ new'[s] = {q}
                          /\ q.owner = UserOf(s)' /\ q.whitelist = whitelist'[s]
                          /\ Addable(q)'
                          /\ \A o \in Updates \ {s} : \A x \in new'[o] : x.id # q.id
      BY DEF CreatedRows
    <2>1. s # t /\ pc[s] = "created"
      BY <1>0
    <2>2. PICK q \in Rows :
              /\ new[s] = {q} /\ q.owner = UserOf(s) /\ q.whitelist = whitelist[s]
              /\ Addable(q)
              /\ \A o \in Updates \ {s} : \A x \in new[o] : x.id # q.id
      BY <2>1 DEF Inv, CreatedRows
    <2>3. r.owner # q.owner /\ r.id # q.id
      BY <1>1, <2>1, <2>2 DEF Inv, OneUpdatePerUser, Busy
    <2>4. Addable(q)'
      BY <1>3, <2>2, <2>3, <1>0, AddableOther
    <2> QED
      BY <2>1, <2>2, <2>4, <1>0
  <1> QED
    BY <1>2, <1>4, <1>5, <1>6, <1>7, <1>8 DEF Inv

\* An update that is answered and has inserted nothing.
LEMMA CommitAnswered ==
    ASSUME Inv, NEW t \in Updates, pc[t] = "answered", Commit(t)
    PROVE  Finish(t) /\ UNCHANGED <<active, drawn, state>>
  BY DEF Commit, Inv, Locals

LEMMA RevokedInv ==
    ASSUME Inv, NEW k \in active, Revoked(k)
    PROVE  Inv'
  <1>1. TypeOK'
    BY DEF Inv, TypeOK, Revoked, locals
  <1>2. OneUpdatePerUser' /\ Locals' /\ DialogueState'
    BY DEF Inv, Revoked, locals, OneUpdatePerUser, Busy, UserOf, Locals, DialogueState, Prompted
  <1>3. Fewer
    BY DEF Revoked, locals, Fewer
  <1> QED
    BY <1>1, <1>2, <1>3, FewerRows DEF Inv

LEMMA RestartInv ==
    ASSUME Inv, BotRestart
    PROVE  Inv'
  <1>1. TypeOK' /\ OneUpdatePerUser' /\ Locals' /\ DialogueState'
    BY DEF Inv, TypeOK, BotRestart, OneUpdatePerUser, Busy, Locals, States, DialogueState, Prompted
  <1>2. Fewer
    BY DEF BotRestart, Fewer
  <1> QED
    BY <1>1, <1>2, FewerRows DEF Inv

-----------------------------------------------------------------------------
(* The invariant, and what follows from it.                                 *)

LEMMA InitInv == Init => Inv
  <1> SUFFICES ASSUME Init PROVE Inv
    OBVIOUS
  <1>1. TypeOK /\ OneUpdatePerUser /\ Locals /\ DialogueState
    <2>1. {k.id : k \in Migrated} \subseteq Keys
      BY MigratedAssumption DEF Rows
    <2> QED
      BY <2>1, MigratedAssumption
      DEF Init, TypeOK, OneUpdatePerUser, Busy, Locals, States, DialogueState, Prompted
  <1>2. CreatedRows /\ RowIds
    BY MigratedAssumption DEF Init, CreatedRows, RowIds
  <1> QED
    BY <1>1, <1>2 DEF Inv

LEMMA NextInv == Inv /\ [Next]_vars => Inv'
  <1> SUFFICES ASSUME Inv, [Next]_vars PROVE Inv'
    OBVIOUS
  <1>1. ASSUME NEW t \in Updates, NEW d \in Dialogues, NEW a \in Acts, Arrive(t, d, a)
        PROVE  Inv'
    BY <1>1, ArriveInv
  <1>2. ASSUME NEW t \in Updates,
               \/ MenuKeysAdd(t) \/ LabelCustom(t) \/ LabelRefused(t) \/ LabelChosen(t)
               \/ Resolve(t) \/ WhitelistChosen(t) \/ LimitReached(t)
        PROVE  Inv'
    BY <1>2, HandlerMoves, MovesInv
  <1>3. ASSUME NEW t \in Updates, NEW id \in Keys, CreateSubscription(t, id)
        PROVE  Inv'
    BY <1>3, CreateInv
  <1>4. ASSUME NEW t \in Updates, Commit(t)
        PROVE  Inv'
    BY <1>4, CommitInv, CommitAnswered, EndInv DEF Commit
  <1>5. ASSUME NEW t \in Updates, HandlerRaises(t)
        PROVE  Inv'
    BY <1>5, EndInv DEF HandlerRaises
  <1>6. ASSUME NEW k \in active, Revoked(k)
        PROVE  Inv'
    BY <1>6, RevokedInv
  <1>7. CASE BotRestart
    BY <1>7, RestartInv
  <1>8. CASE UNCHANGED vars
    <2>1. Fewer
      BY <1>8 DEF vars, Fewer
    <2>2. TypeOK' /\ OneUpdatePerUser' /\ Locals' /\ DialogueState'
      BY <1>8 DEF vars, Inv, TypeOK, OneUpdatePerUser, Busy, UserOf, Locals, DialogueState,
                  Prompted
    <2> QED
      BY <2>1, <2>2, FewerRows DEF Inv
  <1> QED
    BY <1>1, <1>2, <1>3, <1>4, <1>5, <1>6, <1>7, <1>8 DEF Next, HandlerStep

LEMMA AlwaysInv == Spec => []Inv
  BY InitInv, NextInv, PTL DEF Spec

\* The variables have their types in every reachable state.
THEOREM DialogueTypeCorrect == Spec => []TypeOK
  <1>1. Inv => TypeOK
    BY DEF Inv
  <1> QED
    BY <1>1, AlwaysInv, PTL

-----------------------------------------------------------------------------
(* The steps of the dialogues are steps of KeyQuota, or change nothing of it. *)

LEMMA QuotaSame ==
    /\ \A u : Quota!KeysOf(u) = KeysOf(u) /\ Quota!WhitelistKeysOf(u) = WhitelistKeysOf(u)
    /\ \A u : Quota!Cardinality(KeysOf(u)) = Cardinality(KeysOf(u))
  BY DEF Quota!KeysOf, KeysOf, Quota!WhitelistKeysOf, WhitelistKeysOf,
         Quota!Cardinality, Cardinality, Quota!IsFiniteSet, IsFiniteSet

\* d waits for the commit of a whitelist key.
Creating(t, d) == from[t] = d /\ pc[t] \in {"count", "created"} /\ whitelist[t]

LEMMA QuestionsAre ==
    \A d : d \in Questions <=>
        /\ d \in Dialogues /\ d[1] \notin Admins
        /\ Prompted(d) \/ \E t \in Updates : Creating(t, d)
  BY DEF Questions, Creating

\* A step by which no dialogue comes to have a question.
LEMMA FewerQuestions ==
    ASSUME \A d \in Dialogues : Prompted(d)' => Prompted(d),
           \A d \in Dialogues, t \in Updates : Creating(t, d)' => d \in Questions \/ d[1] \in Admins
    PROVE  Questions' \subseteq Questions
  <1> SUFFICES ASSUME NEW d \in Questions' PROVE d \in Questions
    OBVIOUS
  <1>1. /\ d \in Dialogues /\ d[1] \notin Admins
        /\ Prompted(d)' \/ \E t \in Updates : Creating(t, d)'
    BY DEF Questions, Creating
  <1> QED
    BY <1>1, QuestionsAre

LEMMA MovesQuota ==
    ASSUME Inv, NEW t \in Updates, NEW p, NEW st, NEW wl, Moves(t, p, st, wl)
    PROVE  Quota!Next
  <1>0. PICK d \in Dialogues : d = from[t] /\ UserOf(t) = d[1] /\ UNCHANGED active
    BY DEF Moves, Inv, Locals, UserOf
  <1>1. \A e \in Dialogues \ {d} : Prompted(e)' = Prompted(e)
    BY <1>0 DEF Inv, TypeOK, Moves, Prompted
  <1>2. \A e \in Dialogues, s \in Updates \ {t} : Creating(s, e)' = Creating(s, e)
    BY DEF Inv, TypeOK, Moves, Goto, Creating
  <1>3. Prompted(d)' <=> st = "waiting_for_whitelist_choice"
    BY <1>0 DEF Inv, TypeOK, Moves, Prompted
  <1>4. \A e \in Dialogues : Creating(t, e)' <=> e = d /\ p = "count" /\ wl
    BY <1>0 DEF Inv, TypeOK, Moves, Goto, Creating
  <1>5. p = "count" /\ wl => d \in Questions \/ d[1] \in Admins
    BY <1>0, QuestionsAre DEF Moves
  <1>6. \A e \in Dialogues, s \in Updates : Creating(s, e)' => e \in Questions \/ e[1] \in Admins
    BY <1>2, <1>4, <1>5, QuestionsAre
  <1>7. CASE Prompted(d)' => Prompted(d)
    <2>0. \A e \in Dialogues : Prompted(e)' => Prompted(e)
      BY <1>1, <1>7
    <2>1. Questions' \subseteq Questions
      BY <1>6, <2>0, FewerQuestions
    <2> QED
      BY <1>0, <2>1 DEF Quota!Next, Quota!Forget
  <1>8. CASE Prompted(d)' /\ ~Prompted(d)
    <2>1. d[1] \notin Admins /\ WhitelistKeysOf(d[1]) = {} /\ p # "count"
      BY <1>0, <1>3, <1>8 DEF Moves
    <2>2. \A e : e \in Questions' <=>
              /\ e \in Dialogues /\ e[1] \notin Admins
              /\ Prompted(e)' \/ \E s \in Updates : Creating(s, e)'
      BY DEF Questions, Creating
    <2>3. \A e \in Dialogues, s \in Updates : e # d => (Creating(s, e)' <=> Creating(s, e))
      <3>1. \A e : e # d => ~Creating(t, e)
        BY <1>0 DEF Creating
      <3> QED
        BY <1>2, <1>4, <3>1
    <2>4. \A e \in Dialogues \ {d} : e \in Questions' <=> e \in Questions
      BY <1>1, <2>2, <2>3, QuestionsAre
    <2>5. d \in Questions'
      BY <1>0, <1>8, <2>1, <2>2
    <2>6. Questions' = Questions \cup {d}
      BY <2>2, <2>4, <2>5, QuestionsAre
    <2> QED
      BY <1>0, <2>1, <2>6, QuotaSame DEF Quota!Next, Quota!Ask
  <1> QED
    BY <1>7, <1>8

\* The commit of a row.
LEMMA CommitAdds ==
    ASSUME Inv, NEW t \in Updates, pc[t] = "created", Commit(t)
    PROVE  Quota!Next
  <1> DEFINE d == from[t]
  <1>1. PICK r \in Rows :
            new[t] = {r} /\ r.owner = UserOf(t) /\ r.whitelist = whitelist[t] /\ Addable(r)
    BY DEF Inv, CreatedRows
  <1>2. r.whitelist \in BOOLEAN /\ active' = active \cup {r}
    BY <1>1, CommitEffect DEF Rows
  <1>3. d \in Dialogues /\ r.owner = d[1] /\ state[d] = "none"
    BY <1>1 DEF Inv, Locals, DialogueState, UserOf
  <1>4. \A e \in Dialogues : Prompted(e)' = Prompted(e)
    BY CommitEffect DEF Prompted
  <1>5. \A e \in Dialogues, s \in Updates : Creating(s, e)' <=> s # t /\ Creating(s, e)
    BY CommitEffect DEF Creating
  <1>6. \A e : e \in Questions' <=>
            /\ e \in Dialogues /\ e[1] \notin Admins
            /\ Prompted(e) \/ \E s \in Updates \ {t} : Creating(s, e)
    <2>1. \A e : e \in Questions' <=>
              /\ e \in Dialogues /\ e[1] \notin Admins
              /\ Prompted(e)' \/ \E s \in Updates : Creating(s, e)'
      BY DEF Questions, Creating
    <2> QED
      BY <1>4, <1>5, <2>1
  <1>7. \A s \in Updates \ {t} : ~Creating(s, d)
    BY DEF Inv, OneUpdatePerUser, Busy, UserOf, Creating
  <1>8. d \notin Questions' /\ Questions \ {d} \subseteq Questions' /\ Questions' \subseteq Questions
    <2>1. \A e : Creating(t, e) => e = d
      BY DEF Creating
    <2>2. ~Prompted(d)
      BY <1>3 DEF Prompted
    <2> QED
      BY <1>6, <1>7, <2>1, <2>2, QuestionsAre
  <1>9. /\ \A j \in active : j.id # r.id
        /\ r.owner \in Admins => r.whitelist
        /\ r.owner \notin Admins => Quota!Cardinality(Quota!KeysOf(r.owner)) < MaxActive
    BY <1>1, QuotaSame DEF Addable
  <1>10. CASE r.owner \notin Admins /\ r.whitelist
    <2>1. Creating(t, d)
      BY <1>1, <1>10 DEF Creating
    <2>2. d \in Questions /\ Questions' = Questions \ {d}
      BY <1>3, <1>8, <1>10, <2>1, QuestionsAre
    <2>3. Quota!Add(r)
      BY <1>2, <1>3, <1>9, <1>10, <2>2 DEF Quota!Add
    <2> QED
      BY <2>3 DEF Quota!Next, Rows
  <1>11. CASE ~(r.owner \notin Admins /\ r.whitelist)
    <2>1. d \notin Questions
      <3>1. ~Creating(t, d) \/ d[1] \in Admins
        BY <1>1, <1>3, <1>11 DEF Creating
      <3>2. ~Prompted(d)
        BY <1>3 DEF Prompted
      <3> QED
        BY <1>7, <3>1, <3>2, QuestionsAre
    <2>2. Questions' = Questions
      BY <1>8, <2>1
    <2>3. Quota!Add(r)
      BY <1>2, <1>9, <1>11, <2>2 DEF Quota!Add
    <2> QED
      BY <2>3 DEF Quota!Next, Rows
  <1> QED
    BY <1>10, <1>11

LEMMA QuotaStep == Inv /\ [Next]_vars => [Quota!Next]_<<active, Questions>>
  <1> SUFFICES ASSUME Inv, [Next]_vars
               PROVE  Quota!Next \/ UNCHANGED <<active, Questions>>
    OBVIOUS
  <1>0. ASSUME active' = active, Questions' \subseteq Questions
        PROVE  Quota!Next
    BY <1>0 DEF Quota!Next, Quota!Forget
  <1>1. ASSUME NEW t \in Updates, NEW d \in Dialogues, NEW a \in Acts, Arrive(t, d, a)
        PROVE  Quota!Next
    <2>1. UNCHANGED <<active, state>>
      BY <1>1 DEF Arrive
    <2>2. \A e \in Dialogues, s \in Updates : Creating(s, e)' => Creating(s, e)
      BY <1>1 DEF Arrive, Goto, Creating, Inv, TypeOK
    <2>3. Questions' \subseteq Questions
      BY <2>1, <2>2, FewerQuestions, QuestionsAre DEF Prompted
    <2> QED
      BY <1>0, <2>1, <2>3
  <1>2. ASSUME NEW t \in Updates,
               \/ MenuKeysAdd(t) \/ LabelCustom(t) \/ LabelRefused(t) \/ LabelChosen(t)
               \/ Resolve(t) \/ WhitelistChosen(t) \/ LimitReached(t)
        PROVE  Quota!Next
    BY <1>2, HandlerMoves, MovesQuota
  <1>3. ASSUME NEW t \in Updates, NEW id \in Keys, CreateSubscription(t, id)
        PROVE  Quota!Next
    <2>1. UNCHANGED <<active, state, from, whitelist>>
      BY <1>3 DEF CreateSubscription
    <2>2. \A e \in Dialogues, s \in Updates : Creating(s, e)' => Creating(s, e)
      BY <1>3 DEF CreateSubscription, Goto, Creating, Inv, TypeOK
    <2>3. Questions' \subseteq Questions
      BY <2>1, <2>2, FewerQuestions, QuestionsAre DEF Prompted
    <2> QED
      BY <1>0, <2>1, <2>3
  <1>4. ASSUME NEW t \in Updates, Finish(t), UNCHANGED <<active, drawn, state>>
        PROVE  Quota!Next
    <2>1. \A e \in Dialogues, s \in Updates : Creating(s, e)' => Creating(s, e)
      BY <1>4 DEF Finish, Goto, Creating, Inv, TypeOK
    <2>2. Questions' \subseteq Questions
      BY <1>4, <2>1, FewerQuestions, QuestionsAre DEF Prompted
    <2> QED
      BY <1>0, <1>4, <2>2
  <1>5. ASSUME NEW k \in active, Revoked(k)
        PROVE  Quota!Next
    <2>1. Questions' = Questions
      BY <1>5 DEF Revoked, locals, Questions, Prompted
    <2> QED
      BY <1>5, <2>1 DEF Revoked, Quota!Next, Quota!Remove
  <1>6. CASE BotRestart
    <2>1. Questions' = {}
      BY <1>6 DEF BotRestart, Questions, Prompted
    <2> QED
      BY <1>0, <1>6, <2>1 DEF BotRestart
  <1>7. CASE UNCHANGED vars
    BY <1>7 DEF vars, Questions, Prompted
  <1> QED
    BY <1>1, <1>2, <1>3, <1>4, <1>5, <1>6, <1>7, CommitAdds, CommitAnswered
    DEF Next, HandlerStep, HandlerRaises, Commit

\* The limit of create_subscription and the question of _resolve_whitelist_or_prompt
\* hold for any clicks in any chats: the dialogues refine KeyQuota.
THEOREM QuotaKept == Spec => KeepsQuota
  <1>1. Init => Quota!Init
    BY DEF Init, Quota!Init, Questions, Prompted
  <1> QED
    BY <1>1, QuotaStep, AlwaysInv, PTL DEF Spec, KeepsQuota, Quota!Spec

-----------------------------------------------------------------------------
(* What the quotas come to.                                                 *)

\* The questions that may still give u a whitelist key.
QuestionsOf(u) == {d \in Questions : d[1] = u}

\* Ids are unique.  A user who is no admin has at most MaxActive active keys, or
\* only keys from before, and the whitelist keys and the open questions are
\* together no more than the user's chats.  An admin's new keys are whitelist keys.
WithinQuota ==
    /\ active \subseteq Rows /\ IsFiniteSet(active)
    /\ \A j, k \in active : j.id = k.id => j = k
    /\ \A u \in Users \ Admins :
           /\ Cardinality(KeysOf(u)) <= MaxActive \/ KeysOf(u) \subseteq Migrated
           /\ Cardinality(WhitelistKeysOf(u)) + Cardinality(QuestionsOf(u))
                  <= Cardinality(Chats[u])
    /\ \A k \in active : k.owner \in Admins => k.whitelist \/ k \in Migrated

\* The sets that WithinQuota counts.
LEMMA QuotaSizes ==
    ASSUME IsFiniteSet(active), NEW u \in Users
    PROVE  /\ IsFiniteSet(KeysOf(u)) /\ Cardinality(KeysOf(u)) \in Nat
           /\ IsFiniteSet(WhitelistKeysOf(u)) /\ Cardinality(WhitelistKeysOf(u)) \in Nat
           /\ IsFiniteSet(QuestionsOf(u)) /\ Cardinality(QuestionsOf(u)) \in Nat
           /\ Cardinality(QuestionsOf(u)) <= Cardinality(Chats[u])
           /\ Cardinality(Chats[u]) \in Nat
  <1>1. IsFiniteSet(KeysOf(u)) /\ IsFiniteSet(WhitelistKeysOf(u))
    BY FS_Subset DEF KeysOf, WhitelistKeysOf
  <1> DEFINE D == {d \in Dialogues : d[1] = u}
  <1>2. QuestionsOf(u) \subseteq D
    BY DEF QuestionsOf, Questions
  <1>3. IsFiniteSet(D) /\ Cardinality(D) <= Cardinality(Chats[u])
    BY DialoguesOfUser
  <1>4. IsFiniteSet(QuestionsOf(u)) /\ Cardinality(QuestionsOf(u)) <= Cardinality(D)
    BY <1>2, <1>3, FS_Subset
  <1>5. Cardinality(D) \in Nat /\ Cardinality(Chats[u]) \in Nat /\ Cardinality(QuestionsOf(u)) \in Nat
    BY <1>3, <1>4, ChatAssumption, FS_CardinalityType
  <1>6. Cardinality(KeysOf(u)) \in Nat /\ Cardinality(WhitelistKeysOf(u)) \in Nat
    BY <1>1, FS_CardinalityType
  <1> QED
    BY <1>1, <1>3, <1>4, <1>5, <1>6

\* With fewer keys, whitelist keys and questions a user keeps the quota.
LEMMA FewerWithin ==
    ASSUME WithinQuota, NEW u \in Users \ Admins, IsFiniteSet(active'),
           KeysOf(u)' \subseteq KeysOf(u), Questions' \subseteq Questions
    PROVE  /\ Cardinality(KeysOf(u)') <= MaxActive \/ KeysOf(u)' \subseteq Migrated
           /\ Cardinality(WhitelistKeysOf(u)') + Cardinality(QuestionsOf(u)')
                  <= Cardinality(Chats[u])
  <1>1. WhitelistKeysOf(u)' \subseteq WhitelistKeysOf(u) /\ QuestionsOf(u)' \subseteq QuestionsOf(u)
    BY DEF WhitelistKeysOf, QuestionsOf
  <1>2. /\ IsFiniteSet(KeysOf(u)) /\ IsFiniteSet(WhitelistKeysOf(u)) /\ IsFiniteSet(QuestionsOf(u))
        /\ Cardinality(KeysOf(u)) \in Nat /\ Cardinality(WhitelistKeysOf(u)) \in Nat
        /\ Cardinality(QuestionsOf(u)) \in Nat /\ Cardinality(Chats[u]) \in Nat
    BY QuotaSizes DEF WithinQuota
  <1>3. /\ Cardinality(KeysOf(u)') <= Cardinality(KeysOf(u))
        /\ Cardinality(WhitelistKeysOf(u)') <= Cardinality(WhitelistKeysOf(u))
        /\ Cardinality(QuestionsOf(u)') <= Cardinality(QuestionsOf(u))
    BY <1>1, <1>2, FS_Subset
  <1>4. /\ IsFiniteSet(KeysOf(u)') /\ IsFiniteSet(WhitelistKeysOf(u)')
        /\ IsFiniteSet(QuestionsOf(u)')
    BY <1>1, <1>2, FS_Subset
  <1>5. /\ Cardinality(KeysOf(u)') \in Nat /\ Cardinality(WhitelistKeysOf(u)') \in Nat
        /\ Cardinality(QuestionsOf(u)') \in Nat
    BY <1>4, FS_CardinalityType
  <1>6. /\ Cardinality(KeysOf(u)) <= MaxActive \/ KeysOf(u) \subseteq Migrated
        /\ Cardinality(WhitelistKeysOf(u)) + Cardinality(QuestionsOf(u)) <= Cardinality(Chats[u])
    BY DEF WithinQuota
  <1>7. Cardinality(KeysOf(u)') <= MaxActive \/ KeysOf(u)' \subseteq Migrated
    BY <1>2, <1>3, <1>5, <1>6, LimitAssumption
  <1>8. Cardinality(WhitelistKeysOf(u)') + Cardinality(QuestionsOf(u)') <= Cardinality(Chats[u])
    BY <1>2, <1>3, <1>5, <1>6
  <1> QED
    BY <1>7, <1>8

LEMMA AskWithin ==
    ASSUME WithinQuota, NEW d \in Dialogues, Quota!Ask(d)
    PROVE  WithinQuota'
  <1>1. /\ active' = active /\ Questions' = Questions \cup {d}
        /\ d[1] \notin Admins /\ WhitelistKeysOf(d[1]) = {}
    BY QuotaSame DEF Quota!Ask
  <1>2. ASSUME NEW u \in Users
        PROVE  KeysOf(u)' = KeysOf(u) /\ WhitelistKeysOf(u)' = WhitelistKeysOf(u)
    BY <1>1 DEF KeysOf, WhitelistKeysOf
  <1>3. ASSUME NEW u \in Users \ Admins
        PROVE  Cardinality(WhitelistKeysOf(u)') + Cardinality(QuestionsOf(u)')
                   <= Cardinality(Chats[u])
    <2>1. CASE d[1] = u
      <3>1. Cardinality(WhitelistKeysOf(u)') = 0
        BY <1>1, <1>2, <2>1, FS_EmptySet
      <3>2. Cardinality(QuestionsOf(u)') <= Cardinality(Chats[u]) /\ Cardinality(QuestionsOf(u)') \in Nat
        <4> DEFINE D == {e \in Dialogues : e[1] = u}
        <4>1. QuestionsOf(u)' \subseteq D
          BY <1>1 DEF QuestionsOf, Questions
        <4>2. IsFiniteSet(D) /\ Cardinality(D) <= Cardinality(Chats[u])
          BY DialoguesOfUser
        <4>3. IsFiniteSet(QuestionsOf(u)') /\ Cardinality(QuestionsOf(u)') <= Cardinality(D)
          BY <4>1, <4>2, FS_Subset
        <4>4. Cardinality(D) \in Nat /\ Cardinality(Chats[u]) \in Nat /\ Cardinality(QuestionsOf(u)') \in Nat
          BY <4>2, <4>3, ChatAssumption, FS_CardinalityType
        <4> QED
          BY <4>2, <4>3, <4>4
      <3>3. Cardinality(Chats[u]) \in Nat
        BY ChatAssumption, FS_CardinalityType
      <3> QED
        BY <3>1, <3>2, <3>3
    <2>2. CASE d[1] # u
      <3>1. QuestionsOf(u)' = QuestionsOf(u)
        BY <1>1, <2>2 DEF QuestionsOf
      <3> QED
        BY <1>2, <3>1 DEF WithinQuota
    <2> QED
      BY <2>1, <2>2
  <1>4. active \subseteq Rows /\ IsFiniteSet(active)
    BY DEF WithinQuota
  <1>5. \A u \in Users \ Admins : Cardinality(KeysOf(u)') <= MaxActive \/ KeysOf(u)' \subseteq Migrated
    BY <1>2 DEF WithinQuota
  <1> QED
    BY <1>1, <1>3, <1>4, <1>5 DEF WithinQuota

LEMMA AddWithin ==
    ASSUME WithinQuota, NEW k \in Rows, Quota!Add(k)
    PROVE  WithinQuota'
  <1>1. /\ active' = active \cup {k}
        /\ \A j \in active : j.id # k.id
        /\ k.owner \in Admins => k.whitelist
        /\ k.owner \notin Admins => Cardinality(KeysOf(k.owner)) < MaxActive
        /\ k.owner \notin Admins /\ k.whitelist =>
               \E d \in Questions : d[1] = k.owner /\ Questions' = Questions \ {d}
        /\ Questions' \subseteq Questions
    BY QuotaSame DEF Quota!Add
  <1>2. active' \subseteq Rows /\ IsFiniteSet(active')
    BY <1>1, FS_AddElement DEF WithinQuota
  <1>3. ASSUME NEW u \in Users \ Admins
        PROVE  /\ Cardinality(KeysOf(u)') <= MaxActive \/ KeysOf(u)' \subseteq Migrated
               /\ Cardinality(WhitelistKeysOf(u)') + Cardinality(QuestionsOf(u)')
                      <= Cardinality(Chats[u])
    <2>1. CASE k.owner = u
      <3>1. /\ IsFiniteSet(KeysOf(u)) /\ Cardinality(KeysOf(u)) \in Nat
            /\ IsFiniteSet(WhitelistKeysOf(u)) /\ Cardinality(WhitelistKeysOf(u)) \in Nat
            /\ IsFiniteSet(QuestionsOf(u)) /\ Cardinality(QuestionsOf(u)) \in Nat
            /\ Cardinality(Chats[u]) \in Nat
        BY QuotaSizes DEF WithinQuota
      <3>2. KeysOf(u)' = KeysOf(u) \cup {k} /\ k \notin KeysOf(u)
        BY <1>1, <2>1 DEF KeysOf
      <3>3. Cardinality(KeysOf(u)') = Cardinality(KeysOf(u)) + 1
        BY <3>1, <3>2, FS_AddElement
      <3>4. Cardinality(KeysOf(u)') <= MaxActive
        BY <1>1, <2>1, <3>1, <3>3, LimitAssumption
      <3>5. CASE k.whitelist
        <4>1. PICK d \in Questions : d[1] = u /\ Questions' = Questions \ {d}
          BY <1>1, <2>1, <3>5
        <4>2. QuestionsOf(u)' = QuestionsOf(u) \ {d} /\ d \in QuestionsOf(u)
          BY <4>1 DEF QuestionsOf
        <4>3. Cardinality(QuestionsOf(u)') = Cardinality(QuestionsOf(u)) - 1
          BY <3>1, <4>2, FS_RemoveElement
        <4>4. WhitelistKeysOf(u)' = WhitelistKeysOf(u) \cup {k} /\ k \notin WhitelistKeysOf(u)
          BY <3>2, <3>5 DEF WhitelistKeysOf
        <4>5. Cardinality(WhitelistKeysOf(u)') = Cardinality(WhitelistKeysOf(u)) + 1
          BY <3>1, <4>4, FS_AddElement
        <4>6. Cardinality(WhitelistKeysOf(u)) + Cardinality(QuestionsOf(u)) <= Cardinality(Chats[u])
          BY DEF WithinQuota
        <4> QED
          BY <3>1, <3>4, <4>3, <4>5, <4>6
      <3>6. CASE ~k.whitelist
        <4>1. WhitelistKeysOf(u)' = WhitelistKeysOf(u)
          BY <3>2, <3>6 DEF WhitelistKeysOf
        <4>2. QuestionsOf(u)' \subseteq QuestionsOf(u)
          BY <1>1 DEF QuestionsOf
        <4>3. Cardinality(QuestionsOf(u)') <= Cardinality(QuestionsOf(u)) /\ Cardinality(QuestionsOf(u)') \in Nat
          BY <3>1, <4>2, FS_Subset, FS_CardinalityType
        <4>4. Cardinality(WhitelistKeysOf(u)) + Cardinality(QuestionsOf(u)) <= Cardinality(Chats[u])
          BY DEF WithinQuota
        <4> QED
          BY <3>1, <3>4, <4>1, <4>3, <4>4
      <3> QED
        BY <3>5, <3>6
    <2>2. CASE k.owner # u
      <3>1. KeysOf(u)' = KeysOf(u)
        BY <1>1, <2>2 DEF KeysOf
      <3> QED
        BY <1>1, <1>2, <3>1, FewerWithin
    <2> QED
      BY <2>1, <2>2
  <1>4. \A i, j \in active' : i.id = j.id => i = j
    BY <1>1 DEF WithinQuota
  <1>5. \A j \in active' : j.owner \in Admins => j.whitelist \/ j \in Migrated
    BY <1>1 DEF WithinQuota
  <1> QED
    BY <1>2, <1>3, <1>4, <1>5 DEF WithinQuota

\* A key is removed, or questions are forgotten.
LEMMA LessWithin ==
    ASSUME WithinQuota, active' \subseteq active, Questions' \subseteq Questions
    PROVE  WithinQuota'
  <1>1. active' \subseteq Rows /\ IsFiniteSet(active')
    BY FS_Subset DEF WithinQuota
  <1>2. ASSUME NEW u \in Users \ Admins
        PROVE  /\ Cardinality(KeysOf(u)') <= MaxActive \/ KeysOf(u)' \subseteq Migrated
               /\ Cardinality(WhitelistKeysOf(u)') + Cardinality(QuestionsOf(u)')
                      <= Cardinality(Chats[u])
    <2>1. KeysOf(u)' \subseteq KeysOf(u)
      BY DEF KeysOf
    <2> QED
      BY <1>1, <2>1, FewerWithin
  <1>3. /\ \A i, j \in active' : i.id = j.id => i = j
        /\ \A j \in active' : j.owner \in Admins => j.whitelist \/ j \in Migrated
    BY DEF WithinQuota
  <1> QED
    BY <1>1, <1>2, <1>3 DEF WithinQuota

LEMMA InitWithin == Quota!Init => WithinQuota
  <1> SUFFICES ASSUME Quota!Init PROVE WithinQuota
    OBVIOUS
  <1>1. active = Migrated /\ Questions = {}
    BY DEF Quota!Init
  <1>2. ASSUME NEW u \in Users \ Admins
        PROVE  /\ KeysOf(u) \subseteq Migrated
               /\ Cardinality(WhitelistKeysOf(u)) + Cardinality(QuestionsOf(u)) <= Cardinality(Chats[u])
    <2>1. WhitelistKeysOf(u) = {} /\ QuestionsOf(u) = {} /\ KeysOf(u) \subseteq Migrated
      BY <1>1, MigratedAssumption DEF WhitelistKeysOf, KeysOf, QuestionsOf
    <2>2. Cardinality({}) = 0 /\ Cardinality(Chats[u]) \in Nat
      BY FS_EmptySet, ChatAssumption, FS_CardinalityType
    <2> QED
      BY <2>1, <2>2
  <1> QED
    BY <1>1, <1>2, MigratedAssumption DEF WithinQuota

\* What KeyQuota promises follows from its few lines, and with QuotaKept it holds of
\* the rows that the handlers of the dialogues commit.
THEOREM QuotaPromises == (Quota!Spec => []WithinQuota) /\ (Spec => []WithinQuota)
  <1>1. WithinQuota /\ [Quota!Next]_<<active, Questions>> => WithinQuota'
    <2> SUFFICES ASSUME WithinQuota, [Quota!Next]_<<active, Questions>>
                 PROVE  WithinQuota'
      OBVIOUS
    <2>1. CASE UNCHANGED <<active, Questions>>
      BY <2>1, LessWithin
    <2>2. CASE Quota!Forget
      BY <2>2, LessWithin DEF Quota!Forget
    <2>3. ASSUME NEW k \in active, Quota!Remove(k)
          PROVE  WithinQuota'
      BY <2>3, LessWithin DEF Quota!Remove
    <2> QED
      BY <2>1, <2>2, <2>3, AskWithin, AddWithin DEF Quota!Next, Rows
  <1>2. Quota!Spec => []WithinQuota
    BY <1>1, InitWithin, PTL DEF Quota!Spec
  <1> QED
    BY <1>2, QuotaKept DEF KeepsQuota

\* Whatever chats a user writes in, the whitelist keys and the open questions are
\* never more than those chats.
THEOREM WhitelistBound == Spec => []WhitelistKeysPerChat
  <1>1. WithinQuota => WhitelistKeysPerChat
    <2> SUFFICES ASSUME WithinQuota, NEW u \in Users \ Admins
                 PROVE  Cardinality(WhitelistKeysOf(u)) + Cardinality(PromptsOf(u))
                            <= Cardinality(Chats[u])
      BY DEF WhitelistKeysPerChat
    <2>1. PromptsOf(u) \subseteq QuestionsOf(u)
      BY DEF PromptsOf, QuestionsOf, Questions
    <2>2. /\ IsFiniteSet(QuestionsOf(u)) /\ Cardinality(QuestionsOf(u)) \in Nat
          /\ Cardinality(WhitelistKeysOf(u)) \in Nat /\ Cardinality(Chats[u]) \in Nat
      BY QuotaSizes DEF WithinQuota
    <2>3. Cardinality(PromptsOf(u)) <= Cardinality(QuestionsOf(u)) /\ Cardinality(PromptsOf(u)) \in Nat
      BY <2>1, <2>2, FS_Subset, FS_CardinalityType
    <2>4. Cardinality(WhitelistKeysOf(u)) + Cardinality(QuestionsOf(u)) <= Cardinality(Chats[u])
      BY DEF WithinQuota
    <2> QED
      BY <2>2, <2>3, <2>4
  <1> QED
    BY <1>1, QuotaPromises, PTL

\* A user who writes in one chat only has what the prompt says: one whitelist key,
\* and no open question beside it.
OneChatOneWhitelistKey ==
    \A u \in Users \ Admins : Cardinality(Chats[u]) = 1 =>
        /\ Cardinality(WhitelistKeysOf(u)) <= 1
        /\ PromptsOf(u) # {} => WhitelistKeysOf(u) = {}

\* In one chat the check of sub_whitelist_chosen is enough, whatever the user clicks.
THEOREM OneChatEnough == Spec => []OneChatOneWhitelistKey
  <1>1. WithinQuota /\ WhitelistKeysPerChat => OneChatOneWhitelistKey
    <2> SUFFICES ASSUME WithinQuota, WhitelistKeysPerChat, NEW u \in Users \ Admins,
                        Cardinality(Chats[u]) = 1
                 PROVE  /\ Cardinality(WhitelistKeysOf(u)) <= 1
                        /\ PromptsOf(u) # {} => WhitelistKeysOf(u) = {}
      BY DEF OneChatOneWhitelistKey
    <2>1. /\ IsFiniteSet(WhitelistKeysOf(u)) /\ Cardinality(WhitelistKeysOf(u)) \in Nat
          /\ IsFiniteSet(QuestionsOf(u))
      BY QuotaSizes DEF WithinQuota
    <2>2. IsFiniteSet(PromptsOf(u)) /\ Cardinality(PromptsOf(u)) \in Nat
      <3>1. PromptsOf(u) \subseteq QuestionsOf(u)
        BY DEF PromptsOf, QuestionsOf, Questions
      <3> QED
        BY <2>1, <3>1, FS_Subset, FS_CardinalityType
    <2>3. Cardinality(WhitelistKeysOf(u)) + Cardinality(PromptsOf(u)) <= 1
      BY DEF WhitelistKeysPerChat
    <2>4. ASSUME PromptsOf(u) # {} PROVE WhitelistKeysOf(u) = {}
      <3>1. Cardinality(PromptsOf(u)) # 0
        BY <2>2, <2>4, FS_EmptySet
      <3>2. Cardinality(WhitelistKeysOf(u)) = 0
        BY <2>1, <2>2, <2>3, <3>1
      <3> QED
        BY <2>1, <3>2, FS_EmptySet
    <2> QED
      BY <2>1, <2>2, <2>3, <2>4
  <1> QED
    BY <1>1, QuotaPromises, WhitelistBound, PTL
=============================================================================
