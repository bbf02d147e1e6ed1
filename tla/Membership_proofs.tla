-------------------------- MODULE Membership_proofs --------------------------
(***************************************************************************)
(* What the handlers, the foreign keys and the row locks guarantee about    *)
(* the members and their invitations, for any people, codes and updates.    *)
(***************************************************************************)
EXTENDS Membership, FiniteSetTheorems, TLAPS

-----------------------------------------------------------------------------
(* The inductive invariant.                                                 *)

\* What the locals of each handler are.
Open(t) ==
    /\ op[t] = "none" /\ pc[t] \in {"idle", "profile", "handler"}
    /\ code[t] = None /\ held[t] = {} /\ ids[t] = {}
Joining(t) ==
    /\ op[t] = "join" /\ pc[t] \in {"insert", "mark", "commit"}
    /\ inv[t] \in CodeRows /\ ids[t] = {}
    /\ held[t] \subseteq {code[t]} /\ (pc[t] # "commit" => held[t] = {})
Returning(t) ==
    /\ op[t] = "return" /\ pc[t] \in {"reactivate", "mark", "commit"}
    /\ inv[t] \in CodeRows /\ ids[t] = {}
    /\ held[t] \subseteq {code[t]} /\ (pc[t] # "commit" => held[t] = {})
Inviting(t) ==
    /\ op[t] = "invite" /\ pc[t] \in {"draw", "commit"}
    /\ inv[t] \in CodeRows /\ inv[t].by = caller[t] /\ inv[t].usedBy = None
    /\ inv[t].used = FALSE /\ code[t] \in Codes /\ held[t] = {} /\ ids[t] = {}
Revoking(t) == op[t] = "revoke" /\ pc[t] \in {"revoke", "commit"} /\ held[t] = {}
Removing(t) ==
    op[t] = "delete" /\ pc[t] \in {"codes", "detach", "nullify", "users", "commit"}

Shape(t) ==
    /\ pc[t] # "idle" => caller[t] \in People
    /\ Open(t) \/ Joining(t) \/ Returning(t) \/ Inviting(t) \/ Revoking(t) \/ Removing(t)

\* The rows that a transaction has changed are there, and are nobody else's.
RowLocks(t) ==
    /\ rows[t] \subseteq Members
    /\ \A s \in Handlers \ {t} : \A p \in rows[t] : p \notin rows[s]
CodeLocks(t) ==
    /\ held[t] \subseteq DOMAIN codes
    /\ \A s \in Handlers \ {t} : \A c \in held[t] : c \notin held[s]

\* A user who is to be committed is not there yet, and the inviter is.
NewMember(t) ==
    Inserted(t) =>
        /\ caller[t] \notin Members /\ inv[t].by \in Members \cup {None}
        /\ \A s \in Handlers \ {t} : Inserted(s) => caller[s] # caller[t]

\* So is a code.
Drawn(t) == op[t] = "invite" /\ pc[t] = "commit"
NewCode(t) ==
    Drawn(t) =>
        /\ code[t] \notin DOMAIN codes /\ caller[t] \in Members
        /\ \A s \in Handlers \ {t} : Drawn(s) => code[s] # code[t]

\* Nothing refers to the users whose deletion is to be committed, and no
\* transaction has written what would.
Gone(t) == op[t] = "delete" /\ pc[t] = "commit"
Apart(s, t) == Gone(s) => \A u \in ids[s] : ~Refers(t, u)
DeletionReady(t) ==
    Gone(t) =>
        /\ ids[t] \subseteq rows[t]
        /\ \A p \in Members \ ids[t] : users[p].by \notin ids[t]
        /\ \A c \in DOMAIN codes \ held[t] : codes[c].by \notin ids[t] /\ codes[c].usedBy \notin ids[t]

\* Only the admin is an admin, and invites l1 users.
AdminsKnown ==
    /\ \A p \in Members : users[p].role = "admin" => p = Admin
    /\ \A c \in DOMAIN codes : codes[c].role # "admin"
RolesOf(t) ==
    /\ seen[t] # None /\ pc[t] # "idle" => (seen[t].role = "admin" => caller[t] = Admin)
    /\ op[t] \in {"join", "return", "invite"} =>
           /\ inv[t].role = "l1" => inv[t].by = Admin
           /\ inv[t].role = "admin" => op[t] = "join" /\ caller[t] = Admin

\* Once a code is used only those who have read it before may still use it.
Readers(c) == {t \in Handlers : op[t] \in {"join", "return"} /\ code[t] = c}
UsesBounded ==
    \A c \in DOMAIN codes :
        /\ codes[c].used = FALSE => letIn[c] = 0
        /\ letIn[c] + Cardinality(Readers(c)) <= Cardinality(Handlers)

HandlerOK(t) ==
    /\ Shape(t) /\ RowLocks(t) /\ CodeLocks(t) /\ NewMember(t) /\ NewCode(t)
    /\ DeletionReady(t) /\ RolesOf(t)
    /\ \A s \in Handlers \ {t} : Apart(s, t) /\ Apart(t, s)

Inv ==
    /\ TypeOK
    /\ \A t \in Handlers : HandlerOK(t)
    /\ AdminsKnown
    /\ InviterForest
    /\ L1ByAdmin
    /\ UsesBounded

-----------------------------------------------------------------------------
(* Steps that commit nothing.                                               *)

TablesTyped ==
    /\ Members \subseteq People /\ users \in [Members -> UserRows]
    /\ DOMAIN codes \subseteq Codes /\ codes \in [DOMAIN codes -> CodeRows]
    /\ letIn \in [Codes -> Nat]

LocalsTyped ==
    /\ pc \in [Handlers -> {"idle", "profile", "handler", "insert", "reactivate", "mark",
                            "draw", "revoke", "codes", "detach", "nullify", "users", "commit"}]
    /\ op \in [Handlers -> {"none", "join", "return", "invite", "revoke", "delete"}]
    /\ caller \in [Handlers -> People \cup {None}]
    /\ seen \in [Handlers -> UserRows \cup {None}]
    /\ rows \in [Handlers -> SUBSET People]
    /\ code \in [Handlers -> Codes \cup {None}]
    /\ inv \in [Handlers -> CodeRows \cup {None}]
    /\ ids \in [Handlers -> SUBSET People]
    /\ held \in [Handlers -> SUBSET Codes]

LEMMA TypeParts ==
    /\ TypeOK <=> TablesTyped /\ LocalsTyped
    /\ TypeOK' <=> TablesTyped' /\ LocalsTyped'
  BY DEF TypeOK, TablesTyped, LocalsTyped, Members

Same(s) ==
    /\ pc'[s] = pc[s] /\ op'[s] = op[s] /\ caller'[s] = caller[s] /\ seen'[s] = seen[s]
    /\ rows'[s] = rows[s] /\ code'[s] = code[s] /\ inv'[s] = inv[s]
    /\ ids'[s] = ids[s] /\ held'[s] = held[s]

\* A handler that begins to use a code has read it unused.
Reads(t) ==
    op'[t] \in {"join", "return"} =>
        \/ op[t] \in {"join", "return"} /\ code'[t] = code[t]
        \/ code'[t] = None
        \/ code'[t] \in DOMAIN codes /\ codes[code'[t]].used = FALSE

LEMMA ReadersFinite ==
    ASSUME NEW c
    PROVE  /\ IsFiniteSet(Readers(c)) /\ Cardinality(Readers(c)) \in Nat
           /\ Cardinality(Handlers) \in Nat /\ Cardinality(Readers(c)) <= Cardinality(Handlers)
  <1>1. Readers(c) \subseteq Handlers
    BY DEF Readers
  <1> QED
    BY <1>1, HandlersAssumption, FS_Subset, FS_CardinalityType

\* What one handler does shows in the others' part of the invariant only where it
\* writes.
LEMMA OthersKeep ==
    ASSUME Inv, NEW t \in Handlers, NEW s \in Handlers \ {t}, UNCHANGED tables,
           \A r \in Handlers \ {t} : Same(r), HandlerOK(t)'
    PROVE  HandlerOK(s)'
  <1>0. HandlerOK(s)
    BY DEF Inv
  <1>1. Shape(s)'
    BY <1>0 DEF HandlerOK, Same, Shape, Open, Joining, Returning, Inviting, Revoking, Removing
  <1>2. RowLocks(s)' /\ CodeLocks(s)'
    BY <1>0 DEF HandlerOK, Same, tables, RowLocks, CodeLocks, Members
  <1>3. NewMember(s)'
    BY <1>0 DEF HandlerOK, Same, tables, NewMember, Inserted, Members
  <1>4. NewCode(s)'
    BY <1>0 DEF HandlerOK, Same, tables, NewCode, Drawn, Members
  <1>5. DeletionReady(s)'
    BY <1>0 DEF HandlerOK, Same, tables, DeletionReady, Gone, Members
  <1>6. RolesOf(s)'
    BY <1>0 DEF HandlerOK, Same, RolesOf
  <1>7. ASSUME NEW r \in Handlers \ {s}
        PROVE  Apart(r, s)' /\ Apart(s, r)'
    <2>1. CASE r = t
      BY <2>1 DEF HandlerOK
    <2>2. CASE r # t
      <3>1. Same(r) /\ Same(s) /\ Apart(r, s) /\ Apart(s, r)
        BY <1>0, <1>7, <2>2 DEF HandlerOK
      <3> QED
        BY <3>1 DEF Same, Apart, Gone, Refers, Inserted
    <2> QED
      BY <2>1, <2>2
  <1> QED
    BY <1>1, <1>2, <1>3, <1>4, <1>5, <1>6, <1>7 DEF HandlerOK

LEMMA StepInv ==
    ASSUME Inv, NEW t \in Handlers, UNCHANGED tables, LocalsTyped',
           \A s \in Handlers \ {t} : Same(s), HandlerOK(t)', Reads(t)
    PROVE  Inv'
  <1>1. TypeOK'
    BY TypeParts DEF Inv, TablesTyped, tables, Members
  <1>2. \A s \in Handlers : HandlerOK(s)'
    BY OthersKeep
  <1>3. AdminsKnown' /\ InviterForest' /\ L1ByAdmin'
    BY DEF Inv, AdminsKnown, InviterForest, L1ByAdmin, tables, Members
  <1>4. UsesBounded'
    <2> SUFFICES ASSUME NEW c \in DOMAIN codes
                 PROVE  /\ codes[c].used = FALSE => letIn[c] = 0
                        /\ letIn[c] + Cardinality(Readers(c)') <= Cardinality(Handlers)
      BY DEF UsesBounded, tables
    <2>1. letIn[c] \in Nat /\ codes[c].used \in BOOLEAN
      BY DEF Inv, TypeOK, CodeRows
    <2>2. /\ codes[c].used = FALSE => letIn[c] = 0
          /\ letIn[c] + Cardinality(Readers(c)) <= Cardinality(Handlers)
      BY DEF Inv, UsesBounded
    <2>3. CASE codes[c].used = FALSE
      <3>1. Readers(c)' \subseteq Handlers
        BY DEF Readers
      <3>2. Cardinality(Readers(c)') <= Cardinality(Handlers) /\ Cardinality(Readers(c)') \in Nat
        BY <3>1, HandlersAssumption, FS_Subset, FS_CardinalityType
      <3> QED
        BY <2>2, <2>3, <3>2, ReadersFinite
    <2>4. CASE codes[c].used = TRUE
      <3>1. Readers(c)' \subseteq Readers(c)
        BY <2>4, PeopleAssumption DEF Readers, Reads, Same, Inv, TypeOK
      <3>2. Cardinality(Readers(c)') <= Cardinality(Readers(c)) /\ Cardinality(Readers(c)') \in Nat
        BY <3>1, ReadersFinite, FS_Subset, FS_CardinalityType
      <3> QED
        BY <2>1, <2>2, <3>2, ReadersFinite
    <2> QED
      BY <2>1, <2>3, <2>4
  <1> QED
    BY <1>1, <1>2, <1>3, <1>4 DEF Inv

LEMMA FinishTyped ==
    ASSUME Inv, NEW t \in Handlers, Finish(t)
    PROVE  LocalsTyped' /\ \A s \in Handlers \ {t} : Same(s)
  <1>1. LocalsTyped'
    BY TypeParts DEF Inv, LocalsTyped, Finish
  <1>2. \A s \in Handlers \ {t} : Same(s)
    BY DEF Inv, TypeOK, Same, Finish
  <1> QED
    BY <1>1, <1>2

LEMMA FinishOK ==
    ASSUME Inv, NEW t \in Handlers, Finish(t)
    PROVE  HandlerOK(t)'
  <1>1. /\ pc'[t] = "idle" /\ op'[t] = "none" /\ code'[t] = None /\ held'[t] = {} /\ ids'[t] = {} /\ rows'[t] = {}
    BY DEF Inv, TypeOK, Finish
  <1>2. Shape(t)' /\ RowLocks(t)' /\ CodeLocks(t)' /\ NewMember(t)' /\ NewCode(t)'
    BY <1>1 DEF Shape, Open, RowLocks, CodeLocks, NewMember, Inserted, NewCode, Drawn
  <1>3. DeletionReady(t)' /\ RolesOf(t)' /\ \A s \in Handlers \ {t} : Apart(s, t)' /\ Apart(t, s)'
    BY <1>1 DEF DeletionReady, Gone, RolesOf, Apart, Refers, Inserted
  <1> QED
    BY <1>2, <1>3 DEF HandlerOK

\* A handler ends without a commit.
LEMMA RefusedInv ==
    ASSUME Inv, NEW t \in Handlers, Refused(t)
    PROVE  Inv'
  <1>1. Reads(t)
    BY DEF Refused, Finish, Reads, Inv, TypeOK
  <1> QED
    BY <1>1, FinishTyped, FinishOK, StepInv DEF Refused

\* Steps before anything is written that others could see.
LEMMA EarlyInv ==
    ASSUME Inv, NEW t \in Handlers, UNCHANGED tables, LocalsTyped',
           \A s \in Handlers \ {t} : Same(s),
           ~Inserted(t)', ~Drawn(t)', ~Gone(t)', op'[t] = "return" => held'[t] = {},
           Shape(t)', RowLocks(t)', CodeLocks(t)', RolesOf(t)', Reads(t)
    PROVE  Inv'
  <1>1. \A u : ~Refers(t, u)'
    BY DEF Refers, Inserted, Drawn
  <1>2. HandlerOK(t)'
    BY <1>1 DEF HandlerOK, NewMember, NewCode, DeletionReady, Apart
  <1> QED
    BY <1>2, StepInv

LEMMA ArriveInv ==
    ASSUME Inv, NEW t \in Handlers, NEW p \in People, Arrive(t, p)
    PROVE  Inv'
  <1>1. HandlerOK(t) /\ op[t] = "none" /\ code[t] = None /\ held[t] = {} /\ ids[t] = {}
    BY DEF Inv, HandlerOK, Shape, Open, Joining, Returning, Inviting, Revoking, Removing, Arrive
  <1>2. LocalsTyped'
    BY TypeParts DEF Inv, LocalsTyped, TablesTyped, Arrive, Goto, work
  <1>3. \A s \in Handlers \ {t} : Same(s)
    BY DEF Inv, TypeOK, Same, Arrive, Goto, work
  <1>4. /\ pc'[t] \in {"profile", "handler"} /\ op'[t] = "none" /\ caller'[t] = p
        /\ code'[t] = None /\ held'[t] = {} /\ ids'[t] = {}
    BY <1>1 DEF Inv, TypeOK, Arrive, Goto, work
  <1>5. Shape(t)'
    BY <1>4 DEF Shape, Open
  <1>6. RowLocks(t)' /\ CodeLocks(t)'
    BY <1>1 DEF HandlerOK, RowLocks, CodeLocks, Arrive, tables, work, Members
  <1>7. RolesOf(t)'
    BY <1>4 DEF RolesOf, Arrive, Inv, TypeOK, AdminsKnown
  <1>8. ~Inserted(t)' /\ ~Drawn(t)' /\ ~Gone(t)' /\ Reads(t)
    BY <1>4 DEF Inserted, Drawn, Gone, Reads
  <1> QED
    BY <1>2, <1>3, <1>4, <1>5, <1>6, <1>7, <1>8, EarlyInv DEF Arrive

LEMMA ProfileInv ==
    ASSUME Inv, NEW t \in Handlers, Profile(t)
    PROVE  Inv'
  <1>1. HandlerOK(t) /\ Open(t)
    BY DEF Inv, HandlerOK, Shape, Open, Joining, Returning, Inviting, Revoking, Removing, Profile
  <1>2. LocalsTyped'
    BY TypeParts DEF Inv, LocalsTyped, TablesTyped, Profile, Goto, work
  <1>3. \A s \in Handlers \ {t} : Same(s)
    BY DEF Inv, TypeOK, Same, Profile, Goto, work
  <1>4. Shape(t)' /\ op'[t] = "none"
    BY <1>1 DEF HandlerOK, Shape, Open, Profile, Goto, work, Inv, TypeOK
  <1>5. RowLocks(t)'
    <2>1. \A s \in Handlers \ {t} : caller[t] \notin rows[s]
      BY DEF Profile, WaitsFor
    <2> QED
      BY <1>1, <2>1 DEF HandlerOK, RowLocks, Profile, tables, Members, Inv, TypeOK
  <1>6. CodeLocks(t)' /\ RolesOf(t)'
    BY <1>1 DEF HandlerOK, Open, CodeLocks, RolesOf, Profile, Goto, tables, work, Inv, TypeOK
  <1>7. ~Inserted(t)' /\ ~Drawn(t)' /\ ~Gone(t)' /\ Reads(t)
    BY <1>4 DEF Inserted, Drawn, Gone, Reads
  <1> QED
    BY <1>2, <1>3, <1>4, <1>5, <1>6, <1>7, EarlyInv DEF Profile

\* Whom a handler takes its caller for is what the caller is.
LEMMA ExistingKnown ==
    ASSUME Inv, NEW t \in Handlers, pc[t] = "handler", Existing(t) # None
    PROVE  /\ Existing(t) \in UserRows
           /\ Existing(t).role = "admin" => caller[t] = Admin
  BY DEF Existing, Inv, TypeOK, HandlerOK, RolesOf, AdminsKnown

LEMMA StartsHandler ==
    ASSUME Inv, NEW t \in Handlers, pc[t] = "handler"
    PROVE  /\ HandlerOK(t) /\ Open(t) /\ caller[t] \in People
  BY DEF Inv, HandlerOK, Shape, Open, Joining, Returning, Inviting, Revoking, Removing

LEMMA StartAdminInv ==
    ASSUME Inv, NEW t \in Handlers, StartAdmin(t)
    PROVE  Inv'
  <1> DEFINE i == [by |-> None, role |-> "admin", used |-> FALSE, usedBy |-> None]
  <1>0. /\ op' = [op EXCEPT ![t] = "join"] /\ inv' = [inv EXCEPT ![t] = i] /\ pc' = [pc EXCEPT ![t] = "insert"]
        /\ UNCHANGED <<tables, session, code, ids, held>>
    BY DEF StartAdmin, Goto
  <1>1. HandlerOK(t) /\ Open(t) /\ caller[t] = Admin
    BY StartsHandler DEF StartAdmin
  <1>2. i \in CodeRows /\ i.role = "admin"
    BY DEF CodeRows, Roles
  <1> HIDE DEF i
  <1>3. LocalsTyped' /\ \A s \in Handlers \ {t} : Same(s)
    BY <1>0, <1>2, TypeParts DEF Inv, LocalsTyped, Same, session
  <1>4. op'[t] = "join" /\ pc'[t] = "insert" /\ inv'[t] = i
    BY <1>0 DEF Inv, TypeOK
  <1>5. Shape(t)'
    BY <1>0, <1>1, <1>2, <1>4, PeopleAssumption DEF Shape, Open, Joining, session
  <1>6. RowLocks(t)' /\ CodeLocks(t)'
    BY <1>0, <1>1 DEF HandlerOK, RowLocks, CodeLocks, tables, session, Members
  <1>7. RolesOf(t)'
    BY <1>0, <1>1, <1>2, <1>4 DEF RolesOf, session
  <1>8. ~Inserted(t)' /\ ~Drawn(t)' /\ ~Gone(t)'
    BY <1>4 DEF Inserted, Drawn, Gone
  <1>9. Reads(t)
    BY <1>0, <1>1 DEF Reads, Open
  <1> QED
    BY <1>0, <1>3, <1>4, <1>5, <1>6, <1>7, <1>8, <1>9, EarlyInv

LEMMA StartWithCodeInv ==
    ASSUME Inv, NEW t \in Handlers, NEW c \in Codes, StartWithCode(t, c)
    PROVE  Inv'
  <1>0. /\ op' = [op EXCEPT ![t] = IF Existing(t) = None THEN "join" ELSE "return"]
        /\ code' = [code EXCEPT ![t] = c] /\ inv' = [inv EXCEPT ![t] = codes[c]]
        /\ pc' = [pc EXCEPT ![t] = IF Existing(t) = None THEN "insert" ELSE "reactivate"]
        /\ UNCHANGED <<tables, session, ids, held>>
        /\ c \in DOMAIN codes /\ codes[c].used = FALSE
    BY DEF StartWithCode, Goto, Inv, TypeOK, CodeRows
  <1>1. HandlerOK(t) /\ Open(t) /\ caller[t] \in People
    BY StartsHandler DEF StartWithCode
  <1>2. codes[c] \in CodeRows /\ codes[c].role # "admin" /\ (codes[c].role = "l1" => codes[c].by = Admin)
    BY <1>0 DEF Inv, TypeOK, AdminsKnown, L1ByAdmin
  <1>3. LocalsTyped'
    BY <1>0, <1>2, TypeParts DEF Inv, LocalsTyped, session
  <1>4. \A s \in Handlers \ {t} : Same(s)
    BY <1>0 DEF Inv, TypeOK, Same, session
  <1>5. /\ (op'[t] = "join" /\ pc'[t] = "insert") \/ (op'[t] = "return" /\ pc'[t] = "reactivate")
        /\ inv'[t] = codes[c] /\ code'[t] = c
    <2>1. CASE Existing(t) = None
      BY <1>0, <2>1 DEF Inv, TypeOK
    <2>2. CASE Existing(t) # None
      BY <1>0, <2>2 DEF Inv, TypeOK
    <2> QED
      BY <2>1, <2>2
  <1>6. Shape(t)'
    BY <1>0, <1>1, <1>2, <1>5 DEF Shape, Open, Joining, Returning, session
  <1>7. RowLocks(t)' /\ CodeLocks(t)'
    BY <1>0, <1>1 DEF HandlerOK, RowLocks, CodeLocks, tables, session, Members
  <1>8. RolesOf(t)'
    BY <1>0, <1>1, <1>2, <1>5 DEF RolesOf, HandlerOK, session, StartWithCode
  <1>9. ~Inserted(t)' /\ ~Drawn(t)' /\ ~Gone(t)' /\ Reads(t) /\ held'[t] = {}
    BY <1>0, <1>1, <1>5 DEF Inserted, Drawn, Gone, Reads, Open
  <1> QED
    BY <1>0, <1>3, <1>4, <1>6, <1>7, <1>8, <1>9, EarlyInv

LEMMA ReactivateInv ==
    ASSUME Inv, NEW t \in Handlers, Reactivate(t)
    PROVE  Inv'
  <1>1. HandlerOK(t) /\ Returning(t) /\ op[t] = "return" /\ pc[t] = "reactivate"
    BY DEF Inv, HandlerOK, Shape, Open, Joining, Returning, Inviting, Revoking, Removing, Reactivate
  <1>2. LocalsTyped'
    BY TypeParts DEF Inv, LocalsTyped, TablesTyped, Reactivate, Goto, work
  <1>3. \A s \in Handlers \ {t} : Same(s)
    BY DEF Inv, TypeOK, Same, Reactivate, Goto, work
  <1>4. pc'[t] = "mark" /\ op'[t] = "return"
    BY <1>1 DEF Inv, TypeOK, Reactivate, Goto, work
  <1>5. Shape(t)'
    BY <1>1, <1>4 DEF HandlerOK, Shape, Returning, Reactivate, work
  <1>6. RowLocks(t)'
    <2>1. \A s \in Handlers \ {t} : caller[t] \notin rows[s]
      BY DEF Reactivate, WaitsFor
    <2> QED
      BY <1>1, <2>1 DEF HandlerOK, RowLocks, Reactivate, tables, Members, Inv, TypeOK
  <1>7. CodeLocks(t)' /\ RolesOf(t)'
    BY <1>1, <1>4 DEF HandlerOK, CodeLocks, RolesOf, Reactivate, tables, work
  <1>8. ~Inserted(t)' /\ ~Drawn(t)' /\ ~Gone(t)' /\ Reads(t)
    BY <1>1, <1>4 DEF Inserted, Drawn, Gone, Reads, Reactivate, work
  <1>9. held'[t] = {}
    BY <1>1 DEF Reactivate, Returning
  <1> QED
    BY <1>2, <1>3, <1>4, <1>5, <1>6, <1>7, <1>8, <1>9, EarlyInv DEF Reactivate

LEMMA GenerateInv ==
    ASSUME Inv, NEW t \in Handlers, NEW c \in Codes, NEW r \in {"l1", "l2"}, GenerateAndSend(t, c, r),
           r = "l1" => HasRole(t, {"admin"})
    PROVE  Inv'
  <1> DEFINE i == [by |-> caller[t], role |-> r, used |-> FALSE, usedBy |-> None]
  <1>0. /\ op' = [op EXCEPT ![t] = "invite"] /\ code' = [code EXCEPT ![t] = c]
        /\ inv' = [inv EXCEPT ![t] = i] /\ pc' = [pc EXCEPT ![t] = "draw"]
        /\ UNCHANGED <<tables, session, ids, held>>
    BY DEF GenerateAndSend, Goto
  <1>1. HandlerOK(t) /\ Open(t) /\ caller[t] \in People
    BY StartsHandler DEF GenerateAndSend, Allowed
  <1>2. /\ i \in CodeRows /\ i.role = r /\ i.by = caller[t] /\ i.used = FALSE /\ i.usedBy = None
    BY <1>1 DEF CodeRows, Roles
  <1>3. r = "l1" => caller[t] = Admin
    BY ExistingKnown DEF HasRole, GenerateAndSend, Allowed
  <1> HIDE DEF i
  <1>4. LocalsTyped'
    BY <1>0, <1>2, TypeParts DEF Inv, LocalsTyped, session
  <1>5. \A s \in Handlers \ {t} : Same(s)
    BY <1>0 DEF Inv, TypeOK, Same, session
  <1>6. op'[t] = "invite" /\ pc'[t] = "draw" /\ inv'[t] = i /\ code'[t] = c
    BY <1>0 DEF Inv, TypeOK
  <1>7. Shape(t)'
    BY <1>0, <1>1, <1>2, <1>6 DEF Shape, Open, Inviting, session
  <1>8. RowLocks(t)' /\ CodeLocks(t)'
    BY <1>0, <1>1 DEF HandlerOK, RowLocks, CodeLocks, tables, session, Members
  <1>9. RolesOf(t)'
    BY <1>0, <1>1, <1>2, <1>3, <1>6 DEF RolesOf, HandlerOK, session, GenerateAndSend, Allowed
  <1>10. ~Inserted(t)' /\ ~Drawn(t)' /\ ~Gone(t)' /\ Reads(t)
    BY <1>6 DEF Inserted, Drawn, Gone, Reads
  <1> QED
    BY <1>0, <1>4, <1>5, <1>6, <1>7, <1>8, <1>9, <1>10, EarlyInv

LEMMA FriendsRevokeConfirmInv ==
    ASSUME Inv, NEW t \in Handlers, NEW u \in People, FriendsRevokeConfirm(t, u)
    PROVE  Inv'
  <1>0. /\ op' = [op EXCEPT ![t] = "revoke"] /\ ids' = [ids EXCEPT ![t] = {u}]
        /\ pc' = [pc EXCEPT ![t] = "revoke"] /\ UNCHANGED <<tables, session, code, inv, held>>
    BY DEF FriendsRevokeConfirm, Goto
  <1>1. HandlerOK(t) /\ Open(t) /\ caller[t] \in People
    BY StartsHandler DEF FriendsRevokeConfirm, Allowed
  <1>2. LocalsTyped' /\ \A s \in Handlers \ {t} : Same(s)
    BY <1>0, TypeParts DEF Inv, LocalsTyped, Same, session
  <1>3. op'[t] = "revoke" /\ pc'[t] = "revoke"
    BY <1>0 DEF Inv, TypeOK
  <1>4. Shape(t)'
    BY <1>0, <1>1, <1>3 DEF Shape, Open, Revoking, session
  <1>5. RowLocks(t)' /\ CodeLocks(t)'
    BY <1>0, <1>1 DEF HandlerOK, RowLocks, CodeLocks, tables, session, Members
  <1>6. RolesOf(t)'
    BY <1>0, <1>1, <1>3 DEF RolesOf, HandlerOK, session, FriendsRevokeConfirm, Allowed
  <1>7. ~Inserted(t)' /\ ~Drawn(t)' /\ ~Gone(t)' /\ Reads(t)
    BY <1>3 DEF Inserted, Drawn, Gone, Reads
  <1> QED
    BY <1>0, <1>2, <1>3, <1>4, <1>5, <1>6, <1>7, EarlyInv

LEMMA DeactivateUserInv ==
    ASSUME Inv, NEW t \in Handlers, DeactivateUser(t)
    PROVE  Inv'
  <1>1. HandlerOK(t) /\ Revoking(t)
    BY DEF Inv, HandlerOK, Shape, Open, Joining, Returning, Inviting, Revoking, Removing, DeactivateUser
  <1> DEFINE us == {u \in ids[t] \cap Members : users[u].active}
  <1>2. /\ ids' = [ids EXCEPT ![t] = us] /\ rows' = [rows EXCEPT ![t] = rows[t] \cup us]
        /\ pc' = [pc EXCEPT ![t] = "commit"] /\ UNCHANGED <<tables, caller, seen, op, code, inv, held>>
    BY DEF DeactivateUser, Goto, Inv, TypeOK
  <1>3. us \subseteq ids[t] \cap Members /\ us \subseteq People
    BY DEF Inv, TypeOK
  <1> HIDE DEF us
  <1>4. LocalsTyped' /\ \A s \in Handlers \ {t} : Same(s)
    BY <1>2, <1>3, TypeParts DEF Inv, LocalsTyped, Same
  <1>5. op'[t] = "revoke" /\ pc'[t] = "commit"
    BY <1>1, <1>2 DEF Revoking, Inv, TypeOK
  <1>6. Shape(t)'
    BY <1>1, <1>2, <1>5 DEF HandlerOK, Shape, Revoking
  <1>7. RowLocks(t)'
    <2>1. \A s \in Handlers \ {t} : ids[t] \cap rows[s] = {}
      BY DEF DeactivateUser, WaitsFor
    <2> QED
      BY <1>1, <1>2, <1>3, <2>1 DEF HandlerOK, RowLocks, tables, Members, Inv, TypeOK
  <1>8. CodeLocks(t)' /\ RolesOf(t)'
    BY <1>1, <1>2, <1>5 DEF HandlerOK, Revoking, CodeLocks, RolesOf, tables
  <1>9. ~Inserted(t)' /\ ~Drawn(t)' /\ ~Gone(t)' /\ Reads(t)
    BY <1>5 DEF Inserted, Drawn, Gone, Reads
  <1> QED
    BY <1>2, <1>4, <1>5, <1>6, <1>7, <1>8, <1>9, EarlyInv

\* What a deletion in progress is known to be.
LEMMA RemovesHandler ==
    ASSUME Inv, NEW t \in Handlers, pc[t] \in {"codes", "detach", "nullify", "users"}
    PROVE  HandlerOK(t) /\ op[t] = "delete" /\ caller[t] \in People
  BY DEF Inv, HandlerOK, Shape, Open, Joining, Returning, Inviting, Revoking, Removing

LEMMA DeleteConfirmInv ==
    ASSUME Inv, NEW t \in Handlers, NEW u \in People, DeleteConfirm(t, u)
    PROVE  Inv'
  <1> DEFINE tree == Tree(u)
  <1>0. /\ op' = [op EXCEPT ![t] = "delete"] /\ ids' = [ids EXCEPT ![t] = tree]
        /\ pc' = [pc EXCEPT ![t] = "codes"] /\ UNCHANGED <<tables, session, code, inv, held>>
    BY DEF DeleteConfirm, Goto
  <1>1. HandlerOK(t) /\ Open(t) /\ caller[t] \in People
    BY StartsHandler DEF DeleteConfirm, Allowed
  <1>2. tree \subseteq People
    BY DEF Tree, Inv, TypeOK
  <1> HIDE DEF tree
  <1>3. LocalsTyped' /\ \A s \in Handlers \ {t} : Same(s)
    BY <1>0, <1>2, TypeParts DEF Inv, LocalsTyped, Same, session
  <1>4. op'[t] = "delete" /\ pc'[t] = "codes"
    BY <1>0 DEF Inv, TypeOK
  <1>5. Shape(t)'
    BY <1>0, <1>1, <1>4 DEF Shape, Removing, session
  <1>6. RowLocks(t)' /\ CodeLocks(t)'
    BY <1>0, <1>1 DEF HandlerOK, RowLocks, CodeLocks, tables, session, Members
  <1>7. RolesOf(t)'
    BY <1>0, <1>1, <1>4 DEF RolesOf, HandlerOK, session, DeleteConfirm, Allowed
  <1>8. ~Inserted(t)' /\ ~Drawn(t)' /\ ~Gone(t)' /\ Reads(t)
    BY <1>4 DEF Inserted, Drawn, Gone, Reads
  <1> QED
    BY <1>0, <1>3, <1>4, <1>5, <1>6, <1>7, <1>8, EarlyInv

\* DELETE and UPDATE of the codes wait for everybody who has changed one of them.
LEMMA CodesTakenInv ==
    ASSUME Inv, NEW t \in Handlers, DeleteCodes(t) \/ DetachCodes(t)
    PROVE  Inv'
  <1> DEFINE cs == IF pc[t] = "codes" THEN MatchedCodes(t) ELSE held[t] \cup MatchedCodes(t)
             next == IF pc[t] = "codes" THEN "detach" ELSE "nullify"
  <1>0. /\ held' = [held EXCEPT ![t] = cs] /\ pc' = [pc EXCEPT ![t] = next]
        /\ UNCHANGED <<tables, session, work>>
    BY DEF DeleteCodes, DetachCodes, Goto, Inv, TypeOK
  <1>1. HandlerOK(t) /\ op[t] = "delete" /\ caller[t] \in People
    BY RemovesHandler DEF DeleteCodes, DetachCodes
  <1>2. MatchedCodes(t) \subseteq DOMAIN codes /\ cs \subseteq held[t] \cup MatchedCodes(t)
    BY DEF MatchedCodes
  <1>3. \A s \in Handlers \ {t} : held[s] \cap MatchedCodes(t) = {}
    BY DEF DeleteCodes, DetachCodes, WaitsFor
  <1>4. next \in {"detach", "nullify"}
    OBVIOUS
  <1> HIDE DEF cs, next
  <1>5. cs \subseteq DOMAIN codes /\ cs \subseteq Codes
    BY <1>1, <1>2 DEF HandlerOK, CodeLocks, Inv, TypeOK
  <1>6. LocalsTyped'
    BY <1>0, <1>4, <1>5, TypeParts DEF Inv, LocalsTyped, session, work
  <1>7. \A s \in Handlers \ {t} : Same(s)
    BY <1>0 DEF Inv, TypeOK, Same, session, work
  <1>8. op'[t] = "delete" /\ pc'[t] \in {"detach", "nullify"} /\ held'[t] = cs
    BY <1>0, <1>1, <1>4 DEF Inv, TypeOK, work
  <1>9. Shape(t)'
    BY <1>0, <1>1, <1>8 DEF Shape, Removing, session
  <1>10. RowLocks(t)'
    BY <1>0, <1>1 DEF HandlerOK, RowLocks, tables, session, Members
  <1>11. CodeLocks(t)'
    <2>1. \A s \in Handlers \ {t} : held'[s] = held[s] /\ \A c \in cs : c \notin held[s]
      BY <1>1, <1>2, <1>3, <1>7 DEF HandlerOK, CodeLocks, Same
    <2> QED
      BY <1>0, <1>5, <1>8, <2>1 DEF CodeLocks, tables
  <1>12. RolesOf(t)'
    <2>1. pc[t] # "idle"
      BY DEF DeleteCodes, DetachCodes
    <2> QED
      BY <1>0, <1>1, <1>8, <2>1 DEF RolesOf, HandlerOK, session
  <1>13. ~Inserted(t)' /\ ~Drawn(t)' /\ ~Gone(t)' /\ Reads(t)
    BY <1>8 DEF Inserted, Drawn, Gone, Reads
  <1> QED
    BY <1>0, <1>6, <1>7, <1>8, <1>9, <1>10, <1>11, <1>12, <1>13, EarlyInv

LEMMA NullifyInvitersInv ==
    ASSUME Inv, NEW t \in Handlers, NullifyInviters(t)
    PROVE  Inv'
  <1> DEFINE us == rows[t] \cup (ids[t] \cap Members)
  <1>0. /\ rows' = [rows EXCEPT ![t] = us] /\ pc' = [pc EXCEPT ![t] = "users"]
        /\ UNCHANGED <<tables, caller, seen, work, held>>
    BY DEF NullifyInviters, Goto, Inv, TypeOK
  <1>1. HandlerOK(t) /\ op[t] = "delete" /\ caller[t] \in People
    BY RemovesHandler DEF NullifyInviters
  <1>2. us \subseteq Members /\ us \subseteq People /\ us \subseteq rows[t] \cup ids[t]
    BY <1>1 DEF HandlerOK, RowLocks, Inv, TypeOK
  <1> HIDE DEF us
  <1>3. LocalsTyped' /\ \A s \in Handlers \ {t} : Same(s)
    BY <1>0, <1>2, TypeParts DEF Inv, LocalsTyped, Same, work
  <1>4. op'[t] = "delete" /\ pc'[t] = "users" /\ rows'[t] = us
    BY <1>0, <1>1 DEF Inv, TypeOK, work
  <1>5. Shape(t)'
    BY <1>0, <1>1, <1>4 DEF Shape, Removing
  <1>6. RowLocks(t)'
    <2>1. \A s \in Handlers \ {t} : rows'[s] = rows[s] /\ ids[t] \cap rows[s] = {}
      BY <1>3 DEF NullifyInviters, WaitsFor, Same
    <2> QED
      BY <1>0, <1>1, <1>2, <1>4, <2>1 DEF HandlerOK, RowLocks, tables, Members
  <1>7. CodeLocks(t)' /\ RolesOf(t)'
    BY <1>0, <1>1, <1>4 DEF HandlerOK, CodeLocks, RolesOf, tables, NullifyInviters
  <1>8. ~Inserted(t)' /\ ~Drawn(t)' /\ ~Gone(t)' /\ Reads(t)
    BY <1>4 DEF Inserted, Drawn, Gone, Reads
  <1> QED
    BY <1>0, <1>3, <1>4, <1>5, <1>6, <1>7, <1>8, EarlyInv

-----------------------------------------------------------------------------
(* Steps after which a commit can follow: what they have waited for is what  *)
(* makes the commit keep the foreign keys.                                   *)

LEMMA CreateUserInv ==
    ASSUME Inv, NEW t \in Handlers, CreateUser(t)
    PROVE  Inv'
  <1>1. CASE Refused(t)
    BY <1>1, RefusedInv
  <1>2. CASE ~Refused(t)
    <2> DEFINE next == IF code[t] = None THEN "commit" ELSE "mark"
    <2>0. /\ pc' = [pc EXCEPT ![t] = next] /\ UNCHANGED <<tables, session, work, held>>
          /\ caller[t] \notin Members /\ inv[t].by \in Members \cup {None}
      BY <1>2 DEF CreateUser, Goto
    <2>1. HandlerOK(t) /\ op[t] = "join" /\ Joining(t) /\ caller[t] \in People
      BY DEF Inv, HandlerOK, Shape, Open, Joining, Returning, Inviting, Revoking, Removing, CreateUser
    <2>2. next \in {"mark", "commit"}
      OBVIOUS
    <2> HIDE DEF next
    <2>3. LocalsTyped' /\ \A s \in Handlers \ {t} : Same(s)
      BY <2>0, <2>2, TypeParts DEF Inv, LocalsTyped, Same, session, work
    <2>4. op'[t] = "join" /\ pc'[t] = next
      BY <2>0, <2>1 DEF Inv, TypeOK, work
    <2>5. Shape(t)'
      <3>1. held[t] = {}
        BY <2>1 DEF Joining, CreateUser
      <3> QED
        BY <2>0, <2>1, <2>2, <2>4, <3>1 DEF Shape, Joining, session, work
    <2>6. RowLocks(t)' /\ CodeLocks(t)'
      BY <2>0, <2>1 DEF HandlerOK, RowLocks, CodeLocks, tables, session, Members
    <2>7. RolesOf(t)'
      BY <2>0, <2>1, <2>2, <2>4 DEF RolesOf, HandlerOK, session, work, CreateUser
    <2>8. NewMember(t)'
      <3>1. \A s \in Handlers \ {t} : Inserted(s) => caller[s] # caller[t]
        BY DEF CreateUser, WaitsFor
      <3> QED
        BY <2>0, <2>3, <3>1 DEF NewMember, Inserted, Same, tables, session, work, Members
    <2>9. NewCode(t)' /\ DeletionReady(t)'
      BY <2>4 DEF NewCode, Drawn, DeletionReady, Gone
    <2>10. ASSUME NEW s \in Handlers \ {t}
           PROVE  Apart(s, t)' /\ Apart(t, s)'
      <3>1. Same(s) /\ ~Deleted(s, inv[t].by)
        BY <2>3 DEF CreateUser, WaitsFor
      <3>2. \A u \in ids[s] : Gone(s) => inv[t].by # u
        BY <3>1 DEF Deleted, Gone
      <3> QED
        BY <2>0, <2>4, <3>1, <3>2 DEF Apart, Gone, Refers, Same, work
    <2>11. Reads(t)
      BY <2>0, <2>1 DEF Reads, work
    <2> QED
      BY <2>0, <2>3, <2>5, <2>6, <2>7, <2>8, <2>9, <2>10, <2>11, StepInv DEF HandlerOK
  <1> QED
    BY <1>1, <1>2

LEMMA MarkUsedInv ==
    ASSUME Inv, NEW t \in Handlers, MarkUsed(t)
    PROVE  Inv'
  <1>1. CASE Refused(t)
    BY <1>1, RefusedInv
  <1>2. CASE ~Refused(t)
    <2> DEFINE cs == MatchedCodes(t)
    <2>0. /\ pc' = [pc EXCEPT ![t] = "commit"] /\ held' = [held EXCEPT ![t] = cs]
          /\ UNCHANGED <<tables, session, work>>
      BY <1>2 DEF MarkUsed, Goto
    <2>1. /\ HandlerOK(t) /\ op[t] \in {"join", "return"} /\ caller[t] \in People
          /\ Joining(t) \/ Returning(t)
      BY DEF Inv, HandlerOK, Shape, Open, Joining, Returning, Inviting, Revoking, Removing, MarkUsed
    <2>2. cs \subseteq DOMAIN codes /\ cs \subseteq {code[t]} /\ cs \subseteq Codes
      BY DEF MatchedCodes, MarkUsed, Inv, TypeOK
    <2>3. \A s \in Handlers \ {t} : held[s] \cap cs = {}
      BY DEF MarkUsed, WaitsFor
    <2>4. \A s \in Handlers \ {t} : op[t] = "return" /\ cs # {} => ~Deleted(s, caller[t])
      BY DEF MarkUsed, WaitsFor
    <2> HIDE DEF cs
    <2>5. LocalsTyped' /\ \A s \in Handlers \ {t} : Same(s)
      BY <2>0, <2>2, TypeParts DEF Inv, LocalsTyped, Same, session, work
    <2>6. op'[t] = op[t] /\ pc'[t] = "commit" /\ held'[t] = cs
      BY <2>0 DEF Inv, TypeOK, work
    <2>7. Shape(t)'
      <3>1. CASE Joining(t)
        BY <2>0, <2>1, <2>2, <2>6, <3>1 DEF Shape, Joining, session, work
      <3>2. CASE Returning(t)
        BY <2>0, <2>1, <2>2, <2>6, <3>2 DEF Shape, Returning, session, work
      <3> QED
        BY <2>1, <3>1, <3>2
    <2>8. RowLocks(t)'
      BY <2>0, <2>1 DEF HandlerOK, RowLocks, tables, session, Members
    <2>9. CodeLocks(t)'
      BY <2>0, <2>2, <2>3, <2>5, <2>6 DEF CodeLocks, Same, tables
    <2>10. RolesOf(t)'
      BY <2>0, <2>1, <2>6 DEF RolesOf, HandlerOK, session, work, MarkUsed
    <2>11. NewMember(t)'
      <3>1. op[t] = "join" => Inserted(t)
        BY DEF Inserted, MarkUsed
      <3> QED
        BY <2>0, <2>1, <2>5, <3>1 DEF HandlerOK, NewMember, Inserted, Same, tables, session, work, Members
    <2>12. NewCode(t)' /\ DeletionReady(t)'
      BY <2>1, <2>6 DEF NewCode, Drawn, DeletionReady, Gone
    <2>13. ASSUME NEW s \in Handlers \ {t}
           PROVE  Apart(s, t)' /\ Apart(t, s)'
      <3>1. Same(s) /\ Apart(s, t)
        BY <2>1, <2>5 DEF HandlerOK
      <3>2. ASSUME Gone(s), NEW u \in ids[s], Refers(t, u)'
            PROVE  FALSE
        <4>1. CASE op[t] = "join"
          <5>1. Refers(t, u)
            BY <2>0, <2>6, <3>2, <4>1 DEF Refers, Inserted, MarkUsed, work
          <5> QED
            BY <3>1, <3>2, <5>1 DEF Apart
        <4>2. CASE op[t] = "return"
          <5>1. cs # {} /\ caller[t] = u
            BY <2>0, <2>6, <3>2, <4>2 DEF Refers, Inserted, session
          <5> QED
            BY <2>4, <3>2, <4>2, <5>1 DEF Deleted, Gone
        <4> QED
          BY <2>1, <4>1, <4>2
      <3>3. ~Gone(t)'
        BY <2>1, <2>6 DEF Gone
      <3> QED
        BY <3>1, <3>2, <3>3 DEF Apart, Gone, Same
    <2>14. Reads(t)
      BY <2>0, <2>1 DEF Reads, work
    <2> QED
      BY <2>0, <2>5, <2>7, <2>8, <2>9, <2>10, <2>11, <2>12, <2>13, <2>14, StepInv DEF HandlerOK
  <1> QED
    BY <1>1, <1>2

LEMMA CreateInvitationInv ==
    ASSUME Inv, NEW t \in Handlers, CreateInvitation(t)
    PROVE  Inv'
  <1>1. CASE Refused(t)
    BY <1>1, RefusedInv
  <1>2. CASE ~Refused(t)
    <2>0. /\ pc' = [pc EXCEPT ![t] = "commit"] /\ UNCHANGED <<tables, session, work, held>>
          /\ code[t] \notin DOMAIN codes /\ caller[t] \in Members
      BY <1>2 DEF CreateInvitation, Goto
    <2>1. HandlerOK(t) /\ op[t] = "invite" /\ Inviting(t) /\ caller[t] \in People
      BY DEF Inv, HandlerOK, Shape, Open, Joining, Returning, Inviting, Revoking, Removing, CreateInvitation
    <2>2. LocalsTyped' /\ \A s \in Handlers \ {t} : Same(s)
      BY <2>0, TypeParts DEF Inv, LocalsTyped, Same, session, work
    <2>3. op'[t] = "invite" /\ pc'[t] = "commit"
      BY <2>0, <2>1 DEF Inv, TypeOK, work
    <2>4. Shape(t)'
      BY <2>0, <2>1, <2>3 DEF Shape, Inviting, session, work
    <2>5. RowLocks(t)' /\ CodeLocks(t)'
      BY <2>0, <2>1 DEF HandlerOK, RowLocks, CodeLocks, tables, session, Members
    <2>6. RolesOf(t)'
      BY <2>0, <2>1, <2>3 DEF RolesOf, HandlerOK, session, work, CreateInvitation
    <2>7. NewMember(t)' /\ DeletionReady(t)'
      BY <2>3 DEF NewMember, Inserted, DeletionReady, Gone
    <2>8. NewCode(t)'
      <3>1. \A s \in Handlers \ {t} : Drawn(s) => code[s] # code[t]
        BY DEF CreateInvitation, WaitsFor, Drawn
      <3> QED
        BY <2>0, <2>2, <3>1 DEF NewCode, Drawn, Same, tables, session, work, Members
    <2>9. ASSUME NEW s \in Handlers \ {t}
          PROVE  Apart(s, t)' /\ Apart(t, s)'
      <3>1. Same(s) /\ ~Deleted(s, caller[t])
        BY <2>2 DEF CreateInvitation, WaitsFor
      <3>2. \A u \in ids[s] : Gone(s) => caller[t] # u
        BY <3>1 DEF Deleted, Gone
      <3> QED
        BY <2>0, <2>3, <3>1, <3>2 DEF Apart, Gone, Refers, Inserted, Same, session
    <2>10. Reads(t)
      BY <2>3 DEF Reads
    <2> QED
      BY <2>0, <2>2, <2>4, <2>5, <2>6, <2>7, <2>8, <2>9, <2>10, StepInv DEF HandlerOK
  <1> QED
    BY <1>1, <1>2

LEMMA DeleteUsersInv ==
    ASSUME Inv, NEW t \in Handlers, DeleteUsers(t)
    PROVE  Inv'
  <1>1. CASE Refused(t)
    BY <1>1, RefusedInv
  <1>2. CASE ~Refused(t)
    <2> DEFINE gone == ids[t] \cap Members
    <2>0. /\ ids' = [ids EXCEPT ![t] = gone] /\ rows' = [rows EXCEPT ![t] = rows[t] \cup gone]
          /\ pc' = [pc EXCEPT ![t] = "commit"]
          /\ UNCHANGED <<tables, caller, seen, op, code, inv, held>> /\ ~StillReferred(t)
      BY <1>2 DEF DeleteUsers, Goto, Inv, TypeOK
    <2>1. HandlerOK(t) /\ op[t] = "delete" /\ caller[t] \in People
      BY RemovesHandler DEF DeleteUsers
    <2>2. gone \subseteq Members /\ gone \subseteq People /\ gone \subseteq ids[t]
      BY DEF Inv, TypeOK
    <2>3. /\ \A p \in Members \ gone : users[p].by \notin gone
          /\ \A c \in DOMAIN codes \ held[t] : codes[c].by \notin gone /\ codes[c].usedBy \notin gone
      BY <2>0 DEF StillReferred
    <2>4. \A s \in Handlers \ {t} :
              /\ \A u \in gone : u \notin rows[s] /\ ~Refers(s, u)
      BY DEF DeleteUsers, WaitsFor
    <2> HIDE DEF gone
    <2>5. LocalsTyped' /\ \A s \in Handlers \ {t} : Same(s)
      BY <2>0, <2>2, TypeParts DEF Inv, LocalsTyped, Same
    <2>6. op'[t] = "delete" /\ pc'[t] = "commit" /\ ids'[t] = gone /\ rows'[t] = rows[t] \cup gone
      BY <2>0, <2>1 DEF Inv, TypeOK
    <2>7. Shape(t)'
      BY <2>0, <2>1, <2>6 DEF Shape, Removing
    <2>8. RowLocks(t)'
      BY <2>0, <2>1, <2>2, <2>4, <2>5, <2>6 DEF HandlerOK, RowLocks, Same, tables, Members
    <2>9. CodeLocks(t)' /\ RolesOf(t)'
      BY <2>0, <2>1, <2>6 DEF HandlerOK, CodeLocks, RolesOf, tables, DeleteUsers
    <2>10. NewMember(t)' /\ NewCode(t)'
      BY <2>6 DEF NewMember, Inserted, NewCode, Drawn
    <2>11. DeletionReady(t)'
      BY <2>0, <2>3, <2>6 DEF DeletionReady, tables, Members
    <2>12. ASSUME NEW s \in Handlers \ {t}
           PROVE  Apart(s, t)' /\ Apart(t, s)'
      <3>1. Same(s) /\ \A u \in gone : ~Refers(s, u)
        BY <2>4, <2>5
      <3>2. \A u \in gone : ~Refers(s, u)'
        BY <3>1 DEF Refers, Inserted, Same
      <3>3. \A u : ~Refers(t, u)'
        BY <2>6 DEF Refers, Inserted
      <3> QED
        BY <2>6, <3>2, <3>3 DEF Apart
    <2>13. Reads(t)
      BY <2>6 DEF Reads
    <2> QED
      BY <2>0, <2>5, <2>7, <2>8, <2>9, <2>10, <2>11, <2>12, <2>13, StepInv DEF HandlerOK
  <1> QED
    BY <1>1, <1>2

-----------------------------------------------------------------------------
(* Commits.                                                                  *)

\* What the new tables owe to the transaction of s.
OwedTo(s) ==
    /\ rows[s] \subseteq Members' /\ held[s] \subseteq DOMAIN codes'
    /\ Inserted(s) => caller[s] \notin Members' /\ inv[s].by \in Members' \cup {None}
    /\ Drawn(s) => code[s] \notin DOMAIN codes' /\ caller[s] \in Members'
    /\ Gone(s) =>
          /\ \A p \in Members' \ ids[s] : users'[p].by \notin ids[s]
          /\ \A c \in DOMAIN codes' \ held[s] :
                codes'[c].by \notin ids[s] /\ codes'[c].usedBy \notin ids[s]

LEMMA CommitKeeps ==
    ASSUME Inv, NEW t \in Handlers, Finish(t), TablesTyped',
           \A s \in Handlers \ {t} : OwedTo(s),
           AdminsKnown', InviterForest', L1ByAdmin', UsesBounded'
    PROVE  Inv'
  <1>1. LocalsTyped' /\ \A s \in Handlers \ {t} : Same(s)
    BY FinishTyped
  <1>2. HandlerOK(t)'
    BY FinishOK
  <1>3. ASSUME NEW s \in Handlers \ {t}
        PROVE  HandlerOK(s)'
    <2>0. HandlerOK(s) /\ OwedTo(s)
      BY DEF Inv
    <2>1. Same(s)
      BY <1>1
    <2>2. Shape(s)' /\ RolesOf(s)'
      BY <2>0, <2>1 DEF HandlerOK, Same, Shape, Open, Joining, Returning, Inviting, Revoking, Removing, RolesOf
    <2>3. RowLocks(s)'
      <3>1. rows'[t] = {}
        BY DEF Finish, Inv, TypeOK
      <3> QED
        BY <1>1, <2>0, <3>1 DEF HandlerOK, OwedTo, Same, RowLocks
    <2>4. CodeLocks(s)'
      <3>1. held'[t] = {}
        BY DEF Finish, Inv, TypeOK
      <3> QED
        BY <1>1, <2>0, <3>1 DEF HandlerOK, OwedTo, Same, CodeLocks
    <2>5. NewMember(s)'
      <3>1. ~Inserted(t)'
        BY DEF Finish, Inv, TypeOK, Inserted
      <3> QED
        BY <1>1, <2>0, <3>1 DEF HandlerOK, OwedTo, Same, NewMember, Inserted
    <2>6. NewCode(s)'
      <3>1. ~Drawn(t)'
        BY DEF Finish, Inv, TypeOK, Drawn
      <3> QED
        BY <1>1, <2>0, <3>1 DEF HandlerOK, OwedTo, Same, NewCode, Drawn
    <2>7. DeletionReady(s)'
      BY <2>0, <2>1 DEF HandlerOK, OwedTo, Same, DeletionReady, Gone
    <2>8. ASSUME NEW r \in Handlers \ {s}
          PROVE  Apart(r, s)' /\ Apart(s, r)'
      <3>1. CASE r = t
        BY <1>2, <3>1 DEF HandlerOK
      <3>2. CASE r # t
        <4>1. Same(r) /\ Apart(r, s) /\ Apart(s, r)
          BY <1>1, <2>0, <2>8, <3>2 DEF HandlerOK
        <4> QED
          BY <2>1, <4>1 DEF Same, Apart, Gone, Refers, Inserted
      <3> QED
        BY <3>1, <3>2
    <2> QED
      BY <2>2, <2>3, <2>4, <2>5, <2>6, <2>7, <2>8 DEF HandlerOK
  <1> QED
    BY <1>1, <1>2, <1>3, TypeParts DEF Inv

\* A code's count grows only with the user it lets in, who then no longer reads it.
LetsIn(t, c) == c \in held[t] /\ op[t] \in {"join", "return"}
LEMMA UsesKept ==
    ASSUME Inv, NEW t \in Handlers, Finish(t),
           \A c \in DOMAIN codes' :
               \/ letIn'[c] = 0
               \/ /\ c \in DOMAIN codes /\ letIn'[c] = letIn[c] /\ codes'[c].used = codes[c].used
               \/ /\ c \in DOMAIN codes /\ LetsIn(t, c) /\ letIn'[c] = letIn[c] + 1
                  /\ codes'[c].used = TRUE
    PROVE  UsesBounded'
  <1> SUFFICES ASSUME NEW c \in DOMAIN codes'
               PROVE  /\ codes'[c].used = FALSE => letIn'[c] = 0
                      /\ letIn'[c] + Cardinality(Readers(c)') <= Cardinality(Handlers)
    BY DEF UsesBounded
  <1>1. Readers(c)' = Readers(c) \ {t}
    BY FinishTyped DEF Readers, Same, Finish, Inv, TypeOK
  <1>2. /\ IsFiniteSet(Readers(c)') /\ Cardinality(Readers(c)') \in Nat
        /\ Cardinality(Readers(c)') <= Cardinality(Readers(c))
    BY <1>1, ReadersFinite, FS_Subset, FS_CardinalityType
  <1>3. c \in DOMAIN codes =>
           /\ letIn[c] \in Nat /\ (codes[c].used = FALSE => letIn[c] = 0)
           /\ letIn[c] + Cardinality(Readers(c)) <= Cardinality(Handlers)
    BY DEF Inv, TypeOK, UsesBounded
  <1>4. CASE letIn'[c] = 0
    BY <1>2, <1>4, ReadersFinite
  <1>5. CASE c \in DOMAIN codes /\ letIn'[c] = letIn[c] /\ codes'[c].used = codes[c].used
    BY <1>2, <1>3, <1>5, ReadersFinite
  <1>6. CASE c \in DOMAIN codes /\ LetsIn(t, c) /\ letIn'[c] = letIn[c] + 1 /\ codes'[c].used = TRUE
    <2>1. t \in Readers(c)
      BY <1>6 DEF LetsIn, Readers, Inv, HandlerOK, Shape, Open, Joining, Returning, Inviting, Revoking, Removing
    <2>2. Cardinality(Readers(c)') = Cardinality(Readers(c)) - 1
      BY <1>1, <2>1, ReadersFinite, FS_RemoveElement, ZenonT(40)
    <2> QED
      BY <1>3, <1>6, <2>2, ReadersFinite
  <1> QED
    BY <1>4, <1>5, <1>6

\* The codes after mark_invitation_used.
LEMMA MarkedCodes ==
    ASSUME Inv, NEW t \in Handlers, caller[t] \in People,
           codes' = [c \in DOMAIN codes |->
                        IF c \in held[t] THEN [codes[c] EXCEPT !.used = TRUE, !.usedBy = caller[t]]
                        ELSE codes[c]]
    PROVE  /\ DOMAIN codes' = DOMAIN codes /\ codes' \in [DOMAIN codes -> CodeRows]
           /\ \A c \in DOMAIN codes :
                 /\ codes'[c].by = codes[c].by /\ codes'[c].role = codes[c].role
                 /\ c \in held[t] => codes'[c].used = TRUE /\ codes'[c].usedBy = caller[t]
                 /\ c \notin held[t] => codes'[c] = codes[c]
  <1>1. ASSUME NEW c \in DOMAIN codes
        PROVE  /\ codes'[c].by = codes[c].by /\ codes'[c].role = codes[c].role
               /\ c \in held[t] => codes'[c].used = TRUE /\ codes'[c].usedBy = caller[t]
               /\ c \notin held[t] => codes'[c] = codes[c]
               /\ codes'[c] \in CodeRows
    <2>1. codes[c] \in CodeRows
      BY DEF Inv, TypeOK
    <2>2. CASE c \in held[t]
      <3>1. codes'[c] = [codes[c] EXCEPT !.used = TRUE, !.usedBy = caller[t]]
        BY <2>2
      <3> QED
        BY <2>1, <2>2, <3>1 DEF CodeRows
    <2>3. CASE c \notin held[t]
      BY <2>1, <2>3
    <2> QED
      BY <2>2, <2>3
  <1> QED
    BY <1>1

\* The inviters remain a forest when somebody joins whose inviter is there, and
\* when a set of users goes that has whomever its members have invited.
LEMMA ForestGrows ==
    ASSUME InviterForest, Members \subseteq People, NEW p \in People \ Members,
           Members' = Members \cup {p}, users'[p].by \in Members \cup {None},
           \A q \in Members : users'[q] = users[q]
    PROVE  InviterForest'
  <1>0. /\ \A q \in Members : users[q].by \in Members \cup {None}
        /\ \A S \in (SUBSET Members) \ {{}} : \E q \in S : users[q].by \notin S
    BY DEF InviterForest
  <1>1. \A q \in Members' : users'[q].by \in Members' \cup {None}
    BY <1>0
  <1>2. None \notin Members'
    BY PeopleAssumption
  <1>3. ASSUME NEW S \in (SUBSET Members') \ {{}}
        PROVE  \E q \in S : users'[q].by \notin S
    <2>1. CASE S \cap Members = {}
      <3>1. S = {p}
        BY <1>3, <2>1
      <3>2. users'[p].by # p
        BY PeopleAssumption
      <3> QED
        BY <3>1, <3>2
    <2>2. CASE S \cap Members # {}
      <3>1. PICK q \in S \cap Members : users[q].by \notin S \cap Members
        BY <1>0, <2>2
      <3> QED
        BY <1>0, <1>2, <1>3, <3>1
    <2> QED
      BY <2>1, <2>2
  <1> QED
    BY <1>1, <1>3 DEF InviterForest

LEMMA ForestShrinks ==
    ASSUME InviterForest, NEW D, Members' = Members \ D,
           \A q \in Members \ D : users[q].by \notin D,
           \A q \in Members' : users'[q] = users[q]
    PROVE  InviterForest'
  <1>0. /\ \A q \in Members : users[q].by \in Members \cup {None}
        /\ \A S \in (SUBSET Members) \ {{}} : \E q \in S : users[q].by \notin S
    BY DEF InviterForest
  <1>1. \A q \in Members' : users'[q].by \in Members' \cup {None}
    BY <1>0
  <1>2. ASSUME NEW S \in (SUBSET Members') \ {{}}
        PROVE  \E q \in S : users'[q].by \notin S
    <2>1. S \in (SUBSET Members) \ {{}}
      BY <1>2
    <2>2. PICK q \in S : users[q].by \notin S
      BY <1>0, <2>1
    <2> QED
      BY <1>2, <2>2
  <1> QED
    BY <1>1, <1>2 DEF InviterForest

LEMMA CommitJoinInv ==
    ASSUME Inv, NEW t \in Handlers, pc[t] = "commit", op[t] = "join", CommitJoin(t), Finish(t)
    PROVE  Inv'
  <1> DEFINE new == NewUser(t)
  <1>0. /\ users' = [p \in Members \cup {caller[t]} |-> IF p = caller[t] THEN new ELSE users[p]]
        /\ letIn' = [c \in Codes |-> IF c \in held[t] THEN letIn[c] + 1 ELSE letIn[c]]
    BY DEF CommitJoin
  <1>1. HandlerOK(t) /\ Joining(t) /\ caller[t] \in People /\ Inserted(t) /\ NewMember(t)
    BY DEF Inv, HandlerOK, Shape, Open, Joining, Returning, Inviting, Revoking, Removing, Inserted
  <1>2. /\ caller[t] \notin Members /\ inv[t].by \in Members \cup {None}
        /\ \A s \in Handlers \ {t} : Inserted(s) => caller[s] # caller[t]
    BY <1>1 DEF NewMember
  <1>3. new \in UserRows /\ new.by = inv[t].by /\ new.role = inv[t].role
    BY <1>1 DEF NewUser, UserRows, CodeRows, Joining
  <1> HIDE DEF new
  <1>4. /\ DOMAIN codes' = DOMAIN codes /\ codes' \in [DOMAIN codes -> CodeRows]
        /\ \A c \in DOMAIN codes :
              /\ codes'[c].by = codes[c].by /\ codes'[c].role = codes[c].role
              /\ c \in held[t] => codes'[c].used = TRUE /\ codes'[c].usedBy = caller[t]
              /\ c \notin held[t] => codes'[c] = codes[c]
    BY <1>1, MarkedCodes DEF CommitJoin
  <1>5. /\ Members' = Members \cup {caller[t]}
        /\ users'[caller[t]] = new
        /\ \A p \in Members : users'[p] = users[p]
    BY <1>0, <1>2 DEF Members
  <1>6. TablesTyped'
    <2>1. users' \in [Members' -> UserRows] /\ Members' \subseteq People
      BY <1>0, <1>1, <1>3, <1>5 DEF Inv, TypeOK
    <2>2. letIn' \in [Codes -> Nat]
      BY <1>0 DEF Inv, TypeOK
    <2> QED
      BY <1>4, <2>1, <2>2 DEF Inv, TypeOK, TablesTyped
  <1>7. ASSUME NEW s \in Handlers \ {t}
        PROVE  OwedTo(s)
    <2>1. HandlerOK(s) /\ Apart(s, t)
      BY <1>1 DEF Inv, HandlerOK
    <2>2. rows[s] \subseteq Members' /\ held[s] \subseteq DOMAIN codes'
      BY <1>4, <1>5, <2>1 DEF HandlerOK, RowLocks, CodeLocks
    <2>3. Inserted(s) => caller[s] \notin Members' /\ inv[s].by \in Members' \cup {None}
      BY <1>2, <1>5, <2>1 DEF HandlerOK, NewMember
    <2>4. Drawn(s) => code[s] \notin DOMAIN codes' /\ caller[s] \in Members'
      BY <1>4, <1>5, <2>1 DEF HandlerOK, NewCode
    <2>5. ASSUME Gone(s)
          PROVE  /\ \A p \in Members' \ ids[s] : users'[p].by \notin ids[s]
                 /\ \A c \in DOMAIN codes' \ held[s] :
                       codes'[c].by \notin ids[s] /\ codes'[c].usedBy \notin ids[s]
      <3>1. /\ ids[s] \subseteq Members
            /\ \A p \in Members \ ids[s] : users[p].by \notin ids[s]
            /\ \A c \in DOMAIN codes \ held[s] : codes[c].by \notin ids[s] /\ codes[c].usedBy \notin ids[s]
        BY <2>1, <2>5 DEF HandlerOK, DeletionReady, RowLocks
      <3>2. inv[t].by \notin ids[s]
        BY <1>1, <2>1, <2>5 DEF Apart, Refers
      <3> QED
        BY <1>2, <1>3, <1>4, <1>5, <3>1, <3>2
    <2> QED
      BY <2>2, <2>3, <2>4, <2>5 DEF OwedTo
  <1>8. AdminsKnown'
    BY <1>1, <1>3, <1>4, <1>5 DEF Inv, AdminsKnown, HandlerOK, RolesOf
  <1>9. L1ByAdmin'
    BY <1>1, <1>3, <1>4, <1>5 DEF Inv, L1ByAdmin, HandlerOK, RolesOf
  <1>10. InviterForest'
    <2>1. caller[t] \in People \ Members /\ Members \subseteq People /\ InviterForest
      BY <1>1, <1>2 DEF Inv, TypeOK
    <2>2. users'[caller[t]].by \in Members \cup {None}
      BY <1>2, <1>3, <1>5
    <2> QED
      BY <1>5, <2>1, <2>2, ForestGrows
  <1>11. UsesBounded'
    <2>1. ASSUME NEW c \in DOMAIN codes
          PROVE  \/ letIn'[c] = letIn[c] /\ codes'[c].used = codes[c].used
                 \/ LetsIn(t, c) /\ letIn'[c] = letIn[c] + 1 /\ codes'[c].used = TRUE
      <3>1. c \in Codes
        BY DEF Inv, TypeOK
      <3> QED
        BY <1>0, <1>4, <3>1 DEF LetsIn
    <2> QED
      BY <1>4, <2>1, UsesKept
  <1> QED
    BY <1>6, <1>7, <1>8, <1>9, <1>10, <1>11, CommitKeeps

\* A commit that changes no inviter and no role, and adds or removes no user.
LEMMA SameInviters ==
    ASSUME Inv, Members' = Members,
           \A p \in Members : users'[p].by = users[p].by /\ users'[p].role = users[p].role
    PROVE  /\ InviterForest'
           /\ \A p \in Members' : users'[p].role = "admin" => p = Admin
           /\ \A p \in Members' : users'[p].role = "l1" => users'[p].by = Admin
  <1>1. InviterForest'
    BY DEF Inv, InviterForest
  <1> QED
    BY <1>1 DEF Inv, AdminsKnown, L1ByAdmin

LEMMA CommitReturnInv ==
    ASSUME Inv, NEW t \in Handlers, pc[t] = "commit", op[t] = "return", CommitReturn(t), Finish(t)
    PROVE  Inv'
  <1>0. /\ users' = [p \in Members |->
                    IF p = caller[t] /\ p \in rows[t] THEN [users[p] EXCEPT !.active = TRUE] ELSE users[p]]
        /\ letIn' = [c \in Codes |-> IF c \in held[t] THEN letIn[c] + 1 ELSE letIn[c]]
    BY DEF CommitReturn
  <1>1. HandlerOK(t) /\ Returning(t) /\ caller[t] \in People
    BY DEF Inv, HandlerOK, Shape, Open, Joining, Returning, Inviting, Revoking, Removing
  <1>2. /\ DOMAIN codes' = DOMAIN codes /\ codes' \in [DOMAIN codes -> CodeRows]
        /\ \A c \in DOMAIN codes :
              /\ codes'[c].by = codes[c].by /\ codes'[c].role = codes[c].role
              /\ c \in held[t] => codes'[c].used = TRUE /\ codes'[c].usedBy = caller[t]
              /\ c \notin held[t] => codes'[c] = codes[c]
    BY <1>1, MarkedCodes DEF CommitReturn
  <1>3. /\ Members' = Members /\ users' \in [Members -> UserRows]
        /\ \A p \in Members : users'[p].by = users[p].by /\ users'[p].role = users[p].role
    <2>1. ASSUME NEW p \in Members
          PROVE  users'[p].by = users[p].by /\ users'[p].role = users[p].role /\ users'[p] \in UserRows
      <3>1. users[p] \in UserRows
        BY DEF Inv, TypeOK
      <3>2. users'[p] = [users[p] EXCEPT !.active = TRUE] \/ users'[p] = users[p]
        BY <1>0
      <3> QED
        BY <3>1, <3>2 DEF UserRows
    <2> QED
      BY <1>0, <2>1 DEF Members
  <1>4. TablesTyped'
    <2>1. letIn' \in [Codes -> Nat]
      BY <1>0 DEF Inv, TypeOK
    <2> QED
      BY <1>2, <1>3, <2>1 DEF Inv, TypeOK, TablesTyped
  <1>5. ASSUME NEW s \in Handlers \ {t}
        PROVE  OwedTo(s)
    <2>1. HandlerOK(s) /\ Apart(s, t)
      BY <1>1 DEF Inv, HandlerOK
    <2>2. /\ rows[s] \subseteq Members' /\ held[s] \subseteq DOMAIN codes'
          /\ Inserted(s) => caller[s] \notin Members' /\ inv[s].by \in Members' \cup {None}
          /\ Drawn(s) => code[s] \notin DOMAIN codes' /\ caller[s] \in Members'
      BY <1>2, <1>3, <2>1 DEF HandlerOK, RowLocks, CodeLocks, NewMember, NewCode
    <2>3. ASSUME Gone(s)
          PROVE  /\ \A p \in Members' \ ids[s] : users'[p].by \notin ids[s]
                 /\ \A c \in DOMAIN codes' \ held[s] :
                       codes'[c].by \notin ids[s] /\ codes'[c].usedBy \notin ids[s]
      <3>1. /\ \A p \in Members \ ids[s] : users[p].by \notin ids[s]
            /\ \A c \in DOMAIN codes \ held[s] : codes[c].by \notin ids[s] /\ codes[c].usedBy \notin ids[s]
        BY <2>1, <2>3 DEF HandlerOK, DeletionReady
      <3>2. held[t] # {} => caller[t] \notin ids[s]
        BY <2>1, <2>3 DEF Apart, Refers
      <3> QED
        BY <1>2, <1>3, <3>1, <3>2
    <2> QED
      BY <2>2, <2>3 DEF OwedTo
  <1>6. AdminsKnown' /\ L1ByAdmin' /\ InviterForest'
    BY <1>2, <1>3, SameInviters DEF Inv, AdminsKnown, L1ByAdmin
  <1>7. UsesBounded'
    <2>1. ASSUME NEW c \in DOMAIN codes
          PROVE  \/ letIn'[c] = letIn[c] /\ codes'[c].used = codes[c].used
                 \/ LetsIn(t, c) /\ letIn'[c] = letIn[c] + 1 /\ codes'[c].used = TRUE
      <3>1. c \in Codes
        BY DEF Inv, TypeOK
      <3> QED
        BY <1>0, <1>2, <3>1 DEF LetsIn
    <2> QED
      BY <1>2, <2>1, UsesKept
  <1> QED
    BY <1>4, <1>5, <1>6, <1>7, CommitKeeps

LEMMA CommitInviteInv ==
    ASSUME Inv, NEW t \in Handlers, pc[t] = "commit", op[t] = "invite", CommitInvite(t), Finish(t)
    PROVE  Inv'
  <1>0. /\ codes' = [c \in DOMAIN codes \cup {code[t]} |-> IF c = code[t] THEN inv[t] ELSE codes[c]]
        /\ letIn' = [letIn EXCEPT ![code[t]] = 0] /\ users' = users
    BY DEF CommitInvite
  <1>1. HandlerOK(t) /\ Inviting(t) /\ caller[t] \in People /\ Drawn(t)
    BY DEF Inv, HandlerOK, Shape, Open, Joining, Returning, Inviting, Revoking, Removing, Drawn
  <1>2. /\ code[t] \in Codes /\ code[t] \notin DOMAIN codes /\ caller[t] \in Members
        /\ inv[t] \in CodeRows /\ inv[t].by = caller[t] /\ inv[t].usedBy = None
        /\ \A s \in Handlers \ {t} : Drawn(s) => code[s] # code[t]
    BY <1>1 DEF HandlerOK, NewCode, Inviting
  <1>3. /\ DOMAIN codes' = DOMAIN codes \cup {code[t]} /\ codes'[code[t]] = inv[t]
        /\ \A c \in DOMAIN codes : codes'[c] = codes[c]
    BY <1>0, <1>2
  <1>4. Members' = Members
    BY <1>0 DEF Members
  <1>5. TablesTyped'
    <2>1. codes' \in [DOMAIN codes' -> CodeRows] /\ DOMAIN codes' \subseteq Codes
      BY <1>0, <1>2, <1>3 DEF Inv, TypeOK
    <2>2. letIn' \in [Codes -> Nat]
      BY <1>0 DEF Inv, TypeOK
    <2> QED
      BY <1>0, <1>4, <2>1, <2>2 DEF Inv, TypeOK, TablesTyped
  <1>6. ASSUME NEW s \in Handlers \ {t}
        PROVE  OwedTo(s)
    <2>1. HandlerOK(s) /\ Apart(s, t)
      BY <1>1 DEF Inv, HandlerOK
    <2>2. /\ rows[s] \subseteq Members' /\ held[s] \subseteq DOMAIN codes'
          /\ Inserted(s) => caller[s] \notin Members' /\ inv[s].by \in Members' \cup {None}
      BY <1>3, <1>4, <2>1 DEF HandlerOK, RowLocks, CodeLocks, NewMember
    <2>3. Drawn(s) => code[s] \notin DOMAIN codes' /\ caller[s] \in Members'
      BY <1>2, <1>3, <1>4, <2>1 DEF HandlerOK, NewCode
    <2>4. ASSUME Gone(s)
          PROVE  /\ \A p \in Members' \ ids[s] : users'[p].by \notin ids[s]
                 /\ \A c \in DOMAIN codes' \ held[s] :
                       codes'[c].by \notin ids[s] /\ codes'[c].usedBy \notin ids[s]
      <3>1. /\ ids[s] \subseteq People
            /\ \A p \in Members \ ids[s] : users[p].by \notin ids[s]
            /\ \A c \in DOMAIN codes \ held[s] : codes[c].by \notin ids[s] /\ codes[c].usedBy \notin ids[s]
        BY <2>1, <2>4 DEF HandlerOK, DeletionReady, Inv, TypeOK
      <3>2. caller[t] \notin ids[s]
        BY <1>1, <2>1, <2>4 DEF Apart, Refers, Drawn
      <3> QED
        BY <1>0, <1>2, <1>3, <1>4, <3>1, <3>2, PeopleAssumption
    <2> QED
      BY <2>2, <2>3, <2>4 DEF OwedTo
  <1>7. AdminsKnown' /\ L1ByAdmin' /\ InviterForest'
    <2>1. inv[t].role # "admin" /\ (inv[t].role = "l1" => inv[t].by = Admin)
      BY <1>1 DEF HandlerOK, RolesOf, Drawn
    <2>2. AdminsKnown' /\ L1ByAdmin'
      BY <1>0, <1>3, <1>4, <2>1 DEF Inv, AdminsKnown, L1ByAdmin
    <2>3. InviterForest'
      BY <1>0, <1>4 DEF Inv, InviterForest
    <2> QED
      BY <2>2, <2>3
  <1>8. UsesBounded'
    <2>1. ASSUME NEW c \in DOMAIN codes'
          PROVE  \/ letIn'[c] = 0
                 \/ c \in DOMAIN codes /\ letIn'[c] = letIn[c] /\ codes'[c].used = codes[c].used
      <3>1. c \in Codes
        BY <1>2, <1>3 DEF Inv, TypeOK
      <3> QED
        BY <1>0, <1>3, <3>1 DEF Inv, TypeOK
    <2> QED
      BY <2>1, UsesKept
  <1> QED
    BY <1>5, <1>6, <1>7, <1>8, CommitKeeps

LEMMA CommitRevokeInv ==
    ASSUME Inv, NEW t \in Handlers, pc[t] = "commit", op[t] = "revoke", CommitRevoke(t), Finish(t)
    PROVE  Inv'
  <1>0. /\ users' = [p \in Members |->
                    IF p \in ids[t] THEN [users[p] EXCEPT !.active = FALSE] ELSE users[p]]
        /\ UNCHANGED <<codes, letIn>>
    BY DEF CommitRevoke
  <1>1. /\ Members' = Members /\ users' \in [Members -> UserRows]
        /\ \A p \in Members : users'[p].by = users[p].by /\ users'[p].role = users[p].role
    <2>1. ASSUME NEW p \in Members
          PROVE  users'[p].by = users[p].by /\ users'[p].role = users[p].role /\ users'[p] \in UserRows
      <3>1. users[p] \in UserRows
        BY DEF Inv, TypeOK
      <3>2. users'[p] = [users[p] EXCEPT !.active = FALSE] \/ users'[p] = users[p]
        BY <1>0
      <3> QED
        BY <3>1, <3>2 DEF UserRows
    <2> QED
      BY <1>0, <2>1 DEF Members
  <1>2. TablesTyped'
    BY <1>0, <1>1 DEF Inv, TypeOK, TablesTyped
  <1>3. ASSUME NEW s \in Handlers \ {t}
        PROVE  OwedTo(s)
    <2>1. HandlerOK(s)
      BY DEF Inv
    <2> QED
      BY <1>0, <1>1, <2>1
         DEF HandlerOK, RowLocks, CodeLocks, NewMember, NewCode, DeletionReady, OwedTo
  <1>4. AdminsKnown' /\ L1ByAdmin' /\ InviterForest'
    BY <1>0, <1>1, SameInviters DEF Inv, AdminsKnown, L1ByAdmin
  <1>5. UsesBounded'
    BY <1>0, UsesKept
  <1> QED
    BY <1>2, <1>3, <1>4, <1>5, CommitKeeps

LEMMA CommitDeleteInv ==
    ASSUME Inv, NEW t \in Handlers, pc[t] = "commit", op[t] = "delete", CommitDelete(t), Finish(t)
    PROVE  Inv'
  <1> DEFINE kept == {c \in DOMAIN codes : c \in held[t] => codes[c].by \notin ids[t]}
  <1>0. /\ users' = [p \in Members \ ids[t] |-> users[p]]
        /\ codes' = [c \in kept |->
                       IF c \in held[t] THEN [codes[c] EXCEPT !.usedBy = None] ELSE codes[c]]
        /\ letIn' = [c \in Codes |-> IF c \in kept THEN letIn[c] ELSE 0]
    BY DEF CommitDelete
  <1>1. HandlerOK(t) /\ Gone(t) /\ ids[t] \subseteq rows[t]
        /\ \A p \in Members \ ids[t] : users[p].by \notin ids[t]
    BY DEF Inv, HandlerOK, Gone, DeletionReady
  <1>2. Members' = Members \ ids[t] /\ \A p \in Members' : users'[p] = users[p]
    BY <1>0 DEF Members
  <1>3. kept \subseteq DOMAIN codes /\ \A c \in DOMAIN codes \ kept : c \in held[t]
    OBVIOUS
  <1> HIDE DEF kept
  <1>4. /\ DOMAIN codes' = kept
        /\ \A c \in kept :
              /\ codes'[c] \in CodeRows /\ codes'[c].by = codes[c].by /\ codes'[c].role = codes[c].role
              /\ codes'[c].used = codes[c].used
              /\ codes'[c].usedBy = None \/ codes'[c] = codes[c]
    <2>1. ASSUME NEW c \in kept
          PROVE  /\ codes'[c] \in CodeRows /\ codes'[c].by = codes[c].by /\ codes'[c].role = codes[c].role
                 /\ codes'[c].used = codes[c].used
                 /\ codes'[c].usedBy = None \/ codes'[c] = codes[c]
      <3>1. codes[c] \in CodeRows
        BY <1>3 DEF Inv, TypeOK
      <3>2. codes'[c] = [codes[c] EXCEPT !.usedBy = None] \/ codes'[c] = codes[c]
        BY <1>0
      <3> QED
        BY <3>1, <3>2 DEF CodeRows
    <2> QED
      BY <1>0, <2>1
  <1>5. TablesTyped'
    <2>1. users' \in [Members' -> UserRows] /\ Members' \subseteq People
      BY <1>0, <1>2 DEF Inv, TypeOK
    <2>2. codes' \in [DOMAIN codes' -> CodeRows] /\ DOMAIN codes' \subseteq Codes
      BY <1>0, <1>3, <1>4 DEF Inv, TypeOK
    <2>3. letIn' \in [Codes -> Nat]
      BY <1>0 DEF Inv, TypeOK
    <2> QED
      BY <2>1, <2>2, <2>3 DEF TablesTyped
  <1>6. ASSUME NEW s \in Handlers \ {t}
        PROVE  OwedTo(s)
    <2>1. HandlerOK(s) /\ \A u \in ids[t] : ~Refers(s, u)
      BY <1>1 DEF Inv, HandlerOK, Apart
    <2>2. rows[s] \subseteq Members'
      BY <1>1, <1>2, <2>1 DEF HandlerOK, RowLocks
    <2>3. held[s] \subseteq DOMAIN codes'
      BY <1>1, <1>3, <1>4, <2>1 DEF HandlerOK, CodeLocks
    <2>4. Inserted(s) => caller[s] \notin Members' /\ inv[s].by \in Members' \cup {None}
      BY <1>2, <2>1 DEF HandlerOK, NewMember, Refers
    <2>5. Drawn(s) => code[s] \notin DOMAIN codes' /\ caller[s] \in Members'
      BY <1>2, <1>3, <1>4, <2>1 DEF HandlerOK, NewCode, Drawn, Refers
    <2>6. ASSUME Gone(s)
          PROVE  /\ \A p \in Members' \ ids[s] : users'[p].by \notin ids[s]
                 /\ \A c \in DOMAIN codes' \ held[s] :
                       codes'[c].by \notin ids[s] /\ codes'[c].usedBy \notin ids[s]
      <3>1. /\ ids[s] \subseteq People
            /\ \A p \in Members \ ids[s] : users[p].by \notin ids[s]
            /\ \A c \in DOMAIN codes \ held[s] : codes[c].by \notin ids[s] /\ codes[c].usedBy \notin ids[s]
        BY <2>1, <2>6 DEF HandlerOK, DeletionReady, Inv, TypeOK
      <3> QED
        BY <1>2, <1>3, <1>4, <3>1, PeopleAssumption
    <2> QED
      BY <2>2, <2>3, <2>4, <2>5, <2>6 DEF OwedTo
  <1>7. AdminsKnown' /\ L1ByAdmin'
    BY <1>2, <1>3, <1>4 DEF Inv, AdminsKnown, L1ByAdmin
  <1>8. InviterForest'
    BY <1>1, <1>2, ForestShrinks DEF Inv
  <1>9. UsesBounded'
    <2>1. ASSUME NEW c \in DOMAIN codes'
          PROVE  c \in DOMAIN codes /\ letIn'[c] = letIn[c] /\ codes'[c].used = codes[c].used
      <3>1. c \in kept /\ c \in Codes
        BY <1>3, <1>4, <2>1 DEF Inv, TypeOK
      <3> QED
        BY <1>0, <1>3, <1>4, <3>1
    <2> QED
      BY <2>1, UsesKept
  <1> QED
    BY <1>5, <1>6, <1>7, <1>8, <1>9, CommitKeeps

-----------------------------------------------------------------------------
(* The invariant holds always.                                               *)

LEMMA InitInv == Init => Inv
  <1> SUFFICES ASSUME Init
               PROVE  Inv
    OBVIOUS
  <1>1. Members = {} /\ DOMAIN codes = {}
    BY DEF Init, Members
  <1>2. TypeOK
    BY <1>1 DEF Init, TypeOK
  <1>3. ASSUME NEW t \in Handlers
        PROVE  HandlerOK(t)
    <2>1. /\ pc[t] = "idle" /\ op[t] = "none" /\ code[t] = None
          /\ rows[t] = {} /\ ids[t] = {} /\ held[t] = {}
      BY DEF Init
    <2>2. \A s \in Handlers : pc[s] = "idle" /\ op[s] = "none"
      BY DEF Init
    <2>3. Shape(t) /\ RowLocks(t) /\ CodeLocks(t) /\ NewMember(t) /\ NewCode(t)
      BY <2>1 DEF Shape, Open, RowLocks, CodeLocks, NewMember, Inserted, NewCode, Drawn
    <2>4. DeletionReady(t) /\ RolesOf(t) /\ \A s \in Handlers : Apart(s, t) /\ Apart(t, s)
      BY <2>1, <2>2 DEF DeletionReady, Gone, RolesOf, Apart
    <2> QED
      BY <2>3, <2>4 DEF HandlerOK
  <1>4. AdminsKnown /\ InviterForest /\ L1ByAdmin /\ UsesBounded
    <2>1. \A S \in (SUBSET Members) \ {{}} : FALSE
      BY <1>1
    <2> QED
      BY <1>1, <2>1 DEF AdminsKnown, InviterForest, L1ByAdmin, UsesBounded
  <1> QED
    BY <1>2, <1>3, <1>4 DEF Inv

LEMMA CommitInv ==
    ASSUME Inv, NEW t \in Handlers, Commit(t)
    PROVE  Inv'
  BY CommitJoinInv, CommitReturnInv, CommitInviteInv, CommitRevokeInv, CommitDeleteInv DEF Commit

LEMMA StutterInv == ASSUME Inv, UNCHANGED vars PROVE Inv'
  <1>1. TypeOK'
    BY DEF Inv, TypeOK, vars, Members
  <1>2. \A t \in Handlers : HandlerOK(t)'
    <2> SUFFICES ASSUME NEW t \in Handlers
                 PROVE  HandlerOK(t)'
      OBVIOUS
    <2>0. HandlerOK(t)
      BY DEF Inv
    <2>1. Shape(t)' /\ RowLocks(t)' /\ CodeLocks(t)' /\ NewMember(t)' /\ NewCode(t)'
      BY <2>0 DEF vars, HandlerOK, Shape, Open, Joining, Returning, Inviting, Revoking, Removing,
                  RowLocks, CodeLocks, NewMember, Inserted, NewCode, Drawn, Members
    <2>2. DeletionReady(t)' /\ RolesOf(t)'
      BY <2>0 DEF vars, HandlerOK, DeletionReady, Gone, RolesOf, Members
    <2>3. \A s \in Handlers \ {t} : Apart(s, t)' /\ Apart(t, s)'
      BY <2>0 DEF vars, HandlerOK, Apart, Gone, Refers, Inserted
    <2> QED
      BY <2>1, <2>2, <2>3 DEF HandlerOK
  <1>3. AdminsKnown' /\ InviterForest' /\ L1ByAdmin'
    BY DEF Inv, AdminsKnown, InviterForest, L1ByAdmin, vars, Members
  <1>4. UsesBounded'
    BY DEF Inv, UsesBounded, Readers, vars
  <1> QED
    BY <1>1, <1>2, <1>3, <1>4 DEF Inv

LEMMA NextInv == Inv /\ [Next]_vars => Inv'
  <1> SUFFICES ASSUME Inv, [Next]_vars
               PROVE  Inv'
    OBVIOUS
  <1>1. CASE UNCHANGED vars
    BY <1>1, StutterInv
  <1>2. ASSUME NEW t \in Handlers, NEW p \in People, Arrive(t, p)
        PROVE  Inv'
    BY <1>2, ArriveInv
  <1>3. ASSUME NEW t \in Handlers, Profile(t)
        PROVE  Inv'
    BY <1>3, ProfileInv
  <1>4. ASSUME NEW t \in Handlers, Answered(t) \/ HandlerRaises(t)
        PROVE  Inv'
    BY <1>4, RefusedInv DEF Answered, HandlerRaises, Refused
  <1>5. ASSUME NEW t \in Handlers, Start(t)
        PROVE  Inv'
    BY <1>5, StartAdminInv, CreateUserInv, ReactivateInv, MarkUsedInv, StartWithCodeInv DEF Start
  <1>6. ASSUME NEW t \in Handlers, Invitation(t)
        PROVE  Inv'
    <2>1. ASSUME NEW c \in Codes, CmdInvite(t, c)
          PROVE  Inv'
      BY <2>1, GenerateInv DEF CmdInvite
    <2>2. ASSUME NEW c \in Codes, NEW r \in {"l1", "l2"}, InviteRoleCallback(t, c, r)
          PROVE  Inv'
      BY <2>2, GenerateInv DEF InviteRoleCallback
    <2> QED
      BY <1>6, <2>1, <2>2, CreateInvitationInv DEF Invitation
  <1>7. ASSUME NEW t \in Handlers, Removal(t)
        PROVE  Inv'
    BY <1>7, FriendsRevokeConfirmInv, DeleteConfirmInv, DeactivateUserInv, CodesTakenInv,
       NullifyInvitersInv, DeleteUsersInv DEF Removal
  <1>8. ASSUME NEW t \in Handlers, Commit(t)
        PROVE  Inv'
    BY <1>8, CommitInv
  <1> QED
    BY <1>1, <1>2, <1>3, <1>4, <1>5, <1>6, <1>7, <1>8 DEF Next

LEMMA AlwaysInv == Spec => []Inv
  <1>1. Init => Inv
    BY InitInv
  <1>2. Inv /\ [Next]_vars => Inv'
    BY NextInv
  <1> QED
    BY <1>1, <1>2, PTL DEF Spec

-----------------------------------------------------------------------------
(* The theorems.                                                             *)

\* The tables and the handlers' locals keep their types, whatever handlers of
\* start.py, invite.py and users.py overlap.
THEOREM MembershipTypeCorrect == Spec => []TypeOK
  <1>1. Inv => TypeOK
    BY DEF Inv
  <1> QED
    BY <1>1, AlwaysInv, PTL

\* Registrations and deletions that overlap leave every inviter in the table and
\* no circle, so the walk of the user tree and the recursive query of
\* delete_user_tree end and meet everybody.
THEOREM MembersFormAForest == Spec => []InviterForest
  <1>1. Inv => InviterForest
    BY DEF Inv
  <1> QED
    BY <1>1, AlwaysInv, PTL

\* No sequence of invitations, returns and deletions gives the role l1 to a user
\* whom the admin has not invited.
THEOREM OnlyTheAdminInvitesL1 == Spec => []L1ByAdmin
  <1>1. Inv => L1ByAdmin
    BY DEF Inv
  <1> QED
    BY <1>1, AlwaysInv, PTL

\* A code lets in at most one user for each update handled at the same time.
THEOREM CodesClose == Spec => []CodeClosesAfterUse
  <1>1. Inv => CodeClosesAfterUse
    <2> SUFFICES ASSUME Inv, NEW c \in DOMAIN codes
                 PROVE  letIn[c] <= Cardinality(Handlers)
      BY DEF CodeClosesAfterUse
    <2>1. letIn[c] \in Nat /\ letIn[c] + Cardinality(Readers(c)) <= Cardinality(Handlers)
      BY DEF Inv, TypeOK, UsesBounded
    <2> QED
      BY <2>1, ReadersFinite
  <1> QED
    BY <1>1, AlwaysInv, PTL

\* Only the commit of a deletion removes users, and those it deletes.
LEMMA RemovalIsADeletion ==
    ASSUME Inv, [Next]_vars, NEW u \in Members, u \notin DOMAIN users'
    PROVE  \E t \in Handlers : Gone(t) /\ CommitDelete(t) /\ u \in ids[t]
  <1>1. users' # users
    BY DEF Members
  <1>2. PICK t \in Handlers : Commit(t)
    <2>1. ~UNCHANGED vars
      BY <1>1 DEF vars
    <2>2. PICK t \in Handlers :
              \/ \E p \in People : Arrive(t, p)
              \/ Profile(t) \/ Answered(t)
              \/ Start(t) \/ Invitation(t) \/ Removal(t)
              \/ Commit(t) \/ HandlerRaises(t)
      BY <2>1 DEF Next
    <2>3. ~(\E p \in People : Arrive(t, p)) /\ ~Profile(t) /\ ~Answered(t) /\ ~HandlerRaises(t)
      BY <1>1 DEF Arrive, Profile, Answered, HandlerRaises, tables
    <2>4. ~Start(t)
      BY <1>1 DEF Start, StartAdmin, StartWithCode, CreateUser, Reactivate, MarkUsed, Refused, tables
    <2>5. ~Invitation(t)
      BY <1>1 DEF Invitation, CmdInvite, InviteRoleCallback, GenerateAndSend, CreateInvitation, Refused, tables
    <2>6. ~Removal(t)
      BY <1>1 DEF Removal, FriendsRevokeConfirm, DeleteConfirm, DeactivateUser, DeleteCodes, DetachCodes,
                  NullifyInviters, DeleteUsers, Refused, tables
    <2> QED
      BY <2>2, <2>3, <2>4, <2>5, <2>6
  <1>3. ~CommitJoin(t) /\ ~CommitReturn(t) /\ ~CommitInvite(t) /\ ~CommitRevoke(t)
    <2>1. DOMAIN users' # Members \cup {caller[t]} /\ DOMAIN users' # Members
      OBVIOUS
    <2> QED
      BY <2>1 DEF CommitJoin, CommitReturn, CommitInvite, CommitRevoke, Members
  <1>4. op[t] = "delete" /\ pc[t] = "commit" /\ CommitDelete(t)
    BY <1>2, <1>3 DEF Commit
  <1>5. DOMAIN users' = Members \ ids[t]
    BY <1>4 DEF CommitDelete
  <1> QED
    BY <1>4, <1>5 DEF Gone

\* What delete_user_tree commits is everybody below the users it deletes, those
\* included who registered after it had read the tree, and no code keeps a trace
\* of them.
THEOREM DeletionsAreWhole == Spec => DeletionIsWhole
  <1>1. ASSUME Inv, [Next]_vars, NEW u \in Members, u \notin DOMAIN users'
        PROVE  /\ \A p \in Tree(u) : p \notin DOMAIN users'
               /\ \A c \in DOMAIN codes' : u \notin {codes'[c].by, codes'[c].usedBy}
    <2>1. PICK t \in Handlers : Gone(t) /\ CommitDelete(t) /\ u \in ids[t]
      BY <1>1, RemovalIsADeletion
    <2> DEFINE kept == {c \in DOMAIN codes : c \in held[t] => codes[c].by \notin ids[t]}
    <2>2. /\ ids[t] \subseteq Members /\ ids[t] \subseteq People
          /\ \A p \in Members \ ids[t] : users[p].by \notin ids[t]
          /\ \A c \in DOMAIN codes \ held[t] : codes[c].by \notin ids[t] /\ codes[c].usedBy \notin ids[t]
      BY <1>1, <2>1 DEF Inv, TypeOK, HandlerOK, RowLocks, DeletionReady
    <2>3. /\ DOMAIN users' = Members \ ids[t]
          /\ codes' = [c \in kept |->
                       IF c \in held[t] THEN [codes[c] EXCEPT !.usedBy = None] ELSE codes[c]]
      BY <2>1 DEF CommitDelete
    <2>4. \A p \in Tree(u) : p \notin DOMAIN users'
      <3> SUFFICES ASSUME NEW p \in Tree(u)
                   PROVE  p \in ids[t]
        BY <2>3
      <3>1. \A q \in Members : users[q].by \in ids[t] => q \in ids[t]
        BY <2>2
      <3> QED
        BY <2>1, <2>2, <3>1 DEF Tree
    <2>5. ASSUME NEW c \in DOMAIN codes'
          PROVE  codes'[c].by # u /\ codes'[c].usedBy # u
      <3>1. c \in kept /\ codes[c] \in CodeRows
        BY <1>1, <2>3, <2>5 DEF Inv, TypeOK
      <3>2. CASE c \in held[t]
        <4>1. codes'[c] = [codes[c] EXCEPT !.usedBy = None] /\ codes[c].by \notin ids[t]
          BY <2>3, <3>1, <3>2
        <4>2. codes'[c].by = codes[c].by /\ codes'[c].usedBy = None
          BY <3>1, <4>1 DEF CodeRows
        <4> QED
          BY <2>1, <2>2, <4>1, <4>2, PeopleAssumption
      <3>3. CASE c \notin held[t]
        BY <2>1, <2>2, <2>3, <3>1, <3>3
      <3> QED
        BY <3>2, <3>3
    <2> QED
      BY <2>4, <2>5
  <1>2. Inv /\ [Next]_vars => [\A u \in Members : u \notin DOMAIN users' =>
         /\ \A p \in Tree(u) : p \notin DOMAIN users'
         /\ \A c \in DOMAIN codes' : u \notin {codes'[c].by, codes'[c].usedBy}]_vars
    BY <1>1
  <1> QED
    BY <1>2, AlwaysInv, PTL DEF Spec, DeletionIsWhole

-----------------------------------------------------------------------------
(* The registry: what a transaction is about to commit is one operation of   *)
(* MemberRegistry.                                                           *)

\* Nobody but the admin has no inviter, or is an admin; the admin is not shut
\* out; codes are of members and were used by members.
References ==
    /\ \A p \in Members :
           /\ users[p].by = None <=> p = Admin
           /\ users[p].role = "admin" <=> p = Admin
           /\ p = Admin => users[p].active = TRUE
    /\ \A c \in DOMAIN codes : codes[c].by \in Members /\ codes[c].usedBy \in Members \cup {None}

\* What the locals of each handler are up to, from their first statement on.
ToJoin(t) ==
    op[t] = "join" =>
        /\ caller[t] = Admin => inv[t].role = "admin" /\ inv[t].by = None /\ code[t] = None
        /\ caller[t] # Admin => inv[t].role # "admin" /\ inv[t].by # None
ToReturn(t) == op[t] = "return" => caller[t] # Admin /\ (held[t] # {} => caller[t] \in Members)
ToInvite(t) == op[t] = "invite" => inv[t].role # "admin"
ToRevoke(t) ==
    op[t] = "revoke" =>
        /\ Admin \notin ids[t] /\ \A u, v \in ids[t] : u = v
        /\ pc[t] = "commit" => ids[t] \subseteq rows[t]
ToDelete(t) ==
    op[t] = "delete" =>
        /\ Admin \notin ids[t]
        /\ \A c \in held[t] : codes[c].by \in ids[t] \/ codes[c].usedBy \in ids[t]
Purpose(t) == ToJoin(t) /\ ToReturn(t) /\ ToInvite(t) /\ ToRevoke(t) /\ ToDelete(t)

RegistryInv == References /\ \A t \in Handlers : Purpose(t)

LEMMA ReferencesStay ==
    ASSUME References, UNCHANGED tables
    PROVE  References'
  BY DEF References, tables, Members

\* A step of t that commits nothing leaves the purposes of the others alone.
LEMMA PurposesStay ==
    ASSUME RegistryInv, NEW t \in Handlers, UNCHANGED tables,
           \A s \in Handlers \ {t} : Same(s), Purpose(t)'
    PROVE  RegistryInv'
  <1>1. ASSUME NEW s \in Handlers \ {t}
        PROVE  Purpose(s)'
    <2>1. Purpose(s) /\ Same(s)
      BY DEF RegistryInv
    <2> QED
      BY <2>1 DEF Same, Purpose, ToJoin, ToReturn, ToInvite, ToRevoke, ToDelete, tables, Members
  <1> QED
    BY <1>1, ReferencesStay DEF RegistryInv

LEMMA NoPurpose ==
    ASSUME NEW t \in Handlers, op'[t] \notin {"join", "return", "invite", "revoke", "delete"}
    PROVE  Purpose(t)'
  BY DEF Purpose, ToJoin, ToReturn, ToInvite, ToRevoke, ToDelete

\* A handler ends without a commit.
LEMMA EndsPurpose ==
    ASSUME Inv, RegistryInv, NEW t \in Handlers, Refused(t)
    PROVE  RegistryInv'
  <1>1. op'[t] = "none" /\ UNCHANGED tables
    BY DEF Refused, Finish, Inv, TypeOK
  <1> QED
    BY <1>1, FinishTyped, NoPurpose, PurposesStay DEF Refused

\* A statement goes on as it has begun.
LEMMA GoesOnPurpose ==
    ASSUME RegistryInv, NEW t \in Handlers,
           UNCHANGED <<tables, caller, op, code, inv, ids, held>>, op[t] # "revoke"
    PROVE  Purpose(t)'
  BY DEF RegistryInv, Purpose, ToJoin, ToReturn, ToInvite, ToRevoke, ToDelete, tables, Members

LEMMA ArrivePurpose ==
    ASSUME Inv, RegistryInv, NEW t \in Handlers,
           Profile(t) \/ \E p \in People : Arrive(t, p)
    PROVE  RegistryInv'
  <1>1. op[t] = "none"
    BY DEF Inv, HandlerOK, Shape, Open, Joining, Returning, Inviting, Revoking, Removing, Arrive, Profile
  <1>2. op'[t] = "none" /\ UNCHANGED tables
    BY <1>1 DEF Arrive, Profile, work
  <1>3. \A s \in Handlers \ {t} : Same(s)
    BY DEF Inv, TypeOK, Same, Arrive, Profile, Goto, work
  <1> QED
    BY <1>2, <1>3, NoPurpose, PurposesStay

LEMMA StartAdminPurpose ==
    ASSUME Inv, RegistryInv, NEW t \in Handlers, StartAdmin(t)
    PROVE  RegistryInv'
  <1>1. code[t] = None /\ caller[t] = Admin
    BY StartsHandler DEF StartAdmin, Open
  <1>2. /\ op'[t] = "join" /\ caller'[t] = Admin /\ code'[t] = None
        /\ inv'[t].role = "admin" /\ inv'[t].by = None
    BY <1>1 DEF StartAdmin, session, Inv, TypeOK
  <1>3. Purpose(t)'
    BY <1>2 DEF Purpose, ToJoin, ToReturn, ToInvite, ToRevoke, ToDelete
  <1>4. \A s \in Handlers \ {t} : Same(s)
    BY DEF Inv, TypeOK, Same, StartAdmin, Goto, session
  <1> QED
    BY <1>3, <1>4, PurposesStay DEF StartAdmin

LEMMA StartWithCodePurpose ==
    ASSUME Inv, RegistryInv, NEW t \in Handlers, NEW c \in Codes, StartWithCode(t, c)
    PROVE  RegistryInv'
  <1>1. held[t] = {} /\ caller[t] # Admin /\ c \in DOMAIN codes
    BY StartsHandler DEF StartWithCode, Open
  <1>2. codes[c].role # "admin" /\ codes[c].by # None
    <2>1. codes[c].by \in Members /\ Members \subseteq People
      BY <1>1 DEF RegistryInv, References, Inv, TypeOK
    <2> QED
      BY <1>1, <2>1, PeopleAssumption DEF Inv, AdminsKnown
  <1>3. op'[t] \in {"join", "return"} /\ caller'[t] # Admin /\ inv'[t] = codes[c] /\ held'[t] = {}
    BY <1>1 DEF StartWithCode, session, Inv, TypeOK
  <1>4. Purpose(t)'
    BY <1>2, <1>3 DEF Purpose, ToJoin, ToReturn, ToInvite, ToRevoke, ToDelete
  <1>5. \A s \in Handlers \ {t} : Same(s)
    BY DEF Inv, TypeOK, Same, StartWithCode, Goto, session
  <1> QED
    BY <1>4, <1>5, PurposesStay DEF StartWithCode

\* The INSERT of a user or of a code, the UPDATE of a user who comes back or
\* whose inviter is emptied: no local but pc and rows changes.
LEMMA WritesPurpose ==
    ASSUME Inv, RegistryInv, NEW t \in Handlers,
           CreateUser(t) \/ Reactivate(t) \/ CreateInvitation(t) \/ NullifyInviters(t)
    PROVE  RegistryInv'
  <1>1. CASE Refused(t)
    BY <1>1, EndsPurpose
  <1>2. CASE ~Refused(t)
    <2>1. op[t] # "revoke"
      <3>1. pc[t] \in {"insert", "reactivate", "draw", "nullify"}
        BY DEF CreateUser, Reactivate, CreateInvitation, NullifyInviters
      <3> QED
        BY <3>1 DEF Inv, HandlerOK, Shape, Open, Joining, Returning, Inviting, Revoking, Removing
    <2>2. UNCHANGED <<tables, caller, op, code, inv, ids, held>>
      BY <1>2 DEF CreateUser, Reactivate, CreateInvitation, NullifyInviters, session, work
    <2>3. \A s \in Handlers \ {t} : Same(s)
      BY <1>2 DEF Inv, TypeOK, Same, CreateUser, Reactivate, CreateInvitation, NullifyInviters, Goto, session, work
    <2> QED
      BY <2>1, <2>2, <2>3, GoesOnPurpose, PurposesStay
  <1> QED
    BY <1>1, <1>2

LEMMA MarkUsedPurpose ==
    ASSUME Inv, RegistryInv, NEW t \in Handlers, MarkUsed(t)
    PROVE  RegistryInv'
  <1>1. CASE Refused(t)
    BY <1>1, EndsPurpose
  <1>2. CASE ~Refused(t)
    <2>1. /\ MatchedCodes(t) = {} \/ op[t] = "join" \/ caller[t] \in Members
          /\ held' = [held EXCEPT ![t] = MatchedCodes(t)]
          /\ UNCHANGED <<tables, session, work>> /\ pc' = [pc EXCEPT ![t] = "commit"]
      BY <1>2 DEF MarkUsed, Goto
    <2>2. op[t] \in {"join", "return"}
      BY DEF MarkUsed, Inv, HandlerOK, Shape, Open, Joining, Returning, Inviting, Revoking, Removing
    <2>3. held'[t] = MatchedCodes(t)
      BY <2>1 DEF Inv, TypeOK
    <2>4. Purpose(t)
      BY DEF RegistryInv
    <2>5. Purpose(t)'
      BY <2>1, <2>2, <2>3, <2>4
         DEF Purpose, ToJoin, ToReturn, ToInvite, ToRevoke, ToDelete, session, work, tables, Members
    <2>6. \A s \in Handlers \ {t} : Same(s)
      BY <2>1 DEF Inv, TypeOK, Same, session, work
    <2> QED
      BY <2>1, <2>5, <2>6, PurposesStay
  <1> QED
    BY <1>1, <1>2

LEMMA GeneratePurpose ==
    ASSUME Inv, RegistryInv, NEW t \in Handlers, NEW c \in Codes, NEW r \in {"l1", "l2"},
           GenerateAndSend(t, c, r)
    PROVE  RegistryInv'
  <1>1. op'[t] = "invite" /\ inv'[t].role # "admin"
    BY DEF GenerateAndSend, Inv, TypeOK
  <1>2. Purpose(t)'
    BY <1>1 DEF Purpose, ToJoin, ToReturn, ToInvite, ToRevoke, ToDelete
  <1>3. \A s \in Handlers \ {t} : Same(s)
    BY DEF Inv, TypeOK, Same, GenerateAndSend, Goto, session
  <1> QED
    BY <1>2, <1>3, PurposesStay DEF GenerateAndSend

LEMMA FriendsRevokePurpose ==
    ASSUME Inv, RegistryInv, NEW t \in Handlers, NEW u \in People, FriendsRevokeConfirm(t, u)
    PROVE  RegistryInv'
  <1>1. u # Admin
    <2>1. caller[t] \in People
      BY StartsHandler DEF FriendsRevokeConfirm, Allowed
    <2>2. u \in Members /\ users[u].by = caller[t]
      BY DEF FriendsRevokeConfirm
    <2> QED
      BY <2>1, <2>2, PeopleAssumption DEF RegistryInv, References
  <1>2. op'[t] = "revoke" /\ ids'[t] = {u} /\ pc'[t] = "revoke"
    BY DEF FriendsRevokeConfirm, Goto, Inv, TypeOK
  <1>3. Purpose(t)'
    BY <1>1, <1>2 DEF Purpose, ToJoin, ToReturn, ToInvite, ToRevoke, ToDelete
  <1>4. \A s \in Handlers \ {t} : Same(s)
    BY DEF Inv, TypeOK, Same, FriendsRevokeConfirm, Goto, session
  <1> QED
    BY <1>3, <1>4, PurposesStay DEF FriendsRevokeConfirm

LEMMA DeactivateUserPurpose ==
    ASSUME Inv, RegistryInv, NEW t \in Handlers, DeactivateUser(t)
    PROVE  RegistryInv'
  <1>1. op[t] = "revoke"
    BY DEF DeactivateUser, Inv, HandlerOK, Shape, Open, Joining, Returning, Inviting, Revoking, Removing
  <1>2. op'[t] = "revoke" /\ ids'[t] \subseteq ids[t] /\ ids'[t] \subseteq rows'[t] /\ UNCHANGED tables
    BY <1>1 DEF DeactivateUser, Inv, TypeOK
  <1>3. ToRevoke(t)
    BY DEF RegistryInv, Purpose
  <1>4. Purpose(t)'
    BY <1>1, <1>2, <1>3 DEF Purpose, ToJoin, ToReturn, ToInvite, ToRevoke, ToDelete
  <1>5. \A s \in Handlers \ {t} : Same(s)
    BY DEF Inv, TypeOK, Same, DeactivateUser, Goto
  <1> QED
    BY <1>2, <1>4, <1>5, PurposesStay

\* The admin is in nobody else's tree: everybody but the admin is a set that has
\* whomever its members have invited.
LEMMA DeleteConfirmPurpose ==
    ASSUME Inv, RegistryInv, NEW t \in Handlers, NEW u \in People, DeleteConfirm(t, u)
    PROVE  RegistryInv'
  <1>1. u \in Members /\ u # Admin
    BY DEF DeleteConfirm, Deletable, RegistryInv, References
  <1>2. Admin \notin Tree(u)
    <2> DEFINE S == Members \ {Admin}
    <2>1. \A p \in Members : users[p].by \in S => p \in S
      BY PeopleAssumption DEF RegistryInv, References, Inv, TypeOK
    <2>2. S \in SUBSET Members /\ u \in S /\ Admin \notin S
      BY <1>1
    <2> QED
      BY <2>1, <2>2 DEF Tree
  <1>3. op'[t] = "delete" /\ ids'[t] = Tree(u) /\ held'[t] = {}
    BY StartsHandler DEF DeleteConfirm, Allowed, Open, Inv, TypeOK
  <1>4. Purpose(t)'
    BY <1>2, <1>3 DEF Purpose, ToJoin, ToReturn, ToInvite, ToRevoke, ToDelete
  <1>5. \A s \in Handlers \ {t} : Same(s)
    BY DEF Inv, TypeOK, Same, DeleteConfirm, Goto, session
  <1> QED
    BY <1>4, <1>5, PurposesStay DEF DeleteConfirm

LEMMA CodesTakenPurpose ==
    ASSUME Inv, RegistryInv, NEW t \in Handlers, DeleteCodes(t) \/ DetachCodes(t)
    PROVE  RegistryInv'
  <1>1. op[t] = "delete" /\ pc[t] \in {"codes", "detach"}
    BY RemovesHandler DEF DeleteCodes, DetachCodes
  <1>2. /\ held'[t] \subseteq held[t] \cup MatchedCodes(t)
        /\ op'[t] = "delete" /\ ids'[t] = ids[t] /\ UNCHANGED tables
    BY <1>1 DEF DeleteCodes, DetachCodes, session, work, Inv, TypeOK
  <1>3. \A c \in MatchedCodes(t) : codes[c].by \in ids[t] \/ codes[c].usedBy \in ids[t]
    BY <1>1 DEF MatchedCodes
  <1>4. ToDelete(t)
    BY DEF RegistryInv, Purpose
  <1>5. Purpose(t)'
    BY <1>1, <1>2, <1>3, <1>4 DEF Purpose, ToJoin, ToReturn, ToInvite, ToRevoke, ToDelete, tables
  <1>6. \A s \in Handlers \ {t} : Same(s)
    BY DEF Inv, TypeOK, Same, DeleteCodes, DetachCodes, Goto, session, work
  <1> QED
    BY <1>2, <1>5, <1>6, PurposesStay

LEMMA DeleteUsersPurpose ==
    ASSUME Inv, RegistryInv, NEW t \in Handlers, DeleteUsers(t)
    PROVE  RegistryInv'
  <1>1. CASE Refused(t)
    BY <1>1, EndsPurpose
  <1>2. CASE ~Refused(t)
    <2>1. op[t] = "delete" /\ HandlerOK(t)
      BY RemovesHandler DEF DeleteUsers
    <2>2. op'[t] = "delete" /\ ids'[t] = ids[t] \cap Members /\ held'[t] = held[t] /\ UNCHANGED tables
      BY <1>2, <2>1 DEF DeleteUsers, Inv, TypeOK
    <2>3. ToDelete(t) /\ References
      BY DEF RegistryInv, Purpose
    <2>4. held[t] \subseteq DOMAIN codes /\ None \notin ids[t]
      BY <2>1, PeopleAssumption DEF HandlerOK, CodeLocks, Inv, TypeOK
    <2>5. \A c \in held[t] : codes[c].by \in ids[t] \cap Members \/ codes[c].usedBy \in ids[t] \cap Members
      BY <2>1, <2>3, <2>4 DEF ToDelete, References
    <2>6. Purpose(t)'
      BY <2>2, <2>3, <2>5, <2>1 DEF Purpose, ToJoin, ToReturn, ToInvite, ToRevoke, ToDelete, tables
    <2>7. \A s \in Handlers \ {t} : Same(s)
      BY <1>2 DEF Inv, TypeOK, Same, DeleteUsers, Goto
    <2> QED
      BY <2>2, <2>6, <2>7, PurposesStay
  <1> QED
    BY <1>1, <1>2

\* What a commit does to the code a handler holds, and to the member who sends
\* one, is its own handler's business.
LEMMA CommitPurposes ==
    ASSUME Inv, RegistryInv, NEW t \in Handlers, Commit(t)
    PROVE  \A s \in Handlers : Purpose(s)'
  <1>1. Finish(t) /\ pc[t] = "commit"
    BY DEF Commit
  <1>2. op'[t] = "none"
    BY <1>1 DEF Finish, Inv, TypeOK
  <1>3. ASSUME NEW s \in Handlers \ {t}
        PROVE  Purpose(s)'
    <2>1. Same(s) /\ HandlerOK(s) /\ HandlerOK(t) /\ Purpose(s)
      BY <1>1, FinishTyped DEF Inv, RegistryInv
    <2>2. op[s] = "return" /\ held[s] # {} => caller[s] \in Members'
      <3> SUFFICES ASSUME op[s] = "return", held[s] # {}
                   PROVE  caller[s] \in Members'
        OBVIOUS
      <3>1. caller[s] \in Members /\ Refers(s, caller[s])
        BY <2>1 DEF Purpose, ToReturn, Refers
      <3>2. CASE op[t] = "delete"
        <4>1. caller[s] \notin ids[t]
          BY <1>1, <2>1, <3>1, <3>2 DEF HandlerOK, Apart, Gone
        <4> QED
          BY <3>1, <3>2, <4>1 DEF Commit, CommitDelete, Members
      <3>3. CASE op[t] # "delete"
        <4>1. Members \subseteq Members'
          BY <3>3 DEF Commit, CommitJoin, CommitReturn, CommitInvite, CommitRevoke, Members
        <4> QED
          BY <3>1, <4>1
      <3> QED
        BY <3>2, <3>3
    <2>3. \A c \in held[s] : codes'[c] = codes[c]
      <3> SUFFICES ASSUME NEW c \in held[s]
                   PROVE  codes'[c] = codes[c]
        OBVIOUS
      <3>1. c \in DOMAIN codes /\ c \notin held[t]
        BY <2>1 DEF HandlerOK, CodeLocks
      <3>2. op[t] = "invite" => c # code[t]
        BY <1>1, <2>1, <3>1 DEF HandlerOK, NewCode, Drawn
      <3> QED
        BY <3>1, <3>2 DEF Commit, CommitJoin, CommitReturn, CommitInvite, CommitRevoke, CommitDelete
    <2>4. ToJoin(s)' /\ ToReturn(s)' /\ ToInvite(s)' /\ ToRevoke(s)'
      BY <2>1, <2>2 DEF Same, Purpose, ToJoin, ToReturn, ToInvite, ToRevoke
    <2>5. ToDelete(s)'
      BY <2>1, <2>3 DEF Same, Purpose, ToDelete
    <2> QED
      BY <2>4, <2>5 DEF Purpose
  <1> QED
    BY <1>2, <1>3, NoPurpose

\* The UPDATE of mark_invitation_used closes none or one code.
LEMMA ClosesOne ==
    ASSUME Inv, NEW t \in Handlers, Joining(t) \/ Returning(t),
           codes' = [c \in DOMAIN codes |->
                        IF c \in held[t] THEN [codes[c] EXCEPT !.used = TRUE, !.usedBy = caller[t]]
                        ELSE codes[c]]
    PROVE  Registry!Uses(caller[t], held[t]) /\ held[t] \in SUBSET DOMAIN codes
  <1>1. held[t] \subseteq {code[t]} /\ held[t] \subseteq DOMAIN codes
    BY DEF Joining, Returning, Inv, HandlerOK, CodeLocks
  <1> QED
    BY <1>1 DEF Registry!Uses

RegistryStep == Registry!Next \/ UNCHANGED <<users, codes>>

LEMMA JoinRegisters ==
    ASSUME Inv, RegistryInv, NEW t \in Handlers, pc[t] = "commit", op[t] = "join", CommitJoin(t)
    PROVE  RegistryStep
  <1>1. Joining(t) /\ caller[t] \in People /\ HandlerOK(t) /\ ToJoin(t)
    BY DEF Inv, HandlerOK, Shape, Open, Joining, Returning, Inviting, Revoking, Removing, RegistryInv, Purpose
  <1>2. caller[t] \notin Members /\ inv[t].by \in Members \cup {None}
    BY <1>1 DEF HandlerOK, NewMember, Inserted
  <1>3. inv[t].role \in Roles
    BY <1>1 DEF Joining, CodeRows
  <1>4. Registry!Admit(caller[t], inv[t].role, inv[t].by)
    BY <1>2 DEF Registry!Admit, Registry!Members, Members, CommitJoin, NewUser
  <1>5. Registry!Uses(caller[t], held[t]) /\ held[t] \in SUBSET DOMAIN codes
    BY <1>1, ClosesOne DEF CommitJoin
  <1>6. CASE caller[t] = Admin
    <2>1. inv[t].role = "admin" /\ inv[t].by = None /\ held[t] = {}
      <3>1. code[t] = None /\ held[t] \subseteq {code[t]} /\ held[t] \subseteq Codes
        BY <1>1, <1>6 DEF ToJoin, Joining, Inv, TypeOK
      <3> QED
        BY <1>1, <1>6, <3>1, PeopleAssumption DEF ToJoin
    <2>2. UNCHANGED codes
      BY <2>1 DEF CommitJoin, Inv, TypeOK
    <2> QED
      BY <1>4, <1>6, <2>1, <2>2 DEF RegistryStep, Registry!Next, Registry!Found
  <1>7. CASE caller[t] # Admin
    <2>1. inv[t].role \in {"l1", "l2"} /\ inv[t].by \in Members
      BY <1>1, <1>2, <1>3, <1>7 DEF ToJoin, Roles
    <2>2. inv[t].role = "l1" => inv[t].by = Admin
      BY <1>1 DEF HandlerOK, RolesOf, Joining
    <2>3. Registry!Join(caller[t], inv[t].role, inv[t].by, held[t])
      BY <1>4, <1>5, <1>7, <2>1, <2>2 DEF Registry!Join, Registry!Members, Members
    <2> QED
      BY <1>1, <1>5, <2>1, <2>3 DEF RegistryStep, Registry!Next, Registry!Members, Members
  <1> QED
    BY <1>6, <1>7

LEMMA ReturnRegisters ==
    ASSUME Inv, RegistryInv, NEW t \in Handlers, pc[t] = "commit", op[t] = "return", CommitReturn(t)
    PROVE  RegistryStep
  <1>1. Returning(t) /\ caller[t] \in People /\ HandlerOK(t) /\ ToReturn(t)
    BY DEF Inv, HandlerOK, Shape, Open, Joining, Returning, Inviting, Revoking, Removing, RegistryInv, Purpose
  <1>2. Registry!Uses(caller[t], held[t]) /\ held[t] \in SUBSET DOMAIN codes
    BY <1>1, ClosesOne DEF CommitReturn
  <1>3. users \in [Members -> UserRows] /\ codes \in [DOMAIN codes -> CodeRows] /\ caller[t] # Admin
    BY <1>1 DEF Inv, TypeOK, ToReturn
  <1>4. CASE caller[t] \in rows[t]
    <2>1. caller[t] \in Members
      BY <1>1, <1>4 DEF HandlerOK, RowLocks
    <2>2. users' = [users EXCEPT ![caller[t]].active = TRUE]
      BY <1>3, <1>4, <2>1 DEF CommitReturn, Members
    <2>3. Registry!Return(caller[t], held[t])
      BY <1>2, <1>3, <2>1, <2>2 DEF Registry!Return, Registry!Members, Members
    <2> QED
      BY <1>1, <1>2, <2>3 DEF RegistryStep, Registry!Next
  <1>5. CASE caller[t] \notin rows[t]
    <2>1. UNCHANGED users
      BY <1>3, <1>5 DEF CommitReturn, Members
    <2>2. CASE held[t] = {}
      BY <1>3, <2>1, <2>2 DEF CommitReturn, RegistryStep
    <2>3. CASE held[t] # {}
      <3>1. Registry!Return(caller[t], held[t])
        BY <1>1, <1>2, <1>3, <2>1, <2>3 DEF ToReturn, Registry!Return, Registry!Members, Members
      <3> QED
        BY <1>1, <1>2, <3>1 DEF RegistryStep, Registry!Next
    <2> QED
      BY <2>2, <2>3
  <1> QED
    BY <1>4, <1>5

LEMMA InviteRegisters ==
    ASSUME Inv, RegistryInv, NEW t \in Handlers, pc[t] = "commit", op[t] = "invite", CommitInvite(t)
    PROVE  RegistryStep
  <1>1. Inviting(t) /\ caller[t] \in People /\ HandlerOK(t) /\ ToInvite(t)
    BY DEF Inv, HandlerOK, Shape, Open, Joining, Returning, Inviting, Revoking, Removing, RegistryInv, Purpose
  <1>2. code[t] \notin DOMAIN codes /\ caller[t] \in Members /\ code[t] \in Codes
    BY <1>1 DEF HandlerOK, NewCode, Drawn, Inviting
  <1>3. /\ inv[t] = [by |-> caller[t], role |-> inv[t].role, used |-> FALSE, usedBy |-> None]
        /\ inv[t].role \in {"l1", "l2"}
    BY <1>1 DEF Inviting, ToInvite, CodeRows, Roles
  <1>4. inv[t].role = "l1" => caller[t] = Admin
    BY <1>1 DEF HandlerOK, RolesOf, Inviting
  <1> DEFINE r == inv[t].role
  <1>5. codes' = [d \in DOMAIN codes \cup {code[t]} |->
                    IF d = code[t] THEN [by |-> caller[t], role |-> r, used |-> FALSE, usedBy |-> None]
                    ELSE codes[d]]
    BY <1>3 DEF CommitInvite
  <1>6. r \in {"l1", "l2"} /\ (r = "l1" => caller[t] = Admin)
    BY <1>3, <1>4
  <1> HIDE DEF r
  <1>7. Registry!Invite(caller[t], r, code[t])
    BY <1>2, <1>5, <1>6 DEF CommitInvite, Registry!Invite, Registry!Members, Members
  <1> QED
    BY <1>1, <1>2, <1>6, <1>7 DEF RegistryStep, Registry!Next

LEMMA RevokeRegisters ==
    ASSUME Inv, RegistryInv, NEW t \in Handlers, pc[t] = "commit", op[t] = "revoke", CommitRevoke(t)
    PROVE  RegistryStep
  <1>1. ToRevoke(t) /\ HandlerOK(t) /\ users \in [Members -> UserRows] /\ Members \subseteq People
    BY DEF Inv, TypeOK, RegistryInv, Purpose
  <1>2. CASE ids[t] = {}
    BY <1>1, <1>2 DEF CommitRevoke, RegistryStep
  <1>3. CASE ids[t] # {}
    <2>1. PICK u \in ids[t] : TRUE
      BY <1>3
    <2>2. ids[t] = {u} /\ u # Admin /\ u \in Members
      BY <1>1, <2>1 DEF ToRevoke, HandlerOK, RowLocks
    <2>3. users' = [users EXCEPT ![u].active = FALSE]
      BY <1>1, <2>2 DEF CommitRevoke, Members
    <2>4. Registry!ShutOut(u)
      BY <2>2, <2>3 DEF CommitRevoke, Registry!ShutOut, Registry!Members, Members
    <2> QED
      BY <1>1, <2>2, <2>4 DEF RegistryStep, Registry!Next
  <1> QED
    BY <1>2, <1>3

LEMMA DeleteRegisters ==
    ASSUME Inv, RegistryInv, NEW t \in Handlers, pc[t] = "commit", op[t] = "delete", CommitDelete(t)
    PROVE  RegistryStep
  <1>1. /\ ids[t] \subseteq Members /\ Admin \notin ids[t] /\ None \notin ids[t]
        /\ \A p \in Members \ ids[t] : users[p].by \notin ids[t]
        /\ \A c \in DOMAIN codes \ held[t] : codes[c].by \notin ids[t] /\ codes[c].usedBy \notin ids[t]
        /\ \A c \in held[t] : codes[c].by \in ids[t] \/ codes[c].usedBy \in ids[t]
    BY PeopleAssumption
       DEF Inv, TypeOK, HandlerOK, RowLocks, DeletionReady, Gone, RegistryInv, Purpose, ToDelete
  <1>2. users' = [p \in Members \ ids[t] |-> users[p]]
    BY DEF CommitDelete
  <1> DEFINE kept == {c \in DOMAIN codes : c \in held[t] => codes[c].by \notin ids[t]}
             left == {c \in DOMAIN codes : codes[c].by \notin ids[t]}
  <1>3. kept = left
    BY <1>1
  <1>4. codes' = [c \in kept |-> IF c \in held[t] THEN [codes[c] EXCEPT !.usedBy = None] ELSE codes[c]]
    BY DEF CommitDelete
  <1>5. \A c \in left : c \in held[t] <=> codes[c].usedBy \in ids[t]
    BY <1>1
  <1>6. codes' = [c \in left |->
                    IF codes[c].usedBy \in ids[t] THEN [codes[c] EXCEPT !.usedBy = None] ELSE codes[c]]
    BY <1>3, <1>4, <1>5
  <1>7. Registry!Remove(ids[t])
    BY <1>1, <1>2, <1>6 DEF Registry!Remove, Registry!Members, Members
  <1> QED
    BY <1>1, <1>7 DEF RegistryStep, Registry!Next, Registry!Members, Members

LEMMA CommitRegisters ==
    ASSUME Inv, RegistryInv, NEW t \in Handlers, Commit(t)
    PROVE  RegistryStep
  BY JoinRegisters, ReturnRegisters, InviteRegisters, RevokeRegisters, DeleteRegisters DEF Commit

\* What the registry keeps, whoever implements it.
RegistryTyped ==
    /\ Members \subseteq People /\ users \in [Members -> UserRows]
    /\ DOMAIN codes \subseteq Codes /\ codes \in [DOMAIN codes -> CodeRows]
Kept == RegistryTyped /\ References /\ InviterForest /\ L1ByAdmin

\* Using codes changes neither whose they are nor their roles.
LEMMA UsesKeepCodes ==
    ASSUME RegistryTyped, NEW p \in People, NEW S, Registry!Uses(p, S)
    PROVE  /\ DOMAIN codes' = DOMAIN codes
           /\ \A c \in DOMAIN codes :
                 /\ codes'[c] \in CodeRows
                 /\ codes'[c].by = codes[c].by /\ codes'[c].role = codes[c].role
                 /\ codes'[c].usedBy \in {codes[c].usedBy, p}
                 /\ codes[c].used = TRUE => codes'[c].used = TRUE
  <1>1. ASSUME NEW c \in DOMAIN codes
        PROVE  /\ codes'[c] \in CodeRows
               /\ codes'[c].by = codes[c].by /\ codes'[c].role = codes[c].role
               /\ codes'[c].usedBy \in {codes[c].usedBy, p}
               /\ codes[c].used = TRUE => codes'[c].used = TRUE
    <2>1. codes[c] \in CodeRows
      BY DEF RegistryTyped
    <2>2. codes'[c] = [codes[c] EXCEPT !.used = TRUE, !.usedBy = p] \/ codes'[c] = codes[c]
      BY DEF Registry!Uses
    <2> QED
      BY <2>1, <2>2 DEF CodeRows
  <1> QED
    BY <1>1 DEF Registry!Uses

LEMMA AdmitAdds ==
    ASSUME NEW p, NEW r, NEW i, Registry!Admit(p, r, i)
    PROVE  /\ p \notin Members /\ Members' = Members \cup {p}
           /\ users'[p] = [role |-> r, by |-> i, active |-> TRUE]
           /\ \A q \in Members : users'[q] = users[q]
  BY DEF Registry!Admit, Registry!Members, Members

LEMMA JoinKept ==
    ASSUME Kept, NEW p \in People, NEW r \in Roles, NEW i, NEW S,
           Registry!Admit(p, r, i), i \in Members \cup {None},
           i = None <=> p = Admin, r = "admin" <=> p = Admin, r = "l1" => i = Admin,
           Registry!Uses(p, S) \/ UNCHANGED codes
    PROVE  Kept'
  <1> DEFINE new == [role |-> r, by |-> i, active |-> TRUE]
  <1>1. /\ p \notin Members /\ Members' = Members \cup {p} /\ users'[p] = new
        /\ \A q \in Members : users'[q] = users[q]
    BY AdmitAdds
  <1>2. new.by = i /\ new.role = r /\ new.active = TRUE
    OBVIOUS
  <1>3. i \in People \cup {None} /\ RegistryTyped
    BY DEF Kept, RegistryTyped
  <1>4. new \in UserRows
    BY <1>3 DEF UserRows
  <1>5. DOMAIN users' = Members \cup {p} /\ users' = [q \in Members \cup {p} |-> users'[q]]
    BY DEF Registry!Admit, Registry!Members, Members
  <1> HIDE DEF new
  <1>6. /\ DOMAIN codes' = DOMAIN codes /\ codes' = [c \in DOMAIN codes |-> codes'[c]]
        /\ \A c \in DOMAIN codes :
              /\ codes'[c] \in CodeRows
              /\ codes'[c].by = codes[c].by /\ codes'[c].role = codes[c].role
              /\ codes'[c].usedBy \in {codes[c].usedBy, p}
    BY <1>3, UsesKeepCodes DEF RegistryTyped, Registry!Uses
  <1>7. RegistryTyped'
    <2>1. \A q \in Members' : users'[q] \in UserRows
      BY <1>1, <1>3, <1>4 DEF RegistryTyped
    <2> QED
      BY <1>1, <1>3, <1>5, <1>6, <2>1 DEF RegistryTyped
  <1>8. References'
    <2>1. References
      BY DEF Kept
    <2>2. \A q \in Members' :
             /\ users'[q].by = None <=> q = Admin
             /\ users'[q].role = "admin" <=> q = Admin
             /\ q = Admin => users'[q].active = TRUE
      BY <1>1, <1>2, <2>1 DEF References
    <2>3. \A c \in DOMAIN codes' : codes'[c].by \in Members' /\ codes'[c].usedBy \in Members' \cup {None}
      BY <1>1, <1>6, <2>1 DEF References
    <2> QED
      BY <2>2, <2>3 DEF References
  <1>9. InviterForest'
    <2>1. users'[p].by \in Members \cup {None} /\ p \in People \ Members
      BY <1>1, <1>2
    <2> QED
      BY <1>1, <1>3, <2>1, ForestGrows DEF Kept, RegistryTyped
  <1>10. L1ByAdmin'
    BY <1>1, <1>2, <1>6 DEF Kept, L1ByAdmin
  <1> QED
    BY <1>7, <1>8, <1>9, <1>10 DEF Kept

\* Operations that add and remove no user, and change no inviter and no role.
LEMMA SameMembersKept ==
    ASSUME Kept, Members' = Members, users' = [q \in Members |-> users'[q]],
           \A q \in Members :
              /\ users'[q] \in UserRows
              /\ users'[q].by = users[q].by /\ users'[q].role = users[q].role
              /\ q = Admin => users'[q].active = users[q].active,
           DOMAIN codes' \subseteq Codes, codes' = [c \in DOMAIN codes' |-> codes'[c]],
           \A c \in DOMAIN codes' :
              /\ codes'[c] \in CodeRows
              /\ codes'[c].by \in Members /\ codes'[c].usedBy \in Members \cup {None}
              /\ codes'[c].role = "l1" => codes'[c].by = Admin
    PROVE  Kept'
  <1>1. RegistryTyped'
    BY DEF Kept, RegistryTyped
  <1>2. References'
    BY DEF Kept, References
  <1>3. InviterForest'
    BY DEF Kept, InviterForest
  <1>4. L1ByAdmin'
    BY DEF Kept, L1ByAdmin
  <1> QED
    BY <1>1, <1>2, <1>3, <1>4 DEF Kept

LEMMA CodesKept ==
    ASSUME Kept
    PROVE  \A c \in DOMAIN codes :
              /\ codes[c] \in CodeRows /\ c \in Codes
              /\ codes[c].by \in Members /\ codes[c].usedBy \in Members \cup {None}
              /\ codes[c].role = "l1" => codes[c].by = Admin
  BY DEF Kept, RegistryTyped, References, L1ByAdmin

\* An update of a field of one user is an update of one row.
LEMMA ActiveWritten ==
    ASSUME RegistryTyped, NEW p \in Members \ {Admin}, NEW b \in BOOLEAN,
           users' = [users EXCEPT ![p].active = b] \/ UNCHANGED users
    PROVE  /\ Members' = Members /\ users' = [q \in Members |-> users'[q]]
           /\ \A q \in Members :
                 /\ users'[q] \in UserRows
                 /\ users'[q].by = users[q].by /\ users'[q].role = users[q].role
                 /\ q = Admin => users'[q].active = users[q].active
  <1>1. Members' = Members /\ users' = [q \in Members |-> users'[q]]
    BY DEF RegistryTyped, Members
  <1>2. ASSUME NEW q \in Members
        PROVE  /\ users'[q] \in UserRows
               /\ users'[q].by = users[q].by /\ users'[q].role = users[q].role
               /\ q # p => users'[q] = users[q]
    <2>1. users[q] \in UserRows
      BY DEF RegistryTyped
    <2>2. users'[q] = [users[q] EXCEPT !.active = b] \/ users'[q] = users[q]
      BY DEF Members
    <2>3. q # p => users'[q] = users[q]
      BY DEF Members
    <2> QED
      BY <2>1, <2>2, <2>3 DEF UserRows
  <1> QED
    BY <1>1, <1>2

LEMMA ReturnKept ==
    ASSUME Kept, NEW p \in People, NEW S, Registry!Return(p, S)
    PROVE  Kept'
  <1>1. p \in Members \ {Admin} /\ RegistryTyped
    BY DEF Registry!Return, Registry!Members, Members, Kept
  <1>2. /\ Members' = Members /\ users' = [q \in Members |-> users'[q]]
        /\ \A q \in Members :
              /\ users'[q] \in UserRows
              /\ users'[q].by = users[q].by /\ users'[q].role = users[q].role
              /\ q = Admin => users'[q].active = users[q].active
    BY <1>1, ActiveWritten DEF Registry!Return
  <1>3. /\ DOMAIN codes' = DOMAIN codes
        /\ \A c \in DOMAIN codes :
              /\ codes'[c] \in CodeRows
              /\ codes'[c].by = codes[c].by /\ codes'[c].role = codes[c].role
              /\ codes'[c].usedBy \in {codes[c].usedBy, p}
    BY <1>1, UsesKeepCodes DEF Registry!Return
  <1>4. codes' = [c \in DOMAIN codes' |-> codes'[c]]
    BY DEF Registry!Return, Registry!Uses
  <1>5. \A c \in DOMAIN codes' :
              /\ codes'[c] \in CodeRows /\ c \in Codes
              /\ codes'[c].by \in Members /\ codes'[c].usedBy \in Members \cup {None}
              /\ codes'[c].role = "l1" => codes'[c].by = Admin
    BY <1>1, <1>3, CodesKept
  <1>6. DOMAIN codes' \subseteq Codes
    BY <1>5
  <1> QED
    BY <1>2, <1>4, <1>5, <1>6, SameMembersKept

LEMMA InviteKept ==
    ASSUME Kept, NEW p \in People, NEW r \in {"l1", "l2"}, NEW c \in Codes, Registry!Invite(p, r, c)
    PROVE  Kept'
  <1> DEFINE new == [by |-> p, role |-> r, used |-> FALSE, usedBy |-> None]
  <1>1. /\ p \in Members /\ (r = "l1" => p = Admin) /\ UNCHANGED users
        /\ codes' = [d \in DOMAIN codes \cup {c} |-> IF d = c THEN new ELSE codes[d]]
    BY DEF Registry!Invite, Registry!Members, Members
  <1>2. new \in CodeRows /\ new.by = p /\ new.role = r /\ new.usedBy = None
    BY DEF CodeRows, Roles
  <1> HIDE DEF new
  <1>3. /\ Members' = Members /\ users' = [q \in Members |-> users'[q]]
        /\ \A q \in Members :
              /\ users'[q] \in UserRows
              /\ users'[q].by = users[q].by /\ users'[q].role = users[q].role
              /\ q = Admin => users'[q].active = users[q].active
    BY <1>1 DEF Members, Kept, RegistryTyped
  <1>4. \A d \in DOMAIN codes' :
              /\ codes'[d] \in CodeRows /\ d \in Codes
              /\ codes'[d].by \in Members /\ codes'[d].usedBy \in Members \cup {None}
              /\ codes'[d].role = "l1" => codes'[d].by = Admin
    BY <1>1, <1>2, CodesKept
  <1>5. DOMAIN codes' \subseteq Codes /\ codes' = [d \in DOMAIN codes' |-> codes'[d]]
    BY <1>1, <1>4
  <1> QED
    BY <1>3, <1>4, <1>5, SameMembersKept

LEMMA ShutOutKept ==
    ASSUME Kept, NEW p \in People, Registry!ShutOut(p)
    PROVE  Kept'
  <1>1. /\ p \in Members \ {Admin} /\ RegistryTyped /\ UNCHANGED codes
        /\ users' = [users EXCEPT ![p].active = FALSE]
    BY DEF Registry!ShutOut, Registry!Members, Members, Kept
  <1>2. /\ Members' = Members /\ users' = [q \in Members |-> users'[q]]
        /\ \A q \in Members :
              /\ users'[q] \in UserRows
              /\ users'[q].by = users[q].by /\ users'[q].role = users[q].role
              /\ q = Admin => users'[q].active = users[q].active
    BY <1>1, ActiveWritten
  <1>3. DOMAIN codes' \subseteq Codes /\ codes' = [c \in DOMAIN codes' |-> codes'[c]]
    BY <1>1 DEF RegistryTyped
  <1> QED
    BY <1>1, <1>2, <1>3, CodesKept, SameMembersKept

LEMMA RemoveKept ==
    ASSUME Kept, NEW D \in SUBSET Members, Registry!Remove(D)
    PROVE  /\ Kept'
           /\ DOMAIN codes' \subseteq DOMAIN codes
           /\ \A c \in DOMAIN codes' : codes'[c].used = codes[c].used
  <1> DEFINE left == {c \in DOMAIN codes : codes[c].by \notin D}
  <1>0. RegistryTyped /\ References
    BY DEF Kept
  <1>1. /\ Admin \notin D /\ \A p \in Members \ D : users[p].by \notin D
        /\ users' = [p \in Members \ D |-> users[p]]
        /\ codes' = [c \in left |->
                       IF codes[c].usedBy \in D THEN [codes[c] EXCEPT !.usedBy = None] ELSE codes[c]]
    BY DEF Registry!Remove, Registry!Members, Members
  <1>2. Members' = Members \ D /\ \A p \in Members' : users'[p] = users[p]
    BY <1>1 DEF Members
  <1>3. \A c \in left :
           /\ codes'[c] \in CodeRows /\ codes'[c].by = codes[c].by /\ codes'[c].role = codes[c].role
           /\ codes'[c].used = codes[c].used
           /\ codes'[c].usedBy \in Members' \cup {None}
           /\ codes[c].by \in Members' /\ c \in DOMAIN codes
    <2> SUFFICES ASSUME NEW c \in left
                 PROVE  /\ codes'[c] \in CodeRows /\ codes'[c].by = codes[c].by
                        /\ codes'[c].role = codes[c].role /\ codes'[c].used = codes[c].used
                        /\ codes'[c].usedBy \in Members' \cup {None}
                        /\ codes[c].by \in Members' /\ c \in DOMAIN codes
      OBVIOUS
    <2>1. codes[c] \in CodeRows /\ codes[c].by \in Members' /\ codes[c].usedBy \in Members \cup {None}
      BY <1>0, <1>2 DEF RegistryTyped, References
    <2>2. CASE codes[c].usedBy \in D
      <3>1. codes'[c] = [codes[c] EXCEPT !.usedBy = None]
        BY <1>1, <2>2
      <3> QED
        BY <2>1, <3>1 DEF CodeRows
    <2>3. CASE codes[c].usedBy \notin D
      <3>1. codes'[c] = codes[c]
        BY <1>1, <2>3
      <3> QED
        BY <1>2, <2>1, <2>3, <3>1
    <2> QED
      BY <2>2, <2>3
  <1>4. DOMAIN codes' = left /\ left \subseteq DOMAIN codes
    BY <1>1
  <1>5. RegistryTyped'
    <2>1. Members' \subseteq People /\ users' \in [Members' -> UserRows]
      BY <1>0, <1>1, <1>2 DEF RegistryTyped
    <2>2. DOMAIN codes' \subseteq Codes /\ codes' \in [DOMAIN codes' -> CodeRows]
      BY <1>0, <1>1, <1>3, <1>4 DEF RegistryTyped
    <2> QED
      BY <2>1, <2>2 DEF RegistryTyped
  <1> HIDE DEF left
  <1>6. References'
    BY <1>0, <1>2, <1>3, <1>4 DEF References
  <1>7. InviterForest'
    BY <1>1, <1>2, ForestShrinks DEF Kept
  <1>8. L1ByAdmin'
    BY <1>2, <1>3, <1>4 DEF Kept, L1ByAdmin
  <1> QED
    BY <1>3, <1>4, <1>5, <1>6, <1>7, <1>8 DEF Kept

LEMMA RegistryKeeps ==
    ASSUME Kept, RegistryStep
    PROVE  Kept'
  <1>1. CASE UNCHANGED <<users, codes>>
    BY <1>1 DEF Kept, RegistryTyped, References, InviterForest, L1ByAdmin, Members
  <1>2. CASE Registry!Found
    BY <1>2, JoinKept, PeopleAssumption DEF Registry!Found, Roles
  <1>3. ASSUME NEW p \in People, NEW S \in SUBSET DOMAIN codes, Registry!Return(p, S)
        PROVE  Kept'
    BY <1>3, ReturnKept
  <1>4. ASSUME NEW p \in People, NEW S \in SUBSET DOMAIN codes, NEW r \in {"l1", "l2"},
               NEW i \in Members, Registry!Join(p, r, i, S)
        PROVE  Kept'
    <2>1. i # None /\ r \in Roles /\ r # "admin"
      BY <1>4, PeopleAssumption DEF Kept, RegistryTyped, Roles
    <2> QED
      BY <1>4, <2>1, JoinKept DEF Registry!Join
  <1>5. ASSUME NEW p \in People, NEW r \in {"l1", "l2"}, NEW c \in Codes, Registry!Invite(p, r, c)
        PROVE  Kept'
    BY <1>5, InviteKept
  <1>6. ASSUME NEW p \in People, Registry!ShutOut(p)
        PROVE  Kept'
    BY <1>6, ShutOutKept
  <1>7. ASSUME NEW D \in SUBSET Members, Registry!Remove(D)
        PROVE  Kept'
    BY <1>7, RemoveKept
  <1> QED
    BY <1>1, <1>2, <1>3, <1>4, <1>5, <1>6, <1>7
       DEF RegistryStep, Registry!Next, Registry!Members, Members

LEMMA RegistryInvNext == Inv /\ RegistryInv /\ [Next]_vars => RegistryInv' /\ RegistryStep
  <1> SUFFICES ASSUME Inv, RegistryInv, [Next]_vars
               PROVE  RegistryInv' /\ RegistryStep
    OBVIOUS
  <1>1. ASSUME UNCHANGED tables, RegistryInv'
        PROVE  RegistryInv' /\ RegistryStep
    BY <1>1 DEF RegistryStep, tables
  <1>2. CASE UNCHANGED vars
    <2>1. UNCHANGED tables
      BY <1>2 DEF vars, tables
    <2>2. RegistryInv'
      BY <1>2 DEF vars, RegistryInv, References, Members, Purpose, ToJoin, ToReturn, ToInvite, ToRevoke, ToDelete
    <2> QED
      BY <1>1, <2>1, <2>2
  <1>3. ASSUME NEW t \in Handlers, Profile(t) \/ \E p \in People : Arrive(t, p)
        PROVE  RegistryInv' /\ UNCHANGED tables
    BY <1>3, ArrivePurpose DEF Profile, Arrive
  <1>4. ASSUME NEW t \in Handlers, Answered(t) \/ HandlerRaises(t)
        PROVE  RegistryInv' /\ UNCHANGED tables
    BY <1>4, EndsPurpose DEF Answered, HandlerRaises, Refused
  <1>5. ASSUME NEW t \in Handlers, Start(t)
        PROVE  RegistryInv' /\ UNCHANGED tables
    <2>1. RegistryInv'
      BY <1>5, StartAdminPurpose, WritesPurpose, MarkUsedPurpose, StartWithCodePurpose DEF Start
    <2> QED
      BY <1>5, <2>1 DEF Start, StartAdmin, StartWithCode, CreateUser, Reactivate, MarkUsed, Refused
  <1>6. ASSUME NEW t \in Handlers, Invitation(t)
        PROVE  RegistryInv' /\ UNCHANGED tables
    <2>1. ASSUME NEW c \in Codes, NEW r \in {"l1", "l2"}, GenerateAndSend(t, c, r)
          PROVE  RegistryInv' /\ UNCHANGED tables
      BY <2>1, GeneratePurpose DEF GenerateAndSend
    <2>2. CASE CreateInvitation(t)
      BY <2>2, WritesPurpose DEF CreateInvitation, Refused
    <2> QED
      BY <1>6, <2>1, <2>2 DEF Invitation, CmdInvite, InviteRoleCallback
  <1>7. ASSUME NEW t \in Handlers, Removal(t)
        PROVE  RegistryInv' /\ UNCHANGED tables
    <2>1. RegistryInv'
      BY <1>7, FriendsRevokePurpose, DeleteConfirmPurpose, DeactivateUserPurpose, CodesTakenPurpose,
         WritesPurpose, DeleteUsersPurpose DEF Removal
    <2> QED
      BY <1>7, <2>1 DEF Removal, FriendsRevokeConfirm, DeleteConfirm, DeactivateUser, DeleteCodes, DetachCodes,
                        NullifyInviters, DeleteUsers, Refused
  <1>8. ASSUME NEW t \in Handlers, Commit(t)
        PROVE  RegistryInv' /\ RegistryStep
    <2>1. RegistryStep /\ \A s \in Handlers : Purpose(s)'
      BY <1>8, CommitRegisters, CommitPurposes
    <2>2. Kept
      BY DEF Kept, RegistryTyped, Inv, TypeOK, RegistryInv
    <2>3. References'
      BY <2>1, <2>2, RegistryKeeps DEF Kept
    <2> QED
      BY <2>1, <2>3 DEF RegistryInv
  <1> QED
    BY <1>1, <1>2, <1>3, <1>4, <1>5, <1>6, <1>7, <1>8 DEF Next

LEMMA RegistryInvInit == Init => RegistryInv /\ Registry!Init
  <1> SUFFICES ASSUME Init
               PROVE  RegistryInv /\ Registry!Init
    OBVIOUS
  <1>1. Members = {} /\ DOMAIN codes = {} /\ \A t \in Handlers : op[t] = "none"
    BY DEF Init, Members
  <1>2. References /\ \A t \in Handlers : Purpose(t)
    BY <1>1 DEF References, Purpose, ToJoin, ToReturn, ToInvite, ToRevoke, ToDelete
  <1> QED
    BY <1>2 DEF Init, Registry!Init, RegistryInv

\* Statements of start.py, invite.py and users.py that interleave in any way, on
\* any number of updates, change the tables by whole operations on users who are
\* there: what each transaction commits is one step of MemberRegistry.
THEOREM RegistryKept == Spec => KeepsRegistry
  <1>1. Init => Inv /\ RegistryInv /\ Registry!Init
    BY InitInv, RegistryInvInit
  <1>2. (Inv /\ RegistryInv) /\ [Next]_vars => (Inv /\ RegistryInv)' /\ [Registry!Next]_<<users, codes>>
    BY NextInv, RegistryInvNext DEF RegistryStep
  <1> QED
    BY <1>1, <1>2, PTL DEF Spec, KeepsRegistry, Registry!Spec

\* The admin is a member before anybody else, and everybody is below the admin.
OneTree == Members # {} => Admin \in Members /\ \A p \in Members : p \in Tree(Admin)

LEMMA RootedForest ==
    ASSUME Members \subseteq People, References, InviterForest
    PROVE  OneTree
  <1>1. \A q \in Members : users[q].by \in Members \/ q = Admin
    BY DEF References, InviterForest
  <1>2. Members # {} => Admin \in Members
    <2> SUFFICES ASSUME Members # {}
                 PROVE  Admin \in Members
      OBVIOUS
    <2>1. PICK q \in Members : users[q].by \notin Members
      BY DEF InviterForest
    <2> QED
      BY <1>1, <2>1
  <1>3. ASSUME NEW p \in Members, NEW S \in SUBSET Members, Admin \in S,
               \A q \in Members : users[q].by \in S => q \in S
        PROVE  p \in S
    <2> SUFFICES ASSUME p \notin S
                 PROVE  FALSE
      OBVIOUS
    <2>1. Members \ S \in (SUBSET Members) \ {{}}
      OBVIOUS
    <2>2. PICK q \in Members \ S : users[q].by \notin Members \ S
      BY <2>1 DEF InviterForest
    <2> QED
      BY <1>1, <1>3, <2>2
  <1> QED
    BY <1>2, <1>3 DEF OneTree, Tree

\* Whatever invitations, returns and deletions overlap, the users are one tree with
\* the admin at its root, which is what _build_tree_text shows them as.
THEOREM EverybodyBelowTheAdmin == Spec => []OneTree
  <1>1. Init => Inv /\ RegistryInv
    BY InitInv, RegistryInvInit
  <1>2. (Inv /\ RegistryInv) /\ [Next]_vars => (Inv /\ RegistryInv)'
    BY NextInv, RegistryInvNext
  <1>3. Inv /\ RegistryInv => OneTree
    BY RootedForest DEF Inv, TypeOK, RegistryInv
  <1> QED
    BY <1>1, <1>2, <1>3, PTL DEF Spec

\* Inviter and role are for as long as the user is there, and a code that was
\* used is never open again.
Lasting ==
    /\ \A p \in Members : p \in Members' => users'[p].by = users[p].by /\ users'[p].role = users[p].role
    /\ \A c \in DOMAIN codes : c \in DOMAIN codes' /\ codes[c].used = TRUE => codes'[c].used = TRUE

LEMMA RegistryLasts ==
    ASSUME Kept, RegistryStep
    PROVE  Lasting
  <1>0. RegistryTyped
    BY DEF Kept
  <1>1. CASE UNCHANGED <<users, codes>>
    BY <1>1 DEF Lasting
  <1>2. CASE Registry!Found
    BY <1>2, AdmitAdds DEF Registry!Found, Lasting
  <1>3. ASSUME NEW p \in People, NEW S \in SUBSET DOMAIN codes, Registry!Return(p, S)
        PROVE  Lasting
    <2>1. p \in Members \ {Admin} /\ (users' = [users EXCEPT ![p].active = TRUE] \/ UNCHANGED users)
      BY <1>3 DEF Registry!Return, Registry!Members, Members
    <2>2. \A q \in Members : users'[q].by = users[q].by /\ users'[q].role = users[q].role
      BY <1>0, <2>1, ActiveWritten
    <2>3. \A c \in DOMAIN codes : codes[c].used = TRUE => codes'[c].used = TRUE
      BY <1>0, <1>3, UsesKeepCodes DEF Registry!Return
    <2> QED
      BY <2>2, <2>3 DEF Lasting
  <1>4. ASSUME NEW p \in People, NEW S \in SUBSET DOMAIN codes, NEW r \in {"l1", "l2"},
               NEW i \in Members, Registry!Join(p, r, i, S)
        PROVE  Lasting
    <2>1. \A q \in Members : users'[q] = users[q]
      BY <1>4, AdmitAdds DEF Registry!Join
    <2>2. \A c \in DOMAIN codes : codes[c].used = TRUE => codes'[c].used = TRUE
      BY <1>0, <1>4, UsesKeepCodes DEF Registry!Join
    <2> QED
      BY <2>1, <2>2 DEF Lasting
  <1>5. ASSUME NEW p \in People, NEW r \in {"l1", "l2"}, NEW c \in Codes, Registry!Invite(p, r, c)
        PROVE  Lasting
    <2>1. UNCHANGED users /\ \A d \in DOMAIN codes : codes'[d] = codes[d]
      BY <1>5 DEF Registry!Invite
    <2> QED
      BY <2>1 DEF Lasting
  <1>6. ASSUME NEW p \in People, Registry!ShutOut(p)
        PROVE  Lasting
    <2>1. p \in Members \ {Admin} /\ users' = [users EXCEPT ![p].active = FALSE] /\ UNCHANGED codes
      BY <1>6 DEF Registry!ShutOut, Registry!Members, Members
    <2>2. \A q \in Members : users'[q].by = users[q].by /\ users'[q].role = users[q].role
      BY <1>0, <2>1, ActiveWritten
    <2> QED
      BY <2>1, <2>2 DEF Lasting
  <1>7. ASSUME NEW D \in SUBSET Members, Registry!Remove(D)
        PROVE  Lasting
    <2>1. \A p \in Members' : users'[p] = users[p]
      BY <1>7 DEF Registry!Remove, Registry!Members, Members
    <2>2. \A c \in DOMAIN codes' : codes'[c].used = codes[c].used
      BY <1>7, RemoveKept
    <2> QED
      BY <2>1, <2>2 DEF Lasting
  <1> QED
    BY <1>1, <1>2, <1>3, <1>4, <1>5, <1>6, <1>7
       DEF RegistryStep, Registry!Next, Registry!Members, Members

\* What a reader of the two tables may rely on, from MemberRegistry alone.
THEOREM RegistryPromises ==
    Registry!Spec => [](References /\ InviterForest /\ L1ByAdmin /\ OneTree) /\ [][Lasting]_<<users, codes>>
  <1>1. Registry!Init => Kept
    <2> SUFFICES ASSUME Registry!Init
                 PROVE  Kept
      OBVIOUS
    <2>1. Members = {} /\ DOMAIN codes = {}
      BY DEF Registry!Init, Members
    <2>2. \A S \in (SUBSET Members) \ {{}} : FALSE
      BY <2>1
    <2>3. References /\ InviterForest /\ L1ByAdmin
      BY <2>1, <2>2 DEF References, InviterForest, L1ByAdmin
    <2>4. RegistryTyped
      BY <2>1 DEF RegistryTyped, Registry!Init
    <2> QED
      BY <2>3, <2>4 DEF Kept
  <1>2. Kept /\ [Registry!Next]_<<users, codes>> => Kept' /\ [Lasting]_<<users, codes>>
    BY RegistryKeeps, RegistryLasts DEF RegistryStep
  <1>3. Kept => References /\ InviterForest /\ L1ByAdmin /\ OneTree
    BY RootedForest DEF Kept, RegistryTyped
  <1> QED
    BY <1>1, <1>2, <1>3, PTL DEF Registry!Spec
=============================================================================
