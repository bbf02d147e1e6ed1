--------------------------- MODULE KeySync_proofs ---------------------------
(***************************************************************************)
(* Theorems of KeySync for any users, keys, relays and handlers: its types, *)
(* what the transactions of the handlers guarantee about the rows of keys   *)
(* and users, and why an active key is on every Xray server as long as      *)
(* nothing fails.                                                           *)
(***************************************************************************)
EXTENDS KeySync, SequenceLemmas

\* TypeOK, strengthened: a task with calls left is at a fan-out or a POST loop,
\* so what it does after the last one is defined, and a fan-out is about a key; a
\* call is late only after a failure.
TypeInv ==
    /\ TypeOK
    /\ late # {} => faults # MaxFaults
    /\ \A t \in Tasks : calls[t] # {} => pc[t] \in CallPoints
    /\ \A t \in Tasks : pc[t] \in CallPoints \ {"push"} => cur[t] # None

-----------------------------------------------------------------------------
(* Type correctness.                                                        *)

\* Goto moves one task and gives it the calls of its new point.
LEMMA GotoType ==
    ASSUME TypeInv, NEW t \in Tasks, NEW p \in Points, Goto(t, p)
    PROVE  /\ pc' \in [Tasks -> Points]
           /\ calls' \in [Tasks -> SUBSET (XrayEndpoints \cup HysteriaEndpoints)]
           /\ \A s \in Tasks : calls'[s] # {} => pc'[s] \in CallPoints
           /\ \A s \in Tasks : pc'[s] = IF s = t THEN p ELSE pc[s]
  BY DEF TypeInv, TypeOK, Goto, CallPoints

\* Finish leaves the locals of every task well typed.
LEMMA FinishType ==
    ASSUME TypeInv, NEW t \in Tasks, Finish(t)
    PROVE  /\ pc' \in [Tasks -> Points]
           /\ op' \in [Tasks -> Ops]
           /\ caller' \in [Tasks -> Users \cup {None}]
           /\ keys' \in [Tasks -> SUBSET Keys]
           /\ who' \in [Tasks -> SUBSET Users]
           /\ left' \in [Tasks -> SUBSET Users]
           /\ todo' \in [Tasks -> SUBSET Keys]
           /\ cur' \in [Tasks -> Keys \cup {None}]
           /\ calls' \in [Tasks -> SUBSET (XrayEndpoints \cup HysteriaEndpoints)]
           /\ payload' \in [Tasks -> SUBSET Keys]
           /\ open' \in [Tasks -> BOOLEAN]
           /\ \A s \in Tasks : calls'[s] # {} => pc'[s] \in CallPoints
           /\ \A s \in Tasks : pc'[s] \in CallPoints \ {"push"} => cur'[s] # None
  BY DEF TypeInv, TypeOK, Finish, CallPoints, Points, Ops

\* A call that returns leaves the task well typed, the last one included.
LEMMA CallReturnsType ==
    ASSUME TypeInv, NEW t \in Tasks, NEW e, CallReturns(t, e)
    PROVE  /\ pc' \in [Tasks -> Points]
           /\ cur' \in [Tasks -> Keys \cup {None}]
           /\ calls' \in [Tasks -> SUBSET (XrayEndpoints \cup HysteriaEndpoints)]
           /\ payload' \in [Tasks -> SUBSET Keys]
           /\ \A s \in Tasks : calls'[s] # {} => pc'[s] \in CallPoints
           /\ \A s \in Tasks : pc'[s] \in CallPoints \ {"push"} => cur'[s] # None
  <1>1. pc[t] \in CallPoints
    BY DEF TypeInv, CallReturns
  <1>2. CASE calls[t] = {e}
    <2>1. /\ AfterCalls(t) \in Points
          /\ AfterCalls(t) \in {"add", "rm_current"} => pc[t] = "rm_legacy"
          /\ AfterCalls(t) # "rm_legacy"
      BY <1>1 DEF AfterCalls, CallPoints, Points
    <2>2. Goto(t, AfterCalls(t))
      BY <1>2 DEF CallReturns
    <2>3. cur' \in [Tasks -> Keys \cup {None}]
      BY <1>2 DEF CallReturns, TypeInv, TypeOK
    <2>4. ASSUME NEW s \in Tasks, pc'[s] \in CallPoints \ {"push"}
          PROVE  cur'[s] # None
      <3>1. pc'[s] = IF s = t THEN AfterCalls(t) ELSE pc[s]
        BY <2>1, <2>2, GotoType
      <3>2. CASE s = t
        BY <1>1, <1>2, <2>1, <2>4, <3>1, <3>2 DEF CallReturns, TypeInv, TypeOK, CallPoints
      <3>3. CASE s # t
        BY <1>2, <2>4, <3>1, <3>3 DEF CallReturns, TypeInv, TypeOK
      <3> QED
        BY <3>2, <3>3
    <2>5. payload' \in [Tasks -> SUBSET Keys]
      BY <1>2 DEF CallReturns, TypeInv, TypeOK
    <2> QED
      BY <2>1, <2>2, <2>3, <2>4, <2>5, GotoType
  <1>3. CASE calls[t] # {e}
    BY <1>1, <1>3 DEF CallReturns, TypeInv, TypeOK, CallPoints
  <1> QED
    BY <1>2, <1>3

\* The beginning of a handler keeps the type invariant.
LEMMA HandlerStartsType ==
    ASSUME TypeInv, NEW t \in Handlers, HandlerStarts(t)
    PROVE  TypeInv'
  <1> USE DEF db, relays, locals, loopState, world
  <1>0. t \in Tasks
    BY DEF Tasks
  <1>1. ASSUME NEW u \in Users, Arrive(t, u)
        PROVE  TypeInv'
    BY <1>0, <1>1, GotoType DEF Arrive, TypeInv, TypeOK, CallPoints, Points
  <1>2. ASSUME NEW k \in Keys, Issue(t, k)
        PROVE  TypeInv'
    BY <1>0, <1>2, GotoType, UserAssumption DEF Issue, TypeInv, TypeOK, CallPoints, Points, Ops
  <1>3. ASSUME NEW o \in Ops, NEW S \in SUBSET Keys, NEW U \in SUBSET Users,
               Revoke(t, o, S, U)
        PROVE  TypeInv'
    <2> DEFINE p == IF o = "delete" THEN "select" ELSE "update"
    <2>1. p \in Points \ CallPoints /\ Goto(t, p)
      BY <1>3 DEF Revoke, Points, CallPoints
    <2>2. left' \in [Tasks -> SUBSET Users]
      BY <1>3 DEF Revoke, TypeInv, TypeOK
    <2> HIDE DEF p
    <2> QED
      BY <1>0, <1>3, <2>1, <2>2, GotoType, SMTT(30) DEF Revoke, TypeInv, TypeOK, CallPoints
  <1>4. ASSUME NEW k \in Keys, SubDelete(t, k)
        PROVE  TypeInv'
    BY <1>3, <1>4 DEF SubDelete, Ops, Revocations
  <1>5. ASSUME NEW k \in Keys, AdminSubRevokeConfirm(t, k)
        PROVE  TypeInv'
    BY <1>3, <1>5 DEF AdminSubRevokeConfirm, Ops, Revocations
  <1>6. ASSUME NEW u \in Users, AdminSubRevokeAll(t, u)
        PROVE  TypeInv'
    BY <1>3, <1>6 DEF AdminSubRevokeAll, ActiveKeysOf, ActiveKeys, Ops, Revocations
  <1>7. ASSUME NEW u \in Users, DeleteConfirm(t, u)
        PROVE  TypeInv'
    <2> DEFINE U == {v \in Tree[u] : user[v] # "deleted"}
    <2>1. U \in SUBSET Users
      BY UserAssumption DEF DeleteConfirm, Deletable
    <2>2. Revoke(t, "delete", {}, U)
      BY <1>7 DEF DeleteConfirm
    <2> QED
      BY <1>3, <2>1, <2>2 DEF Ops, Revocations
  <1>8. ASSUME NEW u \in Users, FriendsRevokeConfirm(t, u)
        PROVE  TypeInv'
    BY <1>3, <1>8 DEF FriendsRevokeConfirm, ActiveKeysOf, ActiveKeys, Ops, Revocations
  <1> QED
    BY <1>1, <1>2, <1>4, <1>5, <1>6, <1>7, <1>8 DEF HandlerStarts

\* COMMIT leaves rows of keys and users well typed.
LEMMA PublishType ==
    ASSUME TypeInv, NEW t \in Tasks, Publish(t)
    PROVE  /\ row' \in [Keys -> {"none", "active", "revoked"}]
           /\ user' \in [Users -> {"active", "inactive", "deleted"}]
  BY DEF TypeInv, TypeOK, CallPoints, Publish

\* The statements, the commit and the end of a handler keep it.
LEMMA HandlerStepType ==
    ASSUME TypeInv, NEW t \in Handlers, HandlerStep(t)
    PROVE  TypeInv'
  <1> USE DEF db, relays, locals, loopState, world
  <1>0. t \in Tasks
    BY DEF Tasks
  <1>1. CASE IssueRefused(t)
    BY <1>0, <1>1, FinishType DEF IssueRefused, TypeInv, TypeOK, CallPoints
  <1>2. CASE Deactivate(t)
    <2> DEFINE p == IF op[t] = "friend" THEN "users" ELSE IF op[t] = "delete" THEN NextOfTree(t) ELSE "loop"
    <2>1. p \in Points \ CallPoints /\ Goto(t, p)
      BY <1>2 DEF Deactivate, NextOfTree, Points, CallPoints
    <2> HIDE DEF p
    <2> QED
      BY <1>0, <1>2, <2>1, GotoType DEF Deactivate, TypeInv, TypeOK, CallPoints
  <1>3. CASE ChangeUsers(t)
    <2> DEFINE p == IF op[t] = "friend" THEN "commit" ELSE "rows"
    <2>1. p \in Points \ CallPoints /\ Goto(t, p)
      BY <1>3 DEF ChangeUsers, Points, CallPoints
    <2> HIDE DEF p
    <2> QED
      BY <1>0, <1>3, <2>1, GotoType DEF ChangeUsers, TypeInv, TypeOK, CallPoints
  <1>4. CASE DeadlockAbort(t)
    BY <1>0, <1>4, FinishType DEF DeadlockAbort, TypeInv, TypeOK, CallPoints
  <1>5. CASE Reply(t)
    <2>1. CASE op[t] = "friend"
      BY <1>0, <1>5, <2>1, FinishType DEF Reply, TypeInv, TypeOK, CallPoints
    <2>2. CASE op[t] # "friend"
      BY <1>0, <1>5, <2>2, GotoType DEF Reply, TypeInv, TypeOK, CallPoints, Points
    <2> QED
      BY <2>1, <2>2
  <1>6. CASE CommitEarly(t)
    BY <1>0, <1>6, GotoType, PublishType, SMTT(30) DEF CommitEarly, TypeInv, TypeOK, CallPoints, Points
  <1>7. CASE CommitAndEnd(t)
    BY <1>0, <1>7, FinishType, PublishType DEF CommitAndEnd, TypeInv, TypeOK, CallPoints
  <1>8. ASSUME NEW u \in Users, SelectKeys(t, u)
        PROVE  TypeInv'
    <2> DEFINE p == IF ActiveKeysOf(u) # {} THEN "update" ELSE NextOfTree(t)'
    <2>1. p \in Points \ CallPoints /\ Goto(t, p)
      BY <1>8 DEF SelectKeys, NextOfTree, Points, CallPoints
    <2>2. ActiveKeysOf(u) \in SUBSET Keys
      BY DEF ActiveKeysOf, ActiveKeys
    <2> HIDE DEF p
    <2> QED
      BY <1>0, <1>8, <2>1, <2>2, GotoType DEF SelectKeys, TypeInv, TypeOK, CallPoints
  <1>9. CASE DeleteRows(t)
    BY <1>0, <1>9, GotoType, SMTT(30) DEF DeleteRows, TypeInv, TypeOK, CallPoints, Points
  <1> QED
    BY <1>1, <1>2, <1>3, <1>4, <1>5, <1>6, <1>7, <1>8, <1>9 DEF HandlerStep

\* The start and the end of a synchronisation keep it.
LEMMA SyncStepType ==
    ASSUME TypeInv, NEW t \in Syncers, SyncStep(t)
    PROVE  TypeInv'
  <1> USE DEF db, relays, locals, loopState, world
  <1>0. t \in Tasks
    BY DEF Tasks
  <1>1. CASE SyncStart(t)
    BY <1>0, <1>1, GotoType DEF SyncStart, Received, ActiveKeys, TypeInv, TypeOK, CallPoints, Points
  <1>2. CASE SyncNothing(t)
    BY <1>2 DEF SyncNothing, Received, TypeInv, TypeOK, CallPoints
  <1>3. CASE SyncDone(t)
    BY <1>0, <1>3, FinishType DEF SyncDone, TypeInv, TypeOK, CallPoints
  <1> QED
    BY <1>1, <1>2, <1>3 DEF SyncStep

\* The loop over keys and the calls to relays keep it.
LEMMA RelayStepType ==
    ASSUME TypeInv, NEW t \in Tasks, RelayStep(t)
    PROVE  TypeInv'
  <1> USE DEF db, relays, locals, loopState, world
  <1>1. ASSUME NEW k \in Keys, NextKey(t, k)
        PROVE  TypeInv'
    BY <1>1, GotoType, UserAssumption DEF NextKey, TypeInv, TypeOK, CallPoints, Points
  <1>2. CASE LoopDone(t)
    <2> DEFINE p == IF t \in Syncers THEN "hyst" ELSE "reply"
    <2>1. p \in Points \ CallPoints /\ Goto(t, p)
      BY <1>2 DEF LoopDone, Points, CallPoints
    <2> HIDE DEF p
    <2> QED
      BY <1>2, <2>1, GotoType DEF LoopDone, TypeInv, TypeOK, CallPoints
  <1>3. ASSUME NEW e \in XrayEndpoints, NEW p, NEW C \in SUBSET Clients, CallXray(t, e, p, C)
        PROVE  TypeInv'
    BY <1>3, CallReturnsType DEF CallXray, CallReturns, TypeInv, TypeOK, CallPoints
  <1>4. ASSUME NEW e \in XrayEndpoints, RemoveLegacy(t, e)
        PROVE  TypeInv'
    BY <1>3, <1>4 DEF RemoveLegacy, TypeInv, TypeOK, CallPoints
  <1>5. ASSUME NEW e \in XrayEndpoints, RemoveCurrent(t, e)
        PROVE  TypeInv'
    BY <1>3, <1>5 DEF RemoveCurrent, TypeInv, TypeOK, CallPoints
  <1>6. ASSUME NEW e \in XrayEndpoints, AddClient(t, e)
        PROVE  TypeInv'
    <2>1. CallXray(t, e, "add", xray[e] \cup {<<cur[t], "current">>})
      BY <1>6 DEF AddClient
    <2>2. cur[t] \in Keys
      BY <2>1 DEF CallXray, TypeInv, TypeOK, CallPoints
    <2>3. xray[e] \cup {<<cur[t], "current">>} \in SUBSET Clients
      BY <2>2 DEF TypeInv, TypeOK, Clients
    <2> QED
      BY <1>3, <2>1, <2>3
  <1>7. CASE ReadCredentials(t)
    BY <1>7, GotoType DEF ReadCredentials, ActiveKeys, TypeInv, TypeOK, CallPoints, Points
  <1>8. ASSUME NEW e \in HysteriaEndpoints, PushCredentials(t, e)
        PROVE  TypeInv'
    BY <1>8, CallReturnsType DEF PushCredentials, DoPost, CallReturns, TypeInv, TypeOK, CallPoints
  <1> QED
    BY <1>1, <1>2, <1>4, <1>5, <1>6, <1>7, <1>8 DEF RelayStep

\* A call that the bot gives up may yet reach its relay.
LEMMA LateType ==
    ASSUME TypeInv, NEW t \in Tasks, NEW e, CallTimesOut(t, e)
    PROVE  /\ late' \in SUBSET LateCalls
           /\ \A c \in late' \ late : c.point = "push" => c.about = payload[t]
  <1> DEFINE about == IF pc[t] = "push" THEN payload[t] ELSE {cur[t]}
  <1> DEFINE call == [nr |-> faults, to |-> e, point |-> pc[t], about |-> about]
  <1>1. /\ faults \in 1..MaxFaults
        /\ e \in XrayEndpoints \cup HysteriaEndpoints
        /\ pc[t] \in CallPoints
    BY FaultAssumption DEF CallTimesOut, Fault, CallReturns, TypeInv, TypeOK
  <1>2. about \in SUBSET Keys
    BY <1>1 DEF TypeInv, TypeOK
  <1>3. late' = late \cup {call} /\ late \in SUBSET LateCalls
    BY DEF CallTimesOut, TypeInv, TypeOK
  <1>4. pc[t] = "push" => about = payload[t]
    OBVIOUS
  <1> HIDE DEF about
  <1>5. call \in LateCalls
    BY <1>1, <1>2 DEF LateCalls
  <1> QED
    BY <1>3, <1>4, <1>5

LEMMA LateCallType ==
    ASSUME TypeOK, NEW c \in late, LateCall(c)
    PROVE  /\ xray' \in [XrayEndpoints -> SUBSET Clients]
           /\ userpass' \in [HysteriaEndpoints -> SUBSET Keys]
  <1>1. c \in LateCalls
    BY DEF TypeOK
  <1>2. c.about \in SUBSET Keys /\ c.point \in CallPoints
    BY <1>1 DEF LateCalls
  <1>3. c.about \X {"current"} \in SUBSET Clients
    BY <1>2 DEF Clients
  <1> USE DEF LateCall, TypeOK
  <1>4. CASE c.point = "rm_legacy"
    BY <1>4
  <1>5. CASE c.point = "rm_current"
    BY <1>5
  <1>6. CASE c.point = "add"
    BY <1>3, <1>6
  <1>7. CASE c.point = "push"
    BY <1>2, <1>7 DEF DoPost
  <1> QED
    BY <1>2, <1>4, <1>5, <1>6, <1>7 DEF CallPoints

\* Failures and restarts keep it.
LEMMA FailureType ==
    ASSUME TypeInv, Failure
    PROVE  TypeInv'
  <1> USE DEF db, relays, locals, loopState, world
  <1>0. ASSUME Fault
        PROVE  faults' \in 0..MaxFaults /\ faults' # MaxFaults
    BY <1>0, FaultAssumption DEF Fault, TypeInv, TypeOK, CallPoints
  <1>1. ASSUME NEW t \in Tasks, NEW e, CallFails(t, e)
        PROVE  TypeInv'
    BY <1>0, <1>1, CallReturnsType DEF CallFails, CallReturns, TypeInv, TypeOK, CallPoints
  <1>2. ASSUME NEW t \in Tasks, ReadFails(t)
        PROVE  TypeInv'
    <2> DEFINE p == IF t \in Syncers THEN "done" ELSE IF op[t] = "issue" THEN "reply" ELSE "loop"
    <2>1. p \in Points \ CallPoints /\ Goto(t, p)
      BY <1>2 DEF ReadFails, Points, CallPoints
    <2> HIDE DEF p
    <2> QED
      BY <1>0, <1>2, <2>1, GotoType DEF ReadFails, TypeInv, TypeOK, CallPoints
  <1>3. ASSUME NEW t \in Handlers, HandlerRaises(t)
        PROVE  TypeInv'
    BY <1>0, <1>3, FinishType DEF HandlerRaises, TypeInv, TypeOK, CallPoints, Tasks
  <1>4. CASE BotRestart
    <2>1. hooks' \in SUBSET XrayEndpoints
      BY <1>4 DEF BotRestart, HookSyncs, TypeInv, TypeOK
    <2> QED
      BY <1>0, <1>4, <2>1 DEF BotRestart, TypeInv, TypeOK, CallPoints, Points, Ops
  <1>5. ASSUME NEW e \in XrayEndpoints, XrayRestart(e)
        PROVE  TypeInv'
    BY <1>0, <1>5 DEF XrayRestart, TypeInv, TypeOK, CallPoints
  <1>7. ASSUME NEW t \in Tasks, NEW e, CallTimesOut(t, e)
        PROVE  TypeInv'
    <2>1. late' \in SUBSET LateCalls
      BY <1>7, LateType DEF CallTimesOut, TypeInv, TypeOK
    <2> QED
      BY <1>0, <1>7, <2>1, CallReturnsType DEF CallTimesOut, CallReturns, TypeInv, TypeOK, CallPoints
  <1>8. ASSUME NEW c \in late, LateCall(c)
        PROVE  TypeInv'
    <2>1. xray' \in [XrayEndpoints -> SUBSET Clients] /\ userpass' \in [HysteriaEndpoints -> SUBSET Keys]
      BY <1>8, LateCallType DEF TypeInv, TypeOK
    <2> QED
      BY <1>8, <2>1 DEF LateCall, TypeInv, TypeOK, CallPoints
  <1>6. ASSUME NEW e \in XrayEndpoints, HookGivesUp(e)
        PROVE  TypeInv'
    BY <1>6 DEF HookGivesUp, TypeInv, TypeOK, CallPoints
  <1> QED
    BY <1>1, <1>2, <1>3, <1>4, <1>5, <1>6, <1>7, <1>8 DEF Failure

LEMMA InitType == Init => TypeInv
  BY KeyAssumption, FaultAssumption
  DEF Init, TypeInv, TypeOK, CallPoints, Points, Ops, Clients

LEMMA NextType == TypeInv /\ [Next]_vars => TypeInv'
  <1> SUFFICES ASSUME TypeInv, [Next]_vars
               PROVE  TypeInv'
    OBVIOUS
  <1>1. ASSUME NEW u \in Users, Reinvite(u)
        PROVE  TypeInv'
    BY <1>1 DEF Reinvite, relays, locals, loopState, world, TypeInv, TypeOK, CallPoints
  <1>4. ASSUME NEW t \in HookSyncs, HookTimesOut(t)
        PROVE  TypeInv'
    <2>1. t[1] \in XrayEndpoints
      BY DEF HookSyncs
    <2> QED
      BY <1>4, <2>1 DEF HookTimesOut, db, relays, locals, loopState, TypeInv, TypeOK, CallPoints
  <1>2. CASE Next
    BY <1>1, <1>2, <1>4, HandlerStartsType, HandlerStepType, SyncStepType, RelayStepType, FailureType
    DEF Next
  <1>3. CASE UNCHANGED vars
    BY <1>3 DEF vars, TypeInv, TypeOK, CallPoints
  <1> QED
    BY <1>2, <1>3

\* Every variable keeps its type in every behaviour.
THEOREM TypeCorrect == Spec => []TypeOK
  <1>1. Spec => []TypeInv
    BY InitType, NextType, PTL DEF Spec
  <1>2. TypeInv => TypeOK
    BY DEF TypeInv
  <1> QED
    BY <1>1, <1>2, PTL

-----------------------------------------------------------------------------
(***************************************************************************)
(* The rows of keys and users.                                              *)
(***************************************************************************)
(* The inductive invariant.                                                 *)

\* A row is committed only for a key that was drawn.
RowsGenerated == \A k \in Keys : row[k] # "none" => k \in generated

\* An update that has not chosen its handler yet has none.
Unstarted == \A t \in Handlers : pc[t] \in {"idle", "enter"} => op[t] = "none"

\* Only a deletion reads keys user by user and deletes rows, and only it and a
\* friend's revocation change users.
Deleting ==
    \A t \in Handlers :
        /\ pc[t] \in {"select", "rows"} => op[t] = "delete"
        /\ pc[t] = "users" => op[t] \in {"delete", "friend"}

\* Every handler but a friend's revocation keeps its transaction to the end.
Transactional == \A t \in Handlers : op[t] \notin {"none", "friend"} => open[t]

\* The key a handler issues is its own: drawn, not committed, its caller's.
IssuedKeys ==
    \A t \in Handlers : op[t] = "issue" =>
        /\ \A k \in keys[t] : k \in generated /\ row[k] = "none" /\ Owner[k] = caller[t]
        /\ caller[t] \in Users /\ user[caller[t]] # "deleted"
        /\ \A s \in Handlers : op[s] = "issue" /\ keys[s] \cap keys[t] # {} => s = t

\* A key that is being revoked was committed.
RevokedKeys ==
    \A t \in Handlers : op[t] \in Revocations => \A k \in keys[t] : row[k] # "none"

\* Once friends_revoke_confirm has committed its keys are revoked for good,
\* and no list it posts holds one.
FriendCommitted ==
    \A t \in Handlers : op[t] = "friend" /\ pc[t] \notin {"update", "users", "commit"} =>
        \A k \in keys[t] : /\ row[k] = "revoked"
                           /\ pc[t] = "push" => k \notin payload[t]

\* The deletion of users has waited for the handlers of these users, and holds
\* up the later ones: nobody issues a key to a user who is being deleted.
NoIssueToDeleted ==
    \A s, t \in Handlers :
        op[s] = "issue" /\ op[t] = "delete" /\ pc[t] \notin BeforeUsers =>
            caller[s] \notin who[t]

RowInv ==
    /\ RowsGenerated
    /\ Unstarted
    /\ Deleting
    /\ Transactional
    /\ IssuedKeys
    /\ RevokedKeys
    /\ FriendCommitted
    /\ NoIssueToDeleted
    /\ DeletedUserHasNoKey

-----------------------------------------------------------------------------
(* Steps that change no row and start no statement.                         *)

\* The step leaves the locals of handler s alone and moves it, if at all, from
\* a call to a relay to the next one, to its answer or to its commit.
Quiet(s) ==
    /\ op'[s] = op[s] /\ caller'[s] = caller[s] /\ keys'[s] = keys[s]
    /\ who'[s] = who[s] /\ open'[s] = open[s]
    /\ \/ pc'[s] = pc[s] /\ payload'[s] = payload[s]
       \/ /\ pc[s] \notin BeforeUsers \cup {"idle", "rows", "commit"}
          /\ pc'[s] \notin BeforeUsers \cup {"idle", "rows"}
          /\ pc'[s] = "commit" => op[s] # "friend"
          /\ pc'[s] = "push" =>
                 \/ payload'[s] = ActiveKeys
                 \/ pc[s] = "push" /\ payload'[s] = payload[s]

LEMMA QuietStep ==
    ASSUME TypeInv, RowInv, UNCHANGED <<row, user, generated>>,
           \A s \in Handlers : Quiet(s)
    PROVE  RowInv'
  <1>1. RowsGenerated'
    BY DEF RowInv, RowsGenerated
  <1>2. Unstarted'
    BY DEF RowInv, Unstarted, Quiet, BeforeUsers
  <1>9. Deleting'
    BY DEF RowInv, Deleting, Quiet, BeforeUsers
  <1>3. Transactional'
    BY DEF RowInv, Transactional, Quiet
  <1>4. IssuedKeys'
    BY DEF RowInv, IssuedKeys, Quiet
  <1>5. RevokedKeys'
    BY DEF RowInv, RevokedKeys, Quiet
  <1>6. FriendCommitted'
    <2> SUFFICES ASSUME NEW t \in Handlers, NEW k \in keys'[t],
                        op'[t] = "friend", pc'[t] \notin {"update", "users", "commit"}
                 PROVE  row'[k] = "revoked" /\ (pc'[t] = "push" => k \notin payload'[t])
      BY DEF FriendCommitted
    <2>1. Quiet(t) /\ op[t] = "friend" /\ k \in keys[t]
      BY DEF Quiet
    <2>2. pc[t] \notin {"update", "users", "commit"}
      BY <2>1 DEF Quiet, BeforeUsers
    <2>3. row[k] = "revoked" /\ (pc[t] = "push" => k \notin payload[t])
      BY <2>1, <2>2 DEF RowInv, FriendCommitted
    <2>4. k \notin ActiveKeys
      BY <2>3 DEF ActiveKeys
    <2> QED
      BY <2>1, <2>3, <2>4 DEF Quiet
  <1>7. NoIssueToDeleted'
    BY DEF RowInv, NoIssueToDeleted, Quiet, BeforeUsers
  <1>8. DeletedUserHasNoKey'
    BY DEF RowInv, DeletedUserHasNoKey, ActiveKeysOf, ActiveKeys
  <1> QED
    BY <1>1, <1>2, <1>3, <1>4, <1>5, <1>6, <1>7, <1>8, <1>9 DEF RowInv

\* The last call of a fan-out or POST loop takes a handler to its next call or
\* its answer, never back to a statement.
LEMMA CallReturnsQuiet ==
    ASSUME TypeInv, NEW t \in Tasks, NEW e, CallReturns(t, e)
    PROVE  UNCHANGED <<row, user, generated>> /\ \A s \in Handlers : Quiet(s)
  <1>1. pc[t] \in CallPoints
    BY DEF CallReturns, TypeInv
  <1>2. AfterCalls(t) \in {"add", "rm_current", "hyst", "loop", "reply", "done"}
    BY <1>1 DEF AfterCalls, CallPoints
  <1>3. Handlers \subseteq Tasks
    BY DEF Tasks
  <1> QED
    BY <1>1, <1>2, <1>3
    DEF db, CallReturns, Goto, Quiet, TypeInv, TypeOK, locals, CallPoints, BeforeUsers

LEMMA RelayStepRow ==
    ASSUME TypeInv, RowInv, NEW t \in Tasks, RelayStep(t)
    PROVE  RowInv'
  <1> USE DEF db, locals, world
  <1> DEFINE Q == UNCHANGED <<row, user, generated>> /\ \A s \in Handlers : Quiet(s)
  <1> SUFFICES Q
    BY QuietStep
  <1>0. Handlers \subseteq Tasks
    BY DEF Tasks
  <1>1. ASSUME NEW k \in Keys, NextKey(t, k)
        PROVE  Q
    BY <1>0, <1>1 DEF NextKey, Goto, Quiet, TypeInv, TypeOK, BeforeUsers
  <1>2. CASE LoopDone(t)
    BY <1>0, <1>2 DEF LoopDone, Goto, Quiet, TypeInv, TypeOK, BeforeUsers
  <1>3. ASSUME NEW e \in XrayEndpoints, RemoveLegacy(t, e) \/ RemoveCurrent(t, e) \/ AddClient(t, e)
        PROVE  Q
    <2>1. CallReturns(t, e)
      BY <1>3 DEF RemoveLegacy, RemoveCurrent, AddClient, CallXray
    <2> QED
      BY <2>1, CallReturnsQuiet
  <1>4. CASE ReadCredentials(t)
    BY <1>0, <1>4 DEF ReadCredentials, Goto, Quiet, TypeInv, TypeOK, BeforeUsers
  <1>5. ASSUME NEW e \in HysteriaEndpoints, PushCredentials(t, e)
        PROVE  Q
    BY <1>5, CallReturnsQuiet DEF PushCredentials, DoPost
  <1> QED
    BY <1>1, <1>2, <1>3, <1>4, <1>5 DEF RelayStep

LEMMA SyncStepRow ==
    ASSUME TypeInv, RowInv, NEW t \in Syncers, SyncStep(t)
    PROVE  RowInv'
  <1> USE DEF db, locals, loopState
  <1> DEFINE Q == UNCHANGED <<row, user, generated>> /\ \A s \in Handlers : Quiet(s)
  <1> SUFFICES Q
    BY QuietStep
  <1>0. Handlers \subseteq Tasks /\ t \in Tasks /\ t \notin Handlers
    BY TaskAssumption DEF Tasks
  <1>1. CASE SyncStart(t)
    BY <1>0, <1>1 DEF SyncStart, Goto, Quiet, TypeInv, TypeOK
  <1>2. CASE SyncNothing(t)
    BY <1>2 DEF SyncNothing, Quiet
  <1>3. CASE SyncDone(t)
    BY <1>0, <1>3 DEF SyncDone, Finish, Quiet, TypeInv, TypeOK
  <1> QED
    BY <1>1, <1>2, <1>3 DEF SyncStep

-----------------------------------------------------------------------------
(* The beginning of a handler.                                              *)

LEMMA ArriveRow ==
    ASSUME TypeInv, RowInv, NEW t \in Handlers, NEW u \in Users, Arrive(t, u)
    PROVE  RowInv'
  <1> USE DEF db, world
  <1>0. Handlers \subseteq Tasks
    BY DEF Tasks
  <1>1. /\ pc' = [pc EXCEPT ![t] = "enter"]
        /\ caller' = [caller EXCEPT ![t] = u]
        /\ UNCHANGED <<row, user, generated, op, keys, who, payload, open>>
        /\ op[t] = "none"
    BY DEF Arrive, Goto, RowInv, Unstarted
  <1>2. RowsGenerated' /\ Unstarted' /\ Deleting' /\ Transactional' /\ RevokedKeys' /\ DeletedUserHasNoKey'
    BY <1>0, <1>1 DEF RowInv, RowsGenerated, Unstarted, Deleting, Transactional, RevokedKeys,
                      DeletedUserHasNoKey, ActiveKeysOf, ActiveKeys, TypeInv, TypeOK
  <1>3. IssuedKeys' /\ FriendCommitted' /\ NoIssueToDeleted'
    BY <1>0, <1>1 DEF RowInv, IssuedKeys, FriendCommitted, NoIssueToDeleted, TypeInv, TypeOK
  <1> QED
    BY <1>2, <1>3 DEF RowInv

LEMMA IssueRow ==
    ASSUME TypeInv, RowInv, NEW t \in Handlers, NEW k \in Keys, Issue(t, k)
    PROVE  RowInv'
  <1> USE DEF db
  <1>0. Handlers \subseteq Tasks
    BY DEF Tasks
  <1>1. /\ pc[t] = "enter" /\ pc' = [pc EXCEPT ![t] = "add"]
        /\ op' = [op EXCEPT ![t] = "issue"]
        /\ keys' = [keys EXCEPT ![t] = {k}]
        /\ open' = [open EXCEPT ![t] = TRUE]
        /\ generated' = generated \cup {k}
        /\ k \notin generated /\ Owner[k] = caller[t] /\ user[caller[t]] # "deleted"
        /\ UNCHANGED <<row, user, caller, who, payload>>
    BY DEF Issue, Goto
  <1>2. row[k] = "none"
    BY <1>1 DEF RowInv, RowsGenerated
  <1>3. RowsGenerated' /\ Unstarted' /\ Deleting' /\ Transactional' /\ RevokedKeys' /\ DeletedUserHasNoKey'
    BY <1>0, <1>1 DEF RowInv, RowsGenerated, Unstarted, Deleting, Transactional, RevokedKeys,
                      DeletedUserHasNoKey, ActiveKeysOf, ActiveKeys, TypeInv, TypeOK, Revocations
  <1>4. IssuedKeys'
    BY <1>0, <1>1, <1>2, KeyAssumption DEF RowInv, IssuedKeys, TypeInv, TypeOK
  <1>5. FriendCommitted'
    BY <1>0, <1>1 DEF RowInv, FriendCommitted, TypeInv, TypeOK
  <1>6. NoIssueToDeleted'
    <2>1. ASSUME NEW s \in Handlers, s # t, op[s] = "delete", pc[s] \notin BeforeUsers
          PROVE  caller[t] \notin who[s]
      <3>1. open[s]
        BY <2>1 DEF RowInv, Transactional
      <3>2. ~HoldsUser(s, caller[t])
        BY <1>1, <2>1 DEF Issue, WaitsFor
      <3> QED
        BY <2>1, <3>1, <3>2 DEF HoldsUser
    <2> QED
      BY <1>0, <1>1, <2>1 DEF RowInv, NoIssueToDeleted, TypeInv, TypeOK
  <1> QED
    BY <1>3, <1>4, <1>5, <1>6 DEF RowInv

\* A revocation begins with keys that are active, so committed.
LEMMA RevokeRow ==
    ASSUME TypeInv, RowInv, NEW t \in Handlers, NEW o \in Revocations,
           NEW S \in SUBSET ActiveKeys, NEW U, Revoke(t, o, S, U)
    PROVE  RowInv'
  <1> USE DEF db, world
  <1>0. Handlers \subseteq Tasks
    BY DEF Tasks
  <1>1. /\ pc' = [pc EXCEPT ![t] = IF o = "delete" THEN "select" ELSE "update"]
        /\ op' = [op EXCEPT ![t] = o]
        /\ keys' = [keys EXCEPT ![t] = S]
        /\ who' = [who EXCEPT ![t] = U]
        /\ open' = [open EXCEPT ![t] = TRUE]
        /\ UNCHANGED <<row, user, generated, caller, payload>>
    BY DEF Revoke, Goto
  <1>2. \A k \in S : row[k] = "active"
    BY DEF ActiveKeys
  <1>3. RowsGenerated' /\ Unstarted' /\ Deleting' /\ Transactional' /\ DeletedUserHasNoKey'
    BY <1>0, <1>1 DEF RowInv, RowsGenerated, Unstarted, Deleting, Transactional,
                      DeletedUserHasNoKey, ActiveKeysOf, ActiveKeys, TypeInv, TypeOK
  <1>4. IssuedKeys' /\ RevokedKeys' /\ FriendCommitted'
    BY <1>0, <1>1, <1>2 DEF RowInv, IssuedKeys, RevokedKeys, FriendCommitted, TypeInv, TypeOK, Revocations
  <1>5. NoIssueToDeleted'
    BY <1>0, <1>1 DEF RowInv, NoIssueToDeleted, TypeInv, TypeOK, Revocations, BeforeUsers
  <1> QED
    BY <1>3, <1>4, <1>5 DEF RowInv

LEMMA HandlerStartsRow ==
    ASSUME TypeInv, RowInv, NEW t \in Handlers, HandlerStarts(t)
    PROVE  RowInv'
  <1> USE DEF ActiveKeysOf, ActiveKeys, Revocations
  <1>1. ASSUME NEW u \in Users, Arrive(t, u)
        PROVE  RowInv'
    BY <1>1, ArriveRow
  <1>2. ASSUME NEW k \in Keys, Issue(t, k)
        PROVE  RowInv'
    BY <1>2, IssueRow
  <1>3. ASSUME NEW k \in Keys, SubDelete(t, k)
        PROVE  RowInv'
    BY <1>3, RevokeRow DEF SubDelete
  <1>4. ASSUME NEW k \in Keys, AdminSubRevokeConfirm(t, k)
        PROVE  RowInv'
    BY <1>4, RevokeRow DEF AdminSubRevokeConfirm
  <1>5. ASSUME NEW u \in Users, AdminSubRevokeAll(t, u)
        PROVE  RowInv'
    BY <1>5, RevokeRow DEF AdminSubRevokeAll
  <1>6. ASSUME NEW u \in Users, DeleteConfirm(t, u)
        PROVE  RowInv'
    BY <1>6, RevokeRow DEF DeleteConfirm
  <1>7. ASSUME NEW u \in Users, FriendsRevokeConfirm(t, u)
        PROVE  RowInv'
    BY <1>7, RevokeRow DEF FriendsRevokeConfirm
  <1> QED
    BY <1>1, <1>2, <1>3, <1>4, <1>5, <1>6, <1>7 DEF HandlerStarts

-----------------------------------------------------------------------------
(* The statements, the commit and the end of a handler.                     *)

\* A handler that ends without a commit.
LEMMA EndRow ==
    ASSUME TypeInv, RowInv, NEW t \in Handlers, Finish(t), UNCHANGED <<row, user, generated>>
    PROVE  RowInv'
  <1>0. Handlers \subseteq Tasks
    BY DEF Tasks
  <1>1. RowsGenerated' /\ Unstarted' /\ Deleting' /\ Transactional' /\ RevokedKeys' /\ DeletedUserHasNoKey'
    BY <1>0 DEF Finish, RowInv, RowsGenerated, Unstarted, Deleting, Transactional, RevokedKeys,
                DeletedUserHasNoKey, ActiveKeysOf, ActiveKeys, TypeInv, TypeOK, Revocations
  <1>2. IssuedKeys' /\ FriendCommitted' /\ NoIssueToDeleted'
    BY <1>0 DEF Finish, RowInv, IssuedKeys, FriendCommitted, NoIssueToDeleted, TypeInv, TypeOK
  <1> QED
    BY <1>1, <1>2 DEF RowInv

LEMMA SelectKeysRow ==
    ASSUME TypeInv, RowInv, NEW t \in Handlers, NEW u \in Users, SelectKeys(t, u)
    PROVE  RowInv'
  <1> USE DEF db, world
  <1> DEFINE p == IF ActiveKeysOf(u) # {} THEN "update" ELSE NextOfTree(t)'
  <1>0. Handlers \subseteq Tasks
    BY DEF Tasks
  <1>1. /\ pc[t] = "select" /\ op[t] = "delete"
        /\ pc' = [pc EXCEPT ![t] = p]
        /\ keys' = [keys EXCEPT ![t] = @ \cup ActiveKeysOf(u)]
        /\ UNCHANGED <<row, user, generated, op, caller, who, payload, open>>
    BY DEF SelectKeys, Goto, RowInv, Deleting
  <1>2. p \in {"update", "users", "select"}
    BY DEF NextOfTree
  <1>3. \A k \in ActiveKeysOf(u) : row[k] = "active"
    BY DEF ActiveKeysOf, ActiveKeys
  <1> HIDE DEF p
  <1>4. RowsGenerated' /\ Unstarted' /\ Deleting' /\ Transactional' /\ DeletedUserHasNoKey'
    BY <1>0, <1>1, <1>2 DEF RowInv, RowsGenerated, Unstarted, Deleting, Transactional,
                            DeletedUserHasNoKey, ActiveKeysOf, ActiveKeys, TypeInv, TypeOK
  <1>5. IssuedKeys' /\ RevokedKeys'
    BY <1>0, <1>1, <1>3 DEF RowInv, IssuedKeys, RevokedKeys, TypeInv, TypeOK
  <1>6. FriendCommitted' /\ NoIssueToDeleted'
    BY <1>0, <1>1, <1>2 DEF RowInv, FriendCommitted, NoIssueToDeleted, TypeInv, TypeOK, BeforeUsers
  <1> QED
    BY <1>4, <1>5, <1>6 DEF RowInv

LEMMA DeactivateRow ==
    ASSUME TypeInv, RowInv, NEW t \in Handlers, Deactivate(t)
    PROVE  RowInv'
  <1> USE DEF db, locals, world
  <1> DEFINE p == IF op[t] = "friend" THEN "users" ELSE IF op[t] = "delete" THEN NextOfTree(t) ELSE "loop"
  <1>0. Handlers \subseteq Tasks
    BY DEF Tasks
  <1>1. /\ pc[t] = "update"
        /\ pc' = [pc EXCEPT ![t] = p]
        /\ UNCHANGED <<row, user, generated, op, caller, keys, who, payload, open>>
    BY DEF Deactivate, Goto
  <1>2. /\ p \in {"users", "select", "loop"}
        /\ p = "select" => op[t] = "delete"
        /\ p = "users" => op[t] \in {"delete", "friend"}
        /\ p = "loop" => op[t] \notin {"friend", "delete"}
    BY DEF NextOfTree
  <1> HIDE DEF p
  <1>3. RowsGenerated' /\ Unstarted' /\ Deleting' /\ Transactional' /\ RevokedKeys' /\ DeletedUserHasNoKey'
    BY <1>0, <1>1, <1>2 DEF RowInv, RowsGenerated, Unstarted, Deleting, Transactional, RevokedKeys,
                            DeletedUserHasNoKey, ActiveKeysOf, ActiveKeys, TypeInv, TypeOK
  <1>4. IssuedKeys' /\ FriendCommitted' /\ NoIssueToDeleted'
    BY <1>0, <1>1, <1>2 DEF RowInv, IssuedKeys, FriendCommitted, NoIssueToDeleted, TypeInv, TypeOK,
                            BeforeUsers
  <1> QED
    BY <1>3, <1>4 DEF RowInv

\* The deletion of the rows of keys, like the steps of Quiet, is after all waits for
\* users.
LEMMA DeleteRowsRow ==
    ASSUME TypeInv, RowInv, NEW t \in Handlers, DeleteRows(t)
    PROVE  RowInv'
  <1> USE DEF db, locals, world
  <1>0. Handlers \subseteq Tasks
    BY DEF Tasks
  <1>1. /\ pc[t] = "rows" /\ op[t] = "delete"
        /\ pc' = [pc EXCEPT ![t] = "loop"]
        /\ UNCHANGED <<row, user, generated, op, caller, keys, who, payload, open>>
    BY DEF DeleteRows, Goto, RowInv, Deleting
  <1>2. RowsGenerated' /\ Unstarted' /\ Deleting' /\ Transactional' /\ RevokedKeys' /\ DeletedUserHasNoKey'
    BY <1>0, <1>1 DEF RowInv, RowsGenerated, Unstarted, Deleting, Transactional, RevokedKeys,
                      DeletedUserHasNoKey, ActiveKeysOf, ActiveKeys, TypeInv, TypeOK
  <1>3. IssuedKeys' /\ FriendCommitted' /\ NoIssueToDeleted'
    BY <1>0, <1>1 DEF RowInv, IssuedKeys, FriendCommitted, NoIssueToDeleted, TypeInv, TypeOK, BeforeUsers
  <1> QED
    BY <1>2, <1>3 DEF RowInv

LEMMA ChangeUsersRow ==
    ASSUME TypeInv, RowInv, NEW t \in Handlers, ChangeUsers(t)
    PROVE  RowInv'
  <1> USE DEF db, locals, world
  <1>0. Handlers \subseteq Tasks
    BY DEF Tasks
  <1>1. /\ pc[t] = "users"
        /\ pc' = [pc EXCEPT ![t] = IF op[t] = "friend" THEN "commit" ELSE "rows"]
        /\ op[t] \in {"friend", "delete"}
        /\ UNCHANGED <<row, user, generated, op, caller, keys, who, payload, open>>
    BY DEF ChangeUsers, Goto, RowInv, Deleting
  <1>2. RowsGenerated' /\ Unstarted' /\ Deleting' /\ Transactional' /\ RevokedKeys' /\ DeletedUserHasNoKey'
    BY <1>0, <1>1 DEF RowInv, RowsGenerated, Unstarted, Deleting, Transactional, RevokedKeys,
                      DeletedUserHasNoKey, ActiveKeysOf, ActiveKeys, TypeInv, TypeOK
  <1>3. IssuedKeys' /\ FriendCommitted'
    BY <1>0, <1>1 DEF RowInv, IssuedKeys, FriendCommitted, TypeInv, TypeOK
  <1>4. NoIssueToDeleted'
    <2>1. ASSUME NEW s \in Handlers, s # t, op[s] = "issue"
          PROVE  caller[s] \notin who[t]
      <3>1. open[s]
        BY <2>1 DEF RowInv, Transactional
      <3>2. \A u \in who[t] : ~HoldsUser(s, u)
        BY <1>1, <2>1 DEF ChangeUsers, WaitsFor
      <3> QED
        BY <3>1, <3>2 DEF HoldsUser
    <2> QED
      BY <1>0, <1>1, <2>1 DEF RowInv, NoIssueToDeleted, TypeInv, TypeOK
  <1> QED
    BY <1>2, <1>3, <1>4 DEF RowInv

\* What a commit can do to a row: create the handler's own key, revoke a key.
LEMMA PublishRows ==
    ASSUME TypeInv, RowInv, NEW t \in Handlers, Publish(t), NEW k \in Keys
    PROVE  /\ row[k] = "none" => row'[k] = IF op[t] = "issue" /\ k \in keys[t] THEN "active" ELSE "none"
           /\ row[k] = "revoked" => row'[k] = "revoked"
           /\ row[k] = "active" => row'[k] # "none"
           /\ op[t] \in {"delete", "friend"} /\ k \in keys[t] => row'[k] # "active"
           /\ op[t] = "delete" /\ Owner[k] \in who[t] => row'[k] # "active"
  BY DEF Publish, TypeInv, TypeOK, RowInv, IssuedKeys

\* A commit keeps what IssuedKeys, RevokedKeys and FriendCommitted say of the
\* other handlers, whose locals it does not see.
LEMMA PublishOthers ==
    ASSUME TypeInv, RowInv, NEW t \in Handlers, pc[t] = "commit", Publish(t),
           NEW s \in Handlers, s # t
    PROVE  /\ op[s] = "issue" => /\ \A k \in keys[s] : row'[k] = "none"
                                 /\ user'[caller[s]] # "deleted"
           /\ op[s] \in Revocations =>
                  \A k \in keys[s] : row'[k] # "none" /\ (row'[k] = "active" => row[k] = "active")
           /\ op[s] = "friend" /\ pc[s] \notin {"update", "users", "commit"} =>
                  \A k \in keys[s] : row'[k] = "revoked"
  <1>0. /\ s \in Tasks /\ t \in Tasks
        /\ keys[s] \subseteq Keys
        /\ \A k \in Keys : row[k] \in {"none", "active", "revoked"}
    BY DEF Tasks, TypeInv, TypeOK
  <1>1. ASSUME op[s] = "issue", NEW k \in keys[s]
        PROVE  row'[k] = "none"
    BY <1>0, <1>1, PublishRows DEF RowInv, IssuedKeys
  <1>2. ASSUME op[s] = "issue"
        PROVE  user'[caller[s]] # "deleted"
    <2>1. caller[s] \in Users /\ user[caller[s]] # "deleted"
      BY <1>2 DEF RowInv, IssuedKeys
    <2>2. op[t] = "delete" => caller[s] \notin who[t]
      BY <1>2 DEF RowInv, NoIssueToDeleted, BeforeUsers
    <2> QED
      BY <2>1, <2>2 DEF Publish
  <1>3. ASSUME op[s] \in Revocations, NEW k \in keys[s]
        PROVE  row'[k] # "none" /\ (row'[k] = "active" => row[k] = "active")
    <2>1. row[k] # "none"
      BY <1>3 DEF RowInv, RevokedKeys
    <2> QED
      BY <1>0, <2>1, PublishRows
  <1>4. ASSUME op[s] = "friend", pc[s] \notin {"update", "users", "commit"}, NEW k \in keys[s]
        PROVE  row'[k] = "revoked"
    <2>1. row[k] = "revoked"
      BY <1>4 DEF RowInv, FriendCommitted
    <2> QED
      BY <1>0, <2>1, PublishRows
  <1> QED
    BY <1>1, <1>2, <1>3, <1>4

\* No user who is deleted after a commit has an active key.
LEMMA PublishDeleted ==
    ASSUME TypeInv, RowInv, NEW t \in Handlers, Publish(t)
    PROVE  DeletedUserHasNoKey'
  <1> SUFFICES ASSUME NEW u \in Users, user'[u] = "deleted", NEW k \in Keys,
                      row'[k] = "active", Owner[k] = u
               PROVE  FALSE
    BY DEF DeletedUserHasNoKey, ActiveKeysOf, ActiveKeys
  <1>1. CASE user[u] = "deleted"
    <2>1. row[k] # "active"
      BY <1>1 DEF RowInv, DeletedUserHasNoKey, ActiveKeysOf, ActiveKeys
    <2>2. op[t] = "issue" /\ k \in keys[t]
      BY <2>1, PublishRows DEF TypeInv, TypeOK
    <2> QED
      BY <1>1, <2>2 DEF RowInv, IssuedKeys
  <1>2. CASE user[u] # "deleted"
    <2>1. op[t] = "delete" /\ u \in who[t]
      BY <1>2 DEF Publish
    <2> QED
      BY <2>1, PublishRows
  <1> QED
    BY <1>1, <1>2

LEMMA CommitEarlyRow ==
    ASSUME TypeInv, RowInv, NEW t \in Handlers, CommitEarly(t)
    PROVE  RowInv'
  <1> USE DEF locals, world
  <1>0. /\ Handlers \subseteq Tasks
        /\ \A s \in Tasks : keys[s] \subseteq Keys
        /\ \A k \in Keys : row[k] \in {"none", "active", "revoked"}
    BY DEF Tasks, TypeInv, TypeOK
  <1>1. /\ pc[t] = "commit" /\ op[t] = "friend" /\ Publish(t)
        /\ pc' = [pc EXCEPT ![t] = "loop"]
        /\ open' = [open EXCEPT ![t] = FALSE]
        /\ UNCHANGED <<generated, op, caller, keys, who, payload>>
    BY DEF CommitEarly, Goto
  <1>2. \A k \in Keys : row'[k] \in {"none", "active", "revoked"}
    BY <1>0, <1>1, PublishType
  <1>3. RowsGenerated'
    BY <1>0, <1>1, PublishRows DEF RowInv, RowsGenerated
  <1>4. Unstarted' /\ Deleting' /\ Transactional'
    BY <1>0, <1>1 DEF RowInv, Unstarted, Deleting, Transactional, TypeInv, TypeOK
  <1>5. \A k \in keys[t] : row'[k] = "revoked"
    <2>1. \A k \in keys[t] : row[k] # "none"
      BY <1>1 DEF RowInv, RevokedKeys, Revocations
    <2> QED
      BY <1>0, <1>1, <1>2, <2>1, PublishRows
  <1>6. IssuedKeys' /\ RevokedKeys'
    BY <1>0, <1>1, <1>5, PublishOthers DEF RowInv, IssuedKeys, RevokedKeys
  <1>7. FriendCommitted'
    BY <1>0, <1>1, <1>5, PublishOthers DEF RowInv, FriendCommitted, TypeInv, TypeOK
  <1>8. NoIssueToDeleted'
    BY <1>0, <1>1 DEF RowInv, NoIssueToDeleted, TypeInv, TypeOK
  <1>9. DeletedUserHasNoKey'
    BY <1>1, PublishDeleted
  <1> QED
    BY <1>3, <1>4, <1>6, <1>7, <1>8, <1>9 DEF RowInv

LEMMA CommitAndEndRow ==
    ASSUME TypeInv, RowInv, NEW t \in Handlers, CommitAndEnd(t)
    PROVE  RowInv'
  <1> USE DEF world
  <1>0. /\ Handlers \subseteq Tasks
        /\ \A s \in Tasks : keys[s] \subseteq Keys
        /\ \A k \in Keys : row[k] \in {"none", "active", "revoked"}
    BY DEF Tasks, TypeInv, TypeOK
  <1>1. /\ pc[t] = "commit" /\ Publish(t) /\ Finish(t)
        /\ UNCHANGED generated
        /\ pc'[t] = "idle" /\ op'[t] = "none" /\ open'[t] = FALSE
        /\ \A s \in Handlers \ {t} :
               /\ pc'[s] = pc[s] /\ op'[s] = op[s] /\ caller'[s] = caller[s] /\ keys'[s] = keys[s]
               /\ who'[s] = who[s] /\ open'[s] = open[s] /\ payload'[s] = payload[s]
    BY <1>0 DEF CommitAndEnd, Finish, TypeInv, TypeOK
  <1>2. RowsGenerated'
    BY <1>0, <1>1, PublishRows DEF RowInv, RowsGenerated, IssuedKeys
  <1>3. Unstarted' /\ Deleting' /\ Transactional'
    BY <1>1 DEF RowInv, Unstarted, Deleting, Transactional
  <1>4. IssuedKeys' /\ RevokedKeys'
    BY <1>1, PublishOthers DEF RowInv, IssuedKeys, RevokedKeys, Revocations
  <1>5. FriendCommitted'
    BY <1>1, PublishOthers DEF RowInv, FriendCommitted
  <1>6. NoIssueToDeleted'
    BY <1>1 DEF RowInv, NoIssueToDeleted
  <1>7. DeletedUserHasNoKey'
    BY <1>1, PublishDeleted
  <1> QED
    BY <1>2, <1>3, <1>4, <1>5, <1>6, <1>7 DEF RowInv

LEMMA HandlerStepRow ==
    ASSUME TypeInv, RowInv, NEW t \in Handlers, HandlerStep(t)
    PROVE  RowInv'
  <1> USE DEF db, world
  <1>1. CASE IssueRefused(t)
    BY <1>1, EndRow DEF IssueRefused
  <1>2. CASE Deactivate(t)
    BY <1>2, DeactivateRow
  <1>3. CASE ChangeUsers(t)
    BY <1>3, ChangeUsersRow
  <1>4. CASE DeadlockAbort(t)
    BY <1>4, EndRow DEF DeadlockAbort
  <1>5. CASE Reply(t)
    <2>1. CASE op[t] = "friend"
      BY <1>5, <2>1, EndRow DEF Reply
    <2>2. CASE op[t] # "friend"
      <3>1. Handlers \subseteq Tasks
        BY DEF Tasks
      <3>2. \A s \in Handlers : Quiet(s)
        BY <1>5, <2>2, <3>1
        DEF Reply, Goto, Quiet, locals, TypeInv, TypeOK, BeforeUsers
      <3> QED
        BY <1>5, <3>2, QuietStep DEF Reply
    <2> QED
      BY <2>1, <2>2
  <1>6. CASE CommitEarly(t)
    BY <1>6, CommitEarlyRow
  <1>7. CASE CommitAndEnd(t)
    BY <1>7, CommitAndEndRow
  <1>8. ASSUME NEW u \in Users, SelectKeys(t, u)
        PROVE  RowInv'
    BY <1>8, SelectKeysRow
  <1>9. CASE DeleteRows(t)
    BY <1>9, DeleteRowsRow
  <1> QED
    BY <1>1, <1>2, <1>3, <1>4, <1>5, <1>6, <1>7, <1>8, <1>9 DEF HandlerStep

-----------------------------------------------------------------------------
(* Failures, and the theorems.                                              *)

LEMMA FailureRow ==
    ASSUME TypeInv, RowInv, Failure
    PROVE  RowInv'
  <1> USE DEF db, locals, loopState, world
  <1>0. Handlers \subseteq Tasks
    BY DEF Tasks
  <1>1. ASSUME NEW t \in Tasks, NEW e, CallFails(t, e)
        PROVE  RowInv'
    BY <1>1, CallReturnsQuiet, QuietStep DEF CallFails
  <1>2. ASSUME NEW t \in Tasks, ReadFails(t)
        PROVE  RowInv'
    <2>1. \A s \in Handlers : Quiet(s)
      BY <1>0, <1>2 DEF ReadFails, Goto, Quiet, TypeInv, TypeOK, BeforeUsers
    <2> QED
      BY <1>2, <2>1, QuietStep DEF ReadFails
  <1>3. ASSUME NEW t \in Handlers, HandlerRaises(t)
        PROVE  RowInv'
    BY <1>3, EndRow DEF HandlerRaises
  <1>4. CASE BotRestart
    <2>1. /\ \A s \in Handlers : pc'[s] = "idle" /\ op'[s] = "none" /\ open'[s] = FALSE
          /\ UNCHANGED <<row, user, generated>>
      BY <1>0, <1>4 DEF BotRestart
    <2> QED
      BY <2>1 DEF RowInv, RowsGenerated, Unstarted, Deleting, Transactional, IssuedKeys, RevokedKeys,
                  FriendCommitted, NoIssueToDeleted, DeletedUserHasNoKey, ActiveKeysOf, ActiveKeys, Revocations
  <1>6. ASSUME NEW t \in Tasks, NEW e, CallTimesOut(t, e)
        PROVE  RowInv'
    BY <1>6, CallReturnsQuiet, QuietStep DEF CallTimesOut
  <1>7. ASSUME NEW c, LateCall(c)
        PROVE  RowInv'
    <2>1. (\A s \in Handlers : Quiet(s)) /\ UNCHANGED <<row, user, generated>>
      BY <1>7 DEF LateCall, Quiet
    <2> QED
      BY <2>1, QuietStep
  <1>5. ASSUME NEW e \in XrayEndpoints, XrayRestart(e) \/ HookGivesUp(e)
        PROVE  RowInv'
    <2>1. (\A s \in Handlers : Quiet(s)) /\ UNCHANGED <<row, user, generated>>
      BY <1>5 DEF XrayRestart, HookGivesUp, Quiet
    <2> QED
      BY <2>1, QuietStep
  <1> QED
    BY <1>1, <1>2, <1>3, <1>4, <1>5, <1>6, <1>7 DEF Failure

\* A user who comes back has not been deleted.
LEMMA ReinviteRow ==
    ASSUME TypeInv, RowInv, NEW u \in Users, Reinvite(u)
    PROVE  RowInv'
  <1>1. /\ UNCHANGED <<row, generated, pc, op, caller, keys, who, payload, open>>
        /\ \A v \in Users : user'[v] = "deleted" <=> user[v] = "deleted"
    BY DEF Reinvite, relays, locals, world, TypeInv, TypeOK
  <1>3. RowsGenerated' /\ Unstarted' /\ Deleting' /\ Transactional' /\ RevokedKeys' /\ FriendCommitted'
    BY <1>1 DEF RowInv, RowsGenerated, Unstarted, Deleting, Transactional, RevokedKeys, FriendCommitted
  <1>4. IssuedKeys' /\ NoIssueToDeleted' /\ DeletedUserHasNoKey'
    BY <1>1 DEF RowInv, IssuedKeys, NoIssueToDeleted, DeletedUserHasNoKey,
                      ActiveKeysOf, ActiveKeys
  <1> QED
    BY <1>3, <1>4 DEF RowInv

LEMMA InitRow == Init => RowInv
  <1> SUFFICES ASSUME Init
               PROVE  RowInv
    OBVIOUS
  <1>1. /\ \A t \in Handlers : pc[t] = "idle" /\ op[t] = "none" /\ open[t] = FALSE
        /\ \A u \in Users : user[u] = "active"
        /\ \A k \in Keys : row[k] # "none" => k \in generated
    BY DEF Init, Tasks
  <1> QED
    BY <1>1 DEF RowInv, RowsGenerated, Unstarted, Deleting, Transactional, IssuedKeys, RevokedKeys,
                FriendCommitted, NoIssueToDeleted, DeletedUserHasNoKey, Revocations

LEMMA NextRow == TypeInv /\ RowInv /\ [Next]_vars => RowInv'
  <1> SUFFICES ASSUME TypeInv, RowInv, [Next]_vars
               PROVE  RowInv'
    OBVIOUS
  <1>3. ASSUME NEW t \in HookSyncs, HookTimesOut(t)
        PROVE  RowInv'
    <2>1. (\A s \in Handlers : Quiet(s)) /\ UNCHANGED <<row, user, generated>>
      BY <1>3 DEF HookTimesOut, db, locals, world, Quiet
    <2> QED
      BY <2>1, QuietStep
  <1>1. CASE Next
    BY <1>1, <1>3, HandlerStartsRow, HandlerStepRow, ReinviteRow, SyncStepRow, RelayStepRow, FailureRow
    DEF Next
  <1>2. CASE UNCHANGED vars
    BY <1>2, QuietStep DEF vars, Quiet
  <1> QED
    BY <1>1, <1>2

LEMMA RowInvariant == Spec => [](TypeInv /\ RowInv)
  <1>1. Init => TypeInv /\ RowInv
    BY InitType, InitRow
  <1>2. TypeInv /\ RowInv /\ [Next]_vars => (TypeInv /\ RowInv)'
    BY NextType, NextRow
  <1> QED
    BY <1>1, <1>2, PTL DEF Spec

\* The lists that friends_revoke_confirm posts never hold a key it revokes.
THEOREM FriendRevokeSafe == Spec => []FriendRevokeNotRepublished
  <1>1. RowInv => FriendRevokeNotRepublished
    BY DEF RowInv, FriendCommitted, FriendRevokeNotRepublished
  <1> QED
    BY <1>1, RowInvariant, PTL

\* No user who was deleted has an active key, whatever was being issued.
THEOREM DeletionComplete == Spec => []DeletedUserHasNoKey
  <1>1. RowInv => DeletedUserHasNoKey
    BY DEF RowInv
  <1> QED
    BY <1>1, RowInvariant, PTL

\* Only the commit of a handler and the return of a user change rows.
LEMMA RowsMove ==
    ASSUME TypeInv, [Next]_vars
    PROVE  \/ UNCHANGED <<row, user>>
           \/ \E u \in Users : Reinvite(u)
           \/ \E t \in Handlers : pc[t] = "commit" /\ Publish(t)
  <1> USE DEF db, relays
  <1>1. ASSUME NEW t \in Handlers, HandlerStarts(t)
        PROVE  UNCHANGED <<row, user>>
    BY <1>1 DEF HandlerStarts, Arrive, Issue, SubDelete, AdminSubRevokeConfirm,
       AdminSubRevokeAll, DeleteConfirm, FriendsRevokeConfirm, Revoke
  <1>2. ASSUME NEW t \in Handlers, HandlerStep(t)
        PROVE  UNCHANGED <<row, user>> \/ (pc[t] = "commit" /\ Publish(t))
    BY <1>2 DEF HandlerStep, IssueRefused, SelectKeys, Deactivate, ChangeUsers, DeleteRows,
       DeadlockAbort, Reply, CommitEarly, CommitAndEnd
  <1>3. ASSUME NEW t \in Syncers, SyncStep(t)
        PROVE  UNCHANGED <<row, user>>
    BY <1>3 DEF SyncStep, SyncStart, SyncNothing, SyncDone
  <1>4. ASSUME NEW t \in Tasks, RelayStep(t)
        PROVE  UNCHANGED <<row, user>>
    BY <1>4 DEF RelayStep, NextKey, LoopDone, RemoveLegacy, RemoveCurrent, AddClient, CallXray,
       CallReturns, ReadCredentials, PushCredentials, DoPost
  <1>5. CASE Failure
    BY <1>5 DEF Failure, CallFails, CallTimesOut, CallReturns, LateCall, ReadFails, HandlerRaises,
       BotRestart, XrayRestart, HookGivesUp
  <1> QED
    BY <1>1, <1>2, <1>3, <1>4, <1>5 DEF Next, HookTimesOut, vars

\* The row of a key leaves "none" only by the commit that issues the key, and
\* never leaves "revoked".
LEMMA RowSteps ==
    ASSUME TypeInv, RowInv, [Next]_vars, NEW k \in Keys
    PROVE  /\ row[k] # "none" => row'[k] # "none"
           /\ row[k] = "revoked" => row'[k] = "revoked"
  <1>1. ASSUME NEW t \in Handlers, Publish(t)
        PROVE  /\ row[k] # "none" => row'[k] # "none"
               /\ row[k] = "revoked" => row'[k] = "revoked"
    BY <1>1, PublishRows DEF TypeInv, TypeOK
  <1> QED
    BY <1>1, RowsMove DEF Reinvite

\* A task posts what it has read, be it late, and reads nothing but the committed
\* rows.
LatePosts == {c \in late : c.point = "push"}

CredentialStep ==
    /\ \A t \in Tasks : payload'[t] \in {payload[t], {}, ActiveKeys}
    /\ \A e \in HysteriaEndpoints :
           \/ userpass'[e] = userpass[e]
           \/ \E t \in Tasks : userpass'[e] = payload[t]
           \/ \E c \in LatePosts : userpass'[e] = c.about
    /\ \A c \in LatePosts' : c \in late \/ \E t \in Tasks : c.about = payload[t]

LEMMA CredentialSteps ==
    ASSUME TypeInv, [Next]_vars
    PROVE  CredentialStep
  <1> USE DEF relays
  <1>0. Handlers \subseteq Tasks /\ Syncers \subseteq Tasks
    BY DEF Tasks
  <1>a. ASSUME UNCHANGED <<userpass, late>>,
               \A t \in Tasks : payload'[t] \in {payload[t], {}, ActiveKeys}
        PROVE  CredentialStep
    BY <1>a DEF CredentialStep, LatePosts
  <1>1. ASSUME NEW t \in Tasks, Finish(t), UNCHANGED <<userpass, late>>
        PROVE  CredentialStep
    <2>1. \A s \in Tasks : payload'[s] \in {payload[s], {}, ActiveKeys}
      BY <1>1 DEF Finish, TypeInv, TypeOK
    <2> QED
      BY <1>1, <1>a, <2>1
  <1>2. ASSUME NEW t \in Tasks, NEW e, CallReturns(t, e)
        PROVE  \A s \in Tasks : payload'[s] \in {payload[s], {}, ActiveKeys}
    BY <1>2 DEF CallReturns, TypeInv, TypeOK
  <1>3. ASSUME NEW t \in Handlers, HandlerStarts(t)
        PROVE  CredentialStep
    <2>1. UNCHANGED <<userpass, late, payload>>
      BY <1>3 DEF HandlerStarts, Arrive, Issue, SubDelete, AdminSubRevokeConfirm,
         AdminSubRevokeAll, DeleteConfirm, FriendsRevokeConfirm, Revoke
    <2> QED
      BY <1>a, <2>1
  <1>4. ASSUME NEW t \in Handlers, HandlerStep(t)
        PROVE  CredentialStep
    <2>1. UNCHANGED <<userpass, late>> /\ (UNCHANGED payload \/ Finish(t))
      BY <1>4 DEF HandlerStep, IssueRefused, SelectKeys, Deactivate, ChangeUsers, DeleteRows,
         DeadlockAbort, Reply, CommitEarly, CommitAndEnd
    <2> QED
      BY <1>0, <1>1, <1>a, <2>1
  <1>5. ASSUME NEW t \in Syncers, SyncStep(t)
        PROVE  CredentialStep
    <2>1. UNCHANGED <<userpass, late>> /\ (UNCHANGED payload \/ Finish(t))
      BY <1>5 DEF SyncStep, SyncStart, SyncNothing, SyncDone
    <2> QED
      BY <1>0, <1>1, <1>a, <2>1
  <1>6. ASSUME NEW t \in Tasks, RelayStep(t)
        PROVE  CredentialStep
    <2>1. CASE \E k \in Keys : NextKey(t, k)
      BY <1>a, <2>1 DEF NextKey
    <2>2. CASE LoopDone(t)
      BY <1>a, <2>2 DEF LoopDone
    <2>3. ASSUME NEW e \in XrayEndpoints, RemoveLegacy(t, e) \/ RemoveCurrent(t, e) \/ AddClient(t, e)
          PROVE  CredentialStep
      <3>1. CallReturns(t, e) /\ UNCHANGED <<userpass, late>>
        BY <2>3 DEF RemoveLegacy, RemoveCurrent, AddClient, CallXray
      <3> QED
        BY <1>2, <1>a, <3>1
    <2>4. CASE ReadCredentials(t)
      BY <1>a, <2>4 DEF ReadCredentials, TypeInv, TypeOK
    <2>5. ASSUME NEW e \in HysteriaEndpoints, PushCredentials(t, e)
          PROVE  CredentialStep
      <3>1. CallReturns(t, e) /\ UNCHANGED late
        BY <2>5 DEF PushCredentials
      <3>2. \A f \in HysteriaEndpoints : userpass'[f] \in {userpass[f], payload[t]}
        BY <2>5 DEF PushCredentials, DoPost, TypeInv, TypeOK
      <3> QED
        BY <1>2, <3>1, <3>2 DEF CredentialStep, LatePosts
    <2> QED
      BY <1>6, <2>1, <2>2, <2>3, <2>4, <2>5 DEF RelayStep
  <1>7. CASE Failure
    <2>1. ASSUME NEW t \in Tasks, NEW e, CallFails(t, e)
          PROVE  CredentialStep
      BY <1>2, <1>a, <2>1 DEF CallFails
    <2>2. ASSUME NEW t \in Tasks, NEW e, CallTimesOut(t, e)
          PROVE  CredentialStep
      <3>1. CallReturns(t, e) /\ UNCHANGED userpass
        BY <2>2 DEF CallTimesOut
      <3>2. \A c \in late' \ late : c.point = "push" => c.about = payload[t]
        BY <2>2, LateType
      <3> QED
        BY <1>2, <3>1, <3>2 DEF CredentialStep, LatePosts
    <2>3. ASSUME NEW c \in late, LateCall(c)
          PROVE  CredentialStep
      <3>1. UNCHANGED payload /\ late' \subseteq late /\ c.point \in CallPoints
        BY <2>3 DEF LateCall, LateCalls, TypeInv, TypeOK
      <3>2. UNCHANGED userpass \/ (c.point = "push" /\ userpass' = [userpass EXCEPT ![c.to] = c.about])
        BY <2>3, <3>1 DEF LateCall, DoPost, CallPoints
      <3>3. \A f \in HysteriaEndpoints :
                userpass'[f] = userpass[f] \/ (c.point = "push" /\ userpass'[f] = c.about)
        BY <3>2 DEF TypeInv, TypeOK
      <3> QED
        BY <3>1, <3>3 DEF CredentialStep, LatePosts
    <2>4. ASSUME NEW t \in Handlers, HandlerRaises(t)
          PROVE  CredentialStep
      BY <1>0, <1>1, <2>4 DEF HandlerRaises
    <2>5. ASSUME NEW t \in Tasks, ReadFails(t)
          PROVE  CredentialStep
      BY <1>a, <2>5 DEF ReadFails
    <2>6. CASE BotRestart
      BY <1>a, <2>6 DEF BotRestart
    <2>7. ASSUME NEW e, XrayRestart(e) \/ HookGivesUp(e)
          PROVE  CredentialStep
      BY <2>7 DEF XrayRestart, HookGivesUp, CredentialStep, LatePosts
    <2> QED
      BY <1>7, <2>1, <2>2, <2>3, <2>4, <2>5, <2>6, <2>7 DEF Failure
  <1>8. ASSUME NEW u \in Users, Reinvite(u)
        PROVE  CredentialStep
    BY <1>a, <1>8 DEF Reinvite
  <1>9. CASE UNCHANGED vars
    BY <1>a, <1>9 DEF vars
  <1>10. ASSUME NEW t \in HookSyncs, HookTimesOut(t)
        PROVE  CredentialStep
    BY <1>a, <1>10 DEF HookTimesOut
  <1> QED
    BY <1>3, <1>4, <1>5, <1>6, <1>7, <1>8, <1>9, <1>10 DEF Next

\* So what the Hysteria servers accept, or may yet be told, stays within the
\* committed rows.
HysteriaInv ==
    /\ HysteriaOnlyCommitted
    /\ \A c \in LatePosts : c.about \subseteq Committed

LEMMA HysteriaStep == TypeInv /\ RowInv /\ HysteriaInv /\ [Next]_vars => HysteriaInv'
  <1> SUFFICES ASSUME TypeInv, RowInv, HysteriaInv, [Next]_vars
               PROVE  HysteriaInv'
    OBVIOUS
  <1>1. Committed \subseteq Committed'
    BY RowSteps DEF Committed
  <1>2. ActiveKeys \subseteq Committed
    BY DEF ActiveKeys, Committed
  <1>3. \A c \in LatePosts' : c \in late => c \in LatePosts
    BY DEF LatePosts
  <1>4. CredentialStep
    BY CredentialSteps
  <1>5. HysteriaOnlyCommitted'
    BY <1>1, <1>2, <1>4 DEF CredentialStep, HysteriaOnlyCommitted, HysteriaInv
  <1>6. \A c \in LatePosts' : c.about \subseteq Committed'
    BY <1>1, <1>3, <1>4 DEF CredentialStep, HysteriaOnlyCommitted, HysteriaInv
  <1> QED
    BY <1>5, <1>6 DEF HysteriaInv

LEMMA InitHysteria == Init => HysteriaInv
  BY KeyAssumption DEF Init, HysteriaInv, HysteriaOnlyCommitted, Committed, LatePosts

\* No Hysteria server ever accepts a key whose row was not committed, not even by
\* a POST that arrives after the bot has given it up.
THEOREM HysteriaCommitted == Spec => []HysteriaOnlyCommitted
  <1>1. HysteriaInv => HysteriaOnlyCommitted
    BY DEF HysteriaInv
  <1> QED
    BY <1>1, InitHysteria, HysteriaStep, RowInvariant, PTL DEF Spec

-----------------------------------------------------------------------------
(***************************************************************************)
(* The ledger of keys.                                                      *)
(***************************************************************************)
\* What handler t is about to commit is one operation of the ledger, by a user
\* who may ask for it.
Intent(t) ==
    /\ pc[t] # "idle" => caller[t] \in Users
    /\ op[t] = "none" => pc[t] \in {"idle", "enter"}
    /\ op[t] \notin {"friend", "delete"} => who[t] = {}
    /\ op[t] = "issue" => \E k \in Keys : keys[t] = {k}
    /\ op[t] \in {"self", "admin", "all"} =>
           \E u \in Users : keys[t] \subseteq Ledger!KeysOf({u}) /\ caller[t] \in Admins \cup {u}
    /\ op[t] = "friend" =>
           \E u \in Users : /\ who[t] = {u} /\ Inviter[u] = caller[t]
                            /\ keys[t] \subseteq Ledger!KeysOf({u})
    /\ op[t] = "delete" =>
           /\ caller[t] \in Admins
           /\ left[t] \subseteq who[t]
           /\ keys[t] \subseteq Ledger!KeysOf(who[t])
           /\ \E u \in Users \ Admins :
                  /\ who[t] \subseteq Tree[u]
                  /\ \A v \in Tree[u] : v \in who[t] \/ user[v] = "deleted"

Intents == \A t \in Handlers : Intent(t)

\* A step that keeps the choice of handler s, one that reads more keys for it, and
\* one that ends s.
Kept(s) ==
    /\ op'[s] = op[s] /\ caller'[s] = caller[s] /\ keys'[s] = keys[s] /\ who'[s] = who[s]
    /\ left'[s] = left[s]
    /\ pc'[s] = pc[s] \/ pc[s] \notin {"idle", "enter"}
Selects(s) == \E u \in Users : SelectKeys(s, u)
Gone(s) == op'[s] = "none" /\ who'[s] = {} /\ pc'[s] = "idle"

\* Deleted users stay deleted.
LEMMA DeletedStay ==
    ASSUME TypeInv, [Next]_vars, NEW u \in Users, user[u] = "deleted"
    PROVE  user'[u] = "deleted"
  BY RowsMove DEF Publish, Reinvite, TypeInv, TypeOK

\* So an intent outlives the steps of others and of its own handler.
LEMMA KeptIntent ==
    ASSUME TypeInv, [Next]_vars, NEW s \in Handlers, Intent(s), Kept(s)
    PROVE  Intent(s)'
  <1>1. /\ pc'[s] # "idle" => caller'[s] \in Users
        /\ op'[s] = "none" => pc'[s] \in {"idle", "enter"}
        /\ op'[s] \notin {"friend", "delete"} => who'[s] = {}
    BY DEF Intent, Kept
  <1>2. /\ op'[s] = "issue" => \E k \in Keys : keys'[s] = {k}
        /\ op'[s] \in {"self", "admin", "all"} =>
               \E u \in Users : keys'[s] \subseteq Ledger!KeysOf({u}) /\ caller'[s] \in Admins \cup {u}
        /\ op'[s] = "friend" =>
               \E u \in Users : /\ who'[s] = {u} /\ Inviter[u] = caller'[s]
                                /\ keys'[s] \subseteq Ledger!KeysOf({u})
    BY DEF Intent, Kept
  <1>3. ASSUME op'[s] = "delete"
        PROVE  /\ caller'[s] \in Admins
               /\ left'[s] \subseteq who'[s]
               /\ keys'[s] \subseteq Ledger!KeysOf(who'[s])
               /\ \E u \in Users \ Admins :
                      /\ who'[s] \subseteq Tree[u]
                      /\ \A v \in Tree[u] : v \in who'[s] \/ user'[v] = "deleted"
    <2>1. PICK u \in Users \ Admins : /\ who[s] \subseteq Tree[u]
                                      /\ \A v \in Tree[u] : v \in who[s] \/ user[v] = "deleted"
      BY <1>3 DEF Intent, Kept
    <2>2. \A v \in Tree[u] : v \in who[s] \/ user'[v] = "deleted"
      BY <2>1, DeletedStay, UserAssumption
    <2> QED
      BY <1>3, <2>1, <2>2 DEF Intent, Kept
  <1> QED
    BY <1>1, <1>2, <1>3 DEF Intent, Ledger!KeysOf

\* A deletion that reads the keys of one more user of its tree.
LEMMA SelectsIntent ==
    ASSUME TypeInv, RowInv, NEW s \in Handlers, Intent(s), Selects(s)
    PROVE  Intent(s)'
  <1>0. s \in Tasks
    BY DEF Tasks
  <1>1. PICK u \in Users : SelectKeys(s, u)
    BY DEF Selects
  <1>2. pc[s] = "select" /\ op[s] = "delete" /\ u \in left[s]
    BY <1>1 DEF SelectKeys, RowInv, Deleting
  <1>3. /\ op'[s] = "delete" /\ caller'[s] = caller[s] /\ who'[s] = who[s] /\ UNCHANGED user
        /\ left'[s] \subseteq left[s]
        /\ keys'[s] = keys[s] \cup ActiveKeysOf(u)
    BY <1>0, <1>1, <1>2 DEF SelectKeys, db, TypeInv, TypeOK
  <1>4. /\ caller[s] \in Users /\ caller[s] \in Admins
        /\ left[s] \subseteq who[s] /\ keys[s] \subseteq Ledger!KeysOf(who[s])
        /\ \E v \in Users \ Admins :
               /\ who[s] \subseteq Tree[v]
               /\ \A w \in Tree[v] : w \in who[s] \/ user[w] = "deleted"
    BY <1>2 DEF Intent
  <1>5. ActiveKeysOf(u) \subseteq Ledger!KeysOf(who[s])
    BY <1>2, <1>4 DEF ActiveKeysOf, ActiveKeys, Ledger!KeysOf
  <1>6. keys'[s] \subseteq Ledger!KeysOf(who[s])
    BY <1>3, <1>4, <1>5
  <1> QED
    BY <1>3, <1>4, <1>6 DEF Intent, Ledger!KeysOf

\* Every step keeps the choice of a handler, reads more for it, ends it, or begins it.
LEMMA HandlerMoves ==
    ASSUME TypeInv, [Next]_vars, NEW s \in Handlers
    PROVE  Kept(s) \/ Selects(s) \/ Gone(s) \/ HandlerStarts(s)
  <1> USE DEF locals, loopState, world
  <1>0. s \in Tasks /\ s \notin Syncers /\ Handlers \subseteq Tasks /\ Syncers \subseteq Tasks
    BY TaskAssumption DEF Tasks
  <1>1. ASSUME NEW t \in Handlers, HandlerStarts(t), t # s
        PROVE  Kept(s)
    <2>1. CASE \E u \in Users : Arrive(t, u)
      BY <1>0, <1>1, <2>1 DEF Arrive, Goto, Kept, TypeInv, TypeOK
    <2>2. CASE \E k \in Keys : Issue(t, k)
      BY <1>0, <1>1, <2>2 DEF Issue, Goto, Kept, TypeInv, TypeOK
    <2>3. ASSUME NEW o, NEW S, NEW U, Revoke(t, o, S, U)
          PROVE  Kept(s)
      BY <1>0, <1>1, <2>3 DEF Revoke, Goto, Kept, TypeInv, TypeOK
    <2> QED
      BY <1>1, <2>1, <2>2, <2>3 DEF HandlerStarts, SubDelete, AdminSubRevokeConfirm,
         AdminSubRevokeAll, DeleteConfirm, FriendsRevokeConfirm
  <1>2. ASSUME NEW t \in Tasks, Finish(t)
        PROVE  Kept(s) \/ Gone(s)
    BY <1>0, <1>2 DEF Finish, Kept, Gone, TypeInv, TypeOK
  <1>3. ASSUME NEW t \in Tasks, NEW p, Goto(t, p), pc[t] \notin {"idle", "enter"} \/ t # s,
               UNCHANGED locals
        PROVE  Kept(s)
    BY <1>0, <1>3 DEF Goto, Kept, TypeInv, TypeOK
  <1>4. ASSUME NEW t \in Handlers, HandlerStep(t)
        PROVE  Kept(s) \/ Selects(s) \/ Gone(s)
    <2>1. ASSUME NEW u \in Users, SelectKeys(t, u), t # s
          PROVE  Kept(s)
      BY <1>0, <2>1 DEF SelectKeys, Goto, Kept, TypeInv, TypeOK
    <2>2. CASE \E u \in Users : SelectKeys(t, u)
      BY <2>1, <2>2 DEF Selects
    <2>3. CASE ~\E u \in Users : SelectKeys(t, u)
      BY <1>0, <1>2, <1>3, <1>4, <2>3 DEF HandlerStep, IssueRefused, Deactivate, ChangeUsers,
         DeleteRows, DeadlockAbort, Reply, CommitEarly, CommitAndEnd
    <2> QED
      BY <2>2, <2>3
  <1>5. ASSUME NEW t \in Syncers, SyncStep(t)
        PROVE  Kept(s) \/ Gone(s)
    BY <1>0, <1>2, <1>3, <1>5 DEF SyncStep, SyncStart, SyncNothing, SyncDone, Kept
  <1>6. ASSUME NEW t \in Tasks, NEW e, CallReturns(t, e)
        PROVE  Kept(s)
    <2>1. pc[t] \in CallPoints
      BY <1>6 DEF CallReturns, TypeInv
    <2> QED
      BY <1>3, <1>6, <2>1 DEF CallReturns, CallPoints, Kept
  <1>7. ASSUME NEW t \in Tasks, RelayStep(t)
        PROVE  Kept(s)
    <2>1. CASE (\E k \in Keys : NextKey(t, k)) \/ LoopDone(t) \/ ReadCredentials(t)
      BY <1>3, <2>1 DEF NextKey, LoopDone, ReadCredentials
    <2>2. CASE ~((\E k \in Keys : NextKey(t, k)) \/ LoopDone(t) \/ ReadCredentials(t))
      BY <1>6, <1>7, <2>2 DEF RelayStep, RemoveLegacy, RemoveCurrent, AddClient, CallXray, PushCredentials
    <2> QED
      BY <2>1, <2>2
  <1>8. CASE Failure
    <2>1. CASE BotRestart
      BY <1>0, <2>1 DEF BotRestart, Gone
    <2>2. CASE ~BotRestart
      BY <1>0, <1>2, <1>3, <1>6, <1>8, <2>2
      DEF Failure, CallFails, CallTimesOut, LateCall, ReadFails, HandlerRaises, XrayRestart,
          HookGivesUp, Kept
    <2> QED
      BY <2>1, <2>2
  <1>9. ASSUME NEW u \in Users, Reinvite(u)
        PROVE  Kept(s)
    BY <1>9 DEF Reinvite, Kept
  <1>10. CASE UNCHANGED vars
    BY <1>10 DEF vars, Kept
  <1>11. ASSUME NEW t \in HookSyncs, HookTimesOut(t)
        PROVE  Kept(s)
    BY <1>11 DEF HookTimesOut, Kept
  <1> QED
    BY <1>1, <1>4, <1>5, <1>7, <1>8, <1>9, <1>10, <1>11 DEF Next

\* A handler begins with the keys and users it may change, as it reads them.
LEMMA StartsIntent ==
    ASSUME TypeInv, RowInv, NEW t \in Handlers, Intent(t), HandlerStarts(t)
    PROVE  Intent(t)'
  <1> USE DEF db, world
  <1>0. t \in Tasks /\ (pc[t] \in {"idle", "enter"} => op[t] = "none" /\ who[t] = {})
    BY DEF Tasks, RowInv, Unstarted, Intent
  <1>1. ASSUME NEW u \in Users, Arrive(t, u)
        PROVE  Intent(t)'
    BY <1>0, <1>1 DEF Arrive, Goto, Intent, TypeInv, TypeOK
  <1>2. ASSUME NEW k \in Keys, Issue(t, k)
        PROVE  Intent(t)'
    BY <1>0, <1>2 DEF Issue, Goto, Intent, TypeInv, TypeOK
  <1>3. ASSUME NEW o, NEW S, NEW U, Revoke(t, o, S, U)
        PROVE  /\ caller[t] \in Users /\ caller'[t] = caller[t] /\ UNCHANGED user
               /\ pc'[t] \in {"select", "update"} /\ op'[t] = o /\ keys'[t] = S /\ who'[t] = U
               /\ left'[t] \subseteq U
    BY <1>0, <1>3 DEF Revoke, Goto, Intent, TypeInv, TypeOK
  <1>4. ASSUME NEW k \in Keys, SubDelete(t, k) \/ AdminSubRevokeConfirm(t, k)
        PROVE  Intent(t)'
    <2>1. Owner[k] \in Users /\ {k} \subseteq Ledger!KeysOf({Owner[k]})
      BY KeyAssumption DEF Ledger!KeysOf
    <2>2. CASE SubDelete(t, k)
      <3>1. Revoke(t, "self", {k}, {}) /\ caller[t] = Owner[k]
        BY <2>2 DEF SubDelete
      <3> QED
        BY <1>3, <2>1, <3>1 DEF Intent, Ledger!KeysOf
    <2>3. CASE AdminSubRevokeConfirm(t, k)
      <3>1. Revoke(t, "admin", {k}, {}) /\ caller[t] \in Admins
        BY <2>3 DEF AdminSubRevokeConfirm
      <3> QED
        BY <1>3, <2>1, <3>1 DEF Intent, Ledger!KeysOf
    <2> QED
      BY <1>4, <2>2, <2>3
  <1>5. ASSUME NEW u \in Users, AdminSubRevokeAll(t, u)
        PROVE  Intent(t)'
    <2>1. Revoke(t, "all", ActiveKeysOf(u), {}) /\ caller[t] \in Admins
      BY <1>5 DEF AdminSubRevokeAll
    <2>2. ActiveKeysOf(u) \subseteq Ledger!KeysOf({u})
      BY DEF ActiveKeysOf, ActiveKeys, Ledger!KeysOf
    <2> QED
      BY <1>3, <2>1, <2>2 DEF Intent, Ledger!KeysOf
  <1>6. ASSUME NEW u \in Users, FriendsRevokeConfirm(t, u)
        PROVE  Intent(t)'
    <2>1. Revoke(t, "friend", ActiveKeysOf(u), {u}) /\ Inviter[u] = caller[t]
      BY <1>6 DEF FriendsRevokeConfirm
    <2>2. ActiveKeysOf(u) \subseteq Ledger!KeysOf({u})
      BY DEF ActiveKeysOf, ActiveKeys, Ledger!KeysOf
    <2> QED
      BY <1>3, <2>1, <2>2 DEF Intent, Ledger!KeysOf
  <1>7. ASSUME NEW u \in Users, DeleteConfirm(t, u)
        PROVE  Intent(t)'
    <2> DEFINE U == {v \in Tree[u] : user[v] # "deleted"}
    <2>1. Revoke(t, "delete", {}, U) /\ caller[t] \in Admins /\ u \notin Admins
      BY <1>7 DEF DeleteConfirm, Deletable
    <2>3. U \subseteq Tree[u] /\ \A v \in Tree[u] : v \in U \/ user[v] = "deleted"
      OBVIOUS
    <2> HIDE DEF U
    <2> QED
      BY <1>3, <2>1, <2>3 DEF Intent, Ledger!KeysOf
  <1> QED
    BY <1>1, <1>2, <1>4, <1>5, <1>6, <1>7 DEF HandlerStarts

LEMMA NextIntents == TypeInv /\ RowInv /\ Intents /\ [Next]_vars => Intents'
  <1> SUFFICES ASSUME TypeInv, RowInv, Intents, [Next]_vars, NEW s \in Handlers
               PROVE  Intent(s)'
    BY DEF Intents
  <1>1. Gone(s) => Intent(s)'
    BY DEF Gone, Intent
  <1> QED
    BY <1>1, HandlerMoves, KeptIntent, SelectsIntent, StartsIntent DEF Intents

LEMMA InitIntents == Init => Intents
  BY DEF Init, Intents, Intent, Tasks

\* A commit is one operation of the ledger, by what its handler is.
LEMMA PublishLedger ==
    ASSUME TypeInv, RowInv, NEW t \in Handlers, Intent(t), pc[t] = "commit", Publish(t)
    PROVE  Ledger!Next
  <1>0. /\ t \in Tasks /\ op[t] \in Ops /\ caller[t] \in Users /\ op[t] # "none"
        /\ row \in [Keys -> {"none", "active", "revoked"}]
        /\ user \in [Users -> {"active", "inactive", "deleted"}]
        /\ keys[t] \subseteq Keys /\ who[t] \subseteq Users
    BY DEF Tasks, TypeInv, TypeOK, Intent
  <1>1. CASE op[t] = "issue"
    <2>1. PICK k \in Keys : keys[t] = {k}
      BY <1>1 DEF Intent
    <2>2. row[k] = "none" /\ user[Owner[k]] # "deleted" /\ who[t] = {}
      BY <1>1, <2>1 DEF RowInv, IssuedKeys, Intent
    <2>3. row' = [row EXCEPT ![k] = "active"] /\ user' = user
      BY <1>0, <1>1, <2>1, <2>2 DEF Publish
    <2> QED
      BY <2>2, <2>3 DEF Ledger!Issue, Ledger!Next
  <1>2. CASE op[t] \in {"self", "admin", "all"}
    <2>1. PICK u \in Users : keys[t] \subseteq Ledger!KeysOf({u}) /\ caller[t] \in Admins \cup {u}
      BY <1>2 DEF Intent
    <2>2. who[t] = {}
      BY <1>2 DEF Intent
    <2>3. row' = Ledger!Without(keys[t]) /\ user' = user
      BY <1>0, <1>2, <2>2 DEF Publish, Ledger!Without
    <2>4. Ledger!Revoke(caller[t], u, keys[t])
      BY <2>1, <2>3 DEF Ledger!Revoke
    <2> QED
      BY <1>0, <2>1, <2>4 DEF Ledger!Next
  <1>3. CASE op[t] = "friend"
    <2>1. PICK u \in Users : /\ who[t] = {u} /\ Inviter[u] = caller[t]
                             /\ keys[t] \subseteq Ledger!KeysOf({u})
      BY <1>3 DEF Intent
    <2>2. row' = Ledger!Without(keys[t])
      BY <1>0, <1>3 DEF Publish, Ledger!Without
    <2>3. user' = [user EXCEPT ![u] = IF @ = "active" THEN "inactive" ELSE @]
      BY <1>0, <1>3, <2>1 DEF Publish
    <2>4. Ledger!RevokeFriend(caller[t], u, keys[t])
      BY <2>1, <2>2, <2>3 DEF Ledger!RevokeFriend
    <2> QED
      BY <1>0, <2>1, <2>4 DEF Ledger!Next
  <1>4. CASE op[t] = "delete"
    <2>1. PICK u \in Users \ Admins :
              /\ who[t] \subseteq Tree[u]
              /\ \A v \in Tree[u] : v \in who[t] \/ user[v] = "deleted"
      BY <1>4 DEF Intent
    <2>2. keys[t] \subseteq Ledger!KeysOf(who[t]) /\ caller[t] \in Admins
      BY <1>4 DEF Intent
    <2>3. \A k \in Keys : row[k] = "active" => (Owner[k] \in Tree[u] <=> Owner[k] \in who[t])
      BY <2>1, KeyAssumption DEF RowInv, DeletedUserHasNoKey, ActiveKeysOf, ActiveKeys
    <2>4. row' = Ledger!Without(Ledger!KeysOf(Tree[u]))
      BY <1>0, <1>4, <2>2, <2>3 DEF Publish, Ledger!Without, Ledger!KeysOf
    <2>5. user' = [v \in Users |-> IF v \in Tree[u] THEN "deleted" ELSE user[v]]
      BY <1>0, <1>4, <2>1 DEF Publish
    <2>6. Ledger!Delete(caller[t], u)
      BY <2>1, <2>2, <2>4, <2>5 DEF Ledger!Delete
    <2> QED
      BY <1>0, <2>6 DEF Ledger!Next
  <1> QED
    BY <1>0, <1>1, <1>2, <1>3, <1>4 DEF Ops, Revocations

LEMMA LedgerStep == TypeInv /\ RowInv /\ Intents /\ [Next]_vars => [Ledger!Next]_<<row, user>>
  <1> SUFFICES ASSUME TypeInv, RowInv, Intents, [Next]_vars
               PROVE  [Ledger!Next]_<<row, user>>
    OBVIOUS
  <1>1. ASSUME NEW u \in Users, Reinvite(u)
        PROVE  Ledger!Next
    BY <1>1 DEF Reinvite, Ledger!Readmit, Ledger!Next
  <1> QED
    BY <1>1, RowsMove, PublishLedger DEF Intents

LEMMA InitLedger == Init => Ledger!Init
  BY DEF Init, Ledger!Init

\* The handlers implement the ledger: whatever runs beside a handler, and
\* whether it waits, is aborted or fails, its commit is one whole operation that
\* its caller may ask for, on the rows as they are at that moment; and nothing
\* else changes rows.
THEOREM LedgerKept == Spec => KeepsLedger
  <1>1. Spec => []Intents
    BY InitIntents, NextIntents, RowInvariant, PTL DEF Spec
  <1> QED
    BY <1>1, InitLedger, LedgerStep, RowInvariant, PTL DEF Spec, KeepsLedger, Ledger!Spec

\* What readers of the ledger may rely on follows from the ledger alone: a deleted
\* user stays deleted and has no active key, and a key that was revoked stays so.
Final ==
    /\ \A k \in Keys : row[k] = "revoked" => row'[k] = "revoked"
    /\ \A u \in Users : user[u] = "deleted" => user'[u] = "deleted"

THEOREM LedgerPromises == Ledger!Spec => []DeletedUserHasNoKey /\ [][Final]_db
  <1> DEFINE LedgerInv ==
                 /\ row \in [Keys -> {"none", "active", "revoked"}]
                 /\ user \in [Users -> {"active", "inactive", "deleted"}]
                 /\ DeletedUserHasNoKey
  <1> USE DEF DeletedUserHasNoKey, ActiveKeysOf, ActiveKeys
  <1>1. Ledger!Init => LedgerInv
    BY DEF Ledger!Init
  <1>2. ASSUME LedgerInv, [Ledger!Next]_<<row, user>>
        PROVE  LedgerInv' /\ [Final]_db
    <2> USE DEF Final, db
    <2>1. ASSUME NEW k \in Keys, Ledger!Issue(k)
          PROVE  LedgerInv' /\ Final
      BY <1>2, <2>1, KeyAssumption DEF Ledger!Issue
    <2>2. ASSUME NEW u \in Users, Ledger!Readmit(u)
          PROVE  LedgerInv' /\ Final
      BY <1>2, <2>2 DEF Ledger!Readmit
    <2>3. ASSUME NEW c, NEW u \in Users, NEW S,
                 Ledger!Revoke(c, u, S) \/ Ledger!RevokeFriend(c, u, S)
          PROVE  LedgerInv' /\ Final
      BY <1>2, <2>3 DEF Ledger!Revoke, Ledger!RevokeFriend, Ledger!Without
    <2>4. ASSUME NEW c, NEW u \in Users, Ledger!Delete(c, u)
          PROVE  LedgerInv' /\ Final
      BY <1>2, <2>4 DEF Ledger!Delete, Ledger!Without, Ledger!KeysOf
    <2>5. CASE UNCHANGED <<row, user>>
      BY <1>2, <2>5
    <2> QED
      BY <1>2, <2>1, <2>2, <2>3, <2>4, <2>5 DEF Ledger!Next
  <1>3. LedgerInv => DeletedUserHasNoKey
    OBVIOUS
  <1> QED
    BY <1>1, <1>2, <1>3, PTL DEF Ledger!Spec

-----------------------------------------------------------------------------
(***************************************************************************)
(* Active keys on the Xray servers.                                         *)
(***************************************************************************)
(* The inductive invariant.                                                 *)

NoFault == faults = MaxFaults

\* A handler's loop is about the keys it changes; only a revocation removes
\* clients, and only the handler that issues a key adds one, of this key.
LoopOfHandler(t) ==
    /\ todo[t] \subseteq keys[t]
    /\ cur[t] \in keys[t] \cup {None}
    /\ pc[t] \in {"idle", "enter"} => todo[t] = {} /\ cur[t] = None
    /\ pc[t] \in {"select", "update", "users", "rows", "loop", "rm_legacy", "rm_current"} => op[t] \in Revocations
    /\ pc[t] = "add" => op[t] = "issue" /\ keys[t] = {cur[t]}
    /\ op[t] = "none" => pc[t] \in {"idle", "enter"}

\* No relay has restarted, so no webhook syncs beside the periodic sync, which
\* removes no client of the current name.
OneSync ==
    /\ \A s \in HookSyncs : pc[s] = "idle"
    /\ hooks = {}
    /\ pc[Periodic] \in {"idle", "loop", "rm_legacy", "add", "hyst", "push", "done"}

\* The key that t issues is on the relays that t has called.
IssuedOnRelays(t) ==
    \A k \in keys[t], e \in XrayEndpoints :
        \/ pc[t] = "add" /\ e \in calls[t]
        \/ <<k, "current">> \in xray[e]

\* t has begun to change what the relays know of k; it cannot be aborted any
\* more, and its commit revokes k.
Removing(t, k) == op[t] \in Revocations /\ k \in keys[t] /\ pc[t] \notin BeforeUsers \cup {"rows"}

\* The sync has the call to e that adds k before it.
Migrating(k, e) ==
    /\ cur[Periodic] = k
    /\ pc[Periodic] = "rm_legacy" \/ (pc[Periodic] = "add" /\ e \in calls[Periodic])

OnXray(k, e) == <<k, "current">> \in xray[e] \/ <<k, "legacy">> \in xray[e]

ActiveServed ==
    \A k \in ActiveKeys, e \in XrayEndpoints :
        OnXray(k, e) \/ Migrating(k, e) \/ \E t \in Handlers : Removing(t, k)

ServedInv ==
    /\ \A t \in Handlers : LoopOfHandler(t)
    /\ \A t \in Handlers : op[t] = "issue" => IssuedOnRelays(t)
    /\ OneSync
    /\ ActiveServed

ServedUnlessFault == NoFault => ServedInv


-----------------------------------------------------------------------------
(* Steps that change no row and no client.                                  *)

\* The step leaves the task s alone.
Same(s) ==
    /\ pc'[s] = pc[s] /\ op'[s] = op[s] /\ keys'[s] = keys[s]
    /\ todo'[s] = todo[s] /\ cur'[s] = cur[s] /\ calls'[s] = calls[s]

\* Goto leaves the calls of the other tasks alone.
LEMMA GotoAlone ==
    ASSUME TypeInv, NEW t \in Tasks, NEW p, Goto(t, p)
    PROVE  /\ pc'[t] = p
           /\ p = "add" => calls'[t] = XrayEndpoints
           /\ \A s \in Tasks \ {t} : pc'[s] = pc[s] /\ calls'[s] = calls[s]
  BY DEF Goto, TypeInv, TypeOK

LEMMA FinishAlone ==
    ASSUME TypeInv, NEW t \in Tasks, Finish(t)
    PROVE  /\ pc'[t] = "idle" /\ op'[t] = "none" /\ todo'[t] = {} /\ cur'[t] = None
           /\ \A s \in Tasks \ {t} : Same(s)
  BY DEF Finish, Same, TypeInv, TypeOK

\* A step of one handler, which may take clients of the keys it revokes from the
\* relays.
LEMMA HandlerCalls ==
    ASSUME TypeInv, ServedInv, NEW t \in Handlers,
           \A s \in Tasks \ {t} : Same(s),
           UNCHANGED <<row, hooks>>,
           LoopOfHandler(t)',
           op'[t] = "issue" => IssuedOnRelays(t)',
           \A k \in ActiveKeys : Removing(t, k) => Removing(t, k)',
           \A k \in ActiveKeys, e \in XrayEndpoints :
               OnXray(k, e) => OnXray(k, e)' \/ Removing(t, k)',
           \A s \in Handlers \ {t} : op[s] = "issue" =>
               \A k \in keys[s], e \in XrayEndpoints :
                   <<k, "current">> \in xray[e] => <<k, "current">> \in xray'[e]
    PROVE  ServedInv'
  <1>0. /\ Handlers \subseteq Tasks
        /\ HookSyncs \subseteq Tasks \ {t}
        /\ Periodic \in Tasks \ {t}
    BY TaskAssumption DEF Tasks, Syncers
  <1>1. \A s \in Handlers : LoopOfHandler(s)'
    BY <1>0 DEF ServedInv, LoopOfHandler, Same
  <1>2. \A s \in Handlers : op'[s] = "issue" => IssuedOnRelays(s)'
    BY <1>0, ZenonT(40) DEF ServedInv, IssuedOnRelays, Same
  <1>3. OneSync'
    BY <1>0 DEF ServedInv, OneSync, Same
  <1>4. ActiveServed'
    <2> SUFFICES ASSUME NEW k \in ActiveKeys, NEW e \in XrayEndpoints
                 PROVE  OnXray(k, e)' \/ Migrating(k, e)' \/ \E s \in Handlers : Removing(s, k)'
      BY DEF ActiveServed, ActiveKeys
    <2>1. Migrating(k, e) => Migrating(k, e)'
      BY <1>0 DEF Migrating, Same
    <2>2. ASSUME NEW s \in Handlers, Removing(s, k)
          PROVE  Removing(s, k)'
      BY <1>0, <2>2 DEF Removing, Same
    <2> QED
      BY <2>1, <2>2 DEF ServedInv, ActiveServed
  <1> QED
    BY <1>1, <1>2, <1>3, <1>4 DEF ServedInv

LEMMA HandlerMove ==
    ASSUME TypeInv, ServedInv, NEW t \in Handlers,
           \A s \in Tasks \ {t} : Same(s),
           UNCHANGED <<row, xray, hooks>>,
           LoopOfHandler(t)',
           op'[t] = "issue" => IssuedOnRelays(t)',
           \A k \in ActiveKeys : Removing(t, k) => Removing(t, k)'
    PROVE  ServedInv'
  BY HandlerCalls DEF OnXray

\* A step of the periodic sync, which takes no client of the current name from a
\* relay, and adds the key whose old client it takes.
LEMMA SyncCalls ==
    ASSUME TypeInv, ServedInv,
           \A s \in Tasks \ {Periodic} : Same(s),
           UNCHANGED row, hooks' \subseteq hooks,
           OneSync',
           \A k \in ActiveKeys, e \in XrayEndpoints :
               OnXray(k, e) \/ Migrating(k, e) => OnXray(k, e)' \/ Migrating(k, e)',
           \A k \in Keys, e \in XrayEndpoints :
               <<k, "current">> \in xray[e] => <<k, "current">> \in xray'[e]
    PROVE  ServedInv'
  <1>0. /\ Handlers \subseteq Tasks \ {Periodic}
        /\ HookSyncs \subseteq Tasks \ {Periodic}
        /\ \A s \in Handlers : keys[s] \subseteq Keys
    BY TaskAssumption DEF Tasks, Syncers, TypeInv, TypeOK
  <1>1. \A s \in Handlers : LoopOfHandler(s)'
    BY <1>0 DEF ServedInv, LoopOfHandler, Same
  <1>2. \A s \in Handlers : op'[s] = "issue" => IssuedOnRelays(s)'
    BY <1>0 DEF ServedInv, IssuedOnRelays, Same
  <1>3. ActiveServed'
    <2> SUFFICES ASSUME NEW k \in ActiveKeys, NEW e \in XrayEndpoints
                 PROVE  OnXray(k, e)' \/ Migrating(k, e)' \/ \E s \in Handlers : Removing(s, k)'
      BY DEF ActiveServed, ActiveKeys
    <2>1. ASSUME NEW s \in Handlers, Removing(s, k)
          PROVE  Removing(s, k)'
      BY <1>0, <2>1 DEF Removing, Same
    <2> QED
      BY <2>1 DEF ServedInv, ActiveServed
  <1> QED
    BY <1>1, <1>2, <1>3 DEF ServedInv

LEMMA SyncMove ==
    ASSUME TypeInv, ServedInv,
           \A s \in Tasks \ {Periodic} : Same(s),
           UNCHANGED <<row, xray>>, hooks' \subseteq hooks,
           OneSync',
           \A k \in ActiveKeys, e \in XrayEndpoints : Migrating(k, e) => Migrating(k, e)'
    PROVE  ServedInv'
  BY SyncCalls DEF OnXray

-----------------------------------------------------------------------------
(* The beginning of a handler.                                              *)

LEMMA RevokeServed ==
    ASSUME TypeInv, RowInv, ServedInv, NEW t \in Handlers, NEW o \in Revocations,
           NEW S \in SUBSET Keys, NEW U, Revoke(t, o, S, U)
    PROVE  ServedInv'
  <1> USE DEF db, relays, loopState, world
  <1>0. t \in Tasks
    BY DEF Tasks
  <1>1. /\ pc[t] = "enter" /\ pc'[t] \in {"select", "update"}
        /\ op'[t] = o /\ keys'[t] = S /\ todo'[t] = S
        /\ UNCHANGED <<row, xray, hooks, cur>>
        /\ \A s \in Tasks \ {t} : Same(s)
    BY <1>0, GotoAlone DEF Revoke, Same, TypeInv, TypeOK
  <1>2. LoopOfHandler(t)'
    BY <1>0, <1>1, UserAssumption DEF ServedInv, LoopOfHandler, Revocations
  <1>3. \A k \in ActiveKeys : ~Removing(t, k)
    BY <1>1 DEF Removing, BeforeUsers
  <1> QED
    BY <1>1, <1>2, <1>3, HandlerMove DEF Revocations

LEMMA HandlerStartsServed ==
    ASSUME TypeInv, RowInv, ServedInv, NEW t \in Handlers, HandlerStarts(t)
    PROVE  ServedInv'
  <1> USE DEF db, relays, loopState, world
  <1>0. t \in Tasks
    BY DEF Tasks
  <1>1. ASSUME NEW u \in Users, Arrive(t, u)
        PROVE  ServedInv'
    <2>1. /\ pc[t] = "idle" /\ pc'[t] = "enter" /\ op[t] = "none"
          /\ UNCHANGED <<row, xray, hooks, op, keys, todo, cur>>
          /\ \A s \in Tasks \ {t} : Same(s)
      BY <1>0, <1>1, GotoAlone DEF Arrive, Same, RowInv, Unstarted
    <2>2. LoopOfHandler(t)'
      BY <2>1 DEF ServedInv, LoopOfHandler
    <2>3. \A k \in ActiveKeys : ~Removing(t, k)
      BY <2>1 DEF Removing, Revocations
    <2> QED
      BY <2>1, <2>2, <2>3, HandlerMove
  <1>2. ASSUME NEW k \in Keys, Issue(t, k)
        PROVE  ServedInv'
    <2>1. /\ pc[t] = "enter" /\ pc'[t] = "add" /\ calls'[t] = XrayEndpoints
          /\ op'[t] = "issue" /\ keys'[t] = {k} /\ cur'[t] = k
          /\ UNCHANGED <<row, xray, hooks, todo>>
          /\ \A s \in Tasks \ {t} : Same(s)
      BY <1>0, <1>2, GotoAlone DEF Issue, Same, TypeInv, TypeOK
    <2>2. LoopOfHandler(t)'
      BY <2>1 DEF ServedInv, LoopOfHandler
    <2>3. IssuedOnRelays(t)'
      BY <2>1 DEF IssuedOnRelays
    <2>4. \A j \in ActiveKeys : ~Removing(t, j)
      BY <2>1 DEF Removing, BeforeUsers
    <2> QED
      BY <2>1, <2>2, <2>3, <2>4, HandlerMove
  <1>3. ASSUME NEW k \in Keys, SubDelete(t, k)
        PROVE  ServedInv'
    BY <1>3, RevokeServed DEF SubDelete, Revocations
  <1>4. ASSUME NEW k \in Keys, AdminSubRevokeConfirm(t, k)
        PROVE  ServedInv'
    BY <1>4, RevokeServed DEF AdminSubRevokeConfirm, Revocations
  <1>5. ASSUME NEW u \in Users, AdminSubRevokeAll(t, u)
        PROVE  ServedInv'
    BY <1>5, RevokeServed DEF AdminSubRevokeAll, ActiveKeysOf, ActiveKeys, Revocations
  <1>6. ASSUME NEW u \in Users, DeleteConfirm(t, u)
        PROVE  ServedInv'
    BY <1>6, RevokeServed DEF DeleteConfirm, Revocations
  <1>7. ASSUME NEW u \in Users, FriendsRevokeConfirm(t, u)
        PROVE  ServedInv'
    BY <1>7, RevokeServed DEF FriendsRevokeConfirm, ActiveKeysOf, ActiveKeys, Revocations
  <1> QED
    BY <1>1, <1>2, <1>3, <1>4, <1>5, <1>6, <1>7 DEF HandlerStarts

-----------------------------------------------------------------------------
(* The statements, the commit and the end of a handler.                     *)

\* A handler that ends before it removes a client, or after its keys were
\* revoked.
LEMMA EndServed ==
    ASSUME TypeInv, ServedInv, NEW t \in Handlers, Finish(t),
           UNCHANGED <<row, xray, hooks>>,
           \A k \in ActiveKeys : ~Removing(t, k)
    PROVE  ServedInv'
  <1>0. t \in Tasks
    BY DEF Tasks
  <1>1. /\ pc'[t] = "idle" /\ op'[t] = "none" /\ todo'[t] = {} /\ cur'[t] = None
        /\ \A s \in Tasks \ {t} : Same(s)
    BY <1>0, FinishAlone
  <1>2. LoopOfHandler(t)'
    BY <1>1 DEF LoopOfHandler
  <1> QED
    BY <1>1, <1>2, HandlerMove

LEMMA SelectKeysServed ==
    ASSUME TypeInv, RowInv, ServedInv, NEW t \in Handlers, NEW u \in Users, SelectKeys(t, u)
    PROVE  ServedInv'
  <1> USE DEF db, relays, locals, world
  <1> DEFINE p == IF ActiveKeysOf(u) # {} THEN "update" ELSE NextOfTree(t)'
  <1>0. t \in Tasks
    BY DEF Tasks
  <1>1. p \in {"update", "users", "select"} /\ Goto(t, p)
    BY DEF SelectKeys, NextOfTree
  <1> HIDE DEF p
  <1>2. /\ pc[t] = "select" /\ pc'[t] = p
        /\ todo'[t] = ActiveKeysOf(u) /\ keys'[t] = keys[t] \cup ActiveKeysOf(u)
        /\ UNCHANGED <<row, xray, hooks, op, cur>>
        /\ \A s \in Tasks \ {t} : Same(s)
    BY <1>0, <1>1, GotoAlone DEF SelectKeys, Same, TypeInv, TypeOK
  <1>3. op[t] \in Revocations
    BY <1>2 DEF ServedInv, LoopOfHandler
  <1>4. LoopOfHandler(t)'
    BY <1>1, <1>2, <1>3 DEF ServedInv, LoopOfHandler, Revocations
  <1>5. \A k \in ActiveKeys : ~Removing(t, k)
    BY <1>2 DEF Removing, BeforeUsers
  <1> QED
    BY <1>2, <1>3, <1>4, <1>5, HandlerMove DEF Revocations

LEMMA DeactivateServed ==
    ASSUME TypeInv, ServedInv, NEW t \in Handlers, Deactivate(t)
    PROVE  ServedInv'
  <1> USE DEF db, relays, locals, world
  <1> DEFINE p == IF op[t] = "friend" THEN "users" ELSE IF op[t] = "delete" THEN NextOfTree(t) ELSE "loop"
  <1>0. t \in Tasks
    BY DEF Tasks
  <1>1. p \in {"users", "select", "loop"} /\ Goto(t, p)
    BY DEF Deactivate, NextOfTree
  <1> HIDE DEF p
  <1>2. /\ pc[t] = "update" /\ pc'[t] = p /\ todo'[t] \subseteq todo[t]
        /\ UNCHANGED <<row, xray, hooks, op, keys, cur>>
        /\ \A s \in Tasks \ {t} : Same(s)
    BY <1>0, <1>1, GotoAlone DEF Deactivate, Same, TypeInv, TypeOK
  <1>3. op[t] \in Revocations
    BY <1>2 DEF ServedInv, LoopOfHandler
  <1>4. LoopOfHandler(t)'
    BY <1>1, <1>2, <1>3 DEF ServedInv, LoopOfHandler, Revocations
  <1>5. \A k \in ActiveKeys : ~Removing(t, k)
    BY <1>2 DEF Removing, BeforeUsers
  <1> QED
    BY <1>2, <1>3, <1>4, <1>5, HandlerMove DEF Revocations

LEMMA DeleteRowsServed ==
    ASSUME TypeInv, ServedInv, NEW t \in Handlers, DeleteRows(t)
    PROVE  ServedInv'
  <1> USE DEF db, relays, locals, world
  <1>0. t \in Tasks
    BY DEF Tasks
  <1>1. /\ pc[t] = "rows" /\ pc'[t] = "loop" /\ todo'[t] = keys[t]
        /\ UNCHANGED <<row, xray, hooks, op, keys, cur>>
        /\ \A s \in Tasks \ {t} : Same(s)
    BY <1>0, GotoAlone DEF DeleteRows, Same, TypeInv, TypeOK
  <1>2. op[t] \in Revocations
    BY <1>1 DEF ServedInv, LoopOfHandler
  <1>3. LoopOfHandler(t)'
    BY <1>1, <1>2 DEF ServedInv, LoopOfHandler, Revocations
  <1>4. \A k \in ActiveKeys : ~Removing(t, k)
    BY <1>1 DEF Removing
  <1> QED
    BY <1>1, <1>2, <1>3, <1>4, HandlerMove DEF Revocations

LEMMA ChangeUsersServed ==
    ASSUME TypeInv, ServedInv, NEW t \in Handlers, ChangeUsers(t)
    PROVE  ServedInv'
  <1> USE DEF db, relays, locals, loopState, world
  <1> DEFINE p == IF op[t] = "friend" THEN "commit" ELSE "rows"
  <1>0. t \in Tasks
    BY DEF Tasks
  <1>1. /\ pc[t] = "users" /\ pc'[t] = p
        /\ UNCHANGED <<row, xray, hooks, op, keys, todo, cur>>
        /\ \A s \in Tasks \ {t} : Same(s)
    <2>1. Goto(t, p)
      BY DEF ChangeUsers
    <2> HIDE DEF p
    <2> QED
      BY <1>0, <2>1, GotoAlone DEF ChangeUsers, Same
  <1>2. op[t] \in Revocations
    BY <1>1 DEF ServedInv, LoopOfHandler
  <1>3. LoopOfHandler(t)'
    BY <1>1, <1>2 DEF ServedInv, LoopOfHandler, Revocations
  <1>4. \A k \in ActiveKeys : ~Removing(t, k)
    BY <1>1 DEF Removing, BeforeUsers
  <1> QED
    BY <1>1, <1>2, <1>3, <1>4, HandlerMove DEF Revocations

LEMMA ReplyServed ==
    ASSUME TypeInv, RowInv, ServedInv, NEW t \in Handlers, Reply(t)
    PROVE  ServedInv'
  <1> USE DEF db, relays, locals, loopState, world
  <1>0. t \in Tasks
    BY DEF Tasks
  <1>1. CASE op[t] = "friend"
    <2>1. \A k \in keys[t] : row[k] = "revoked"
      BY <1>1 DEF Reply, RowInv, FriendCommitted
    <2>2. \A k \in ActiveKeys : ~Removing(t, k)
      BY <2>1 DEF Removing, ActiveKeys
    <2> QED
      BY <1>1, <2>2, EndServed DEF Reply
  <1>2. CASE op[t] # "friend"
    <2>1. /\ pc[t] = "reply" /\ pc'[t] = "commit"
          /\ UNCHANGED <<row, xray, hooks, op, keys, todo, cur>>
          /\ \A s \in Tasks \ {t} : Same(s)
      BY <1>0, <1>2, GotoAlone DEF Reply, Same
    <2>2. LoopOfHandler(t)'
      BY <2>1 DEF ServedInv, LoopOfHandler
    <2>3. op'[t] = "issue" => IssuedOnRelays(t)'
      BY <2>1 DEF ServedInv, IssuedOnRelays
    <2>4. \A k \in ActiveKeys : Removing(t, k) => Removing(t, k)'
      BY <2>1 DEF Removing, BeforeUsers
    <2> QED
      BY <2>1, <2>2, <2>3, <2>4, HandlerMove
  <1> QED
    BY <1>1, <1>2

\* The commit: a key that becomes active is on every relay, and no key that the
\* handler revokes stays active.
LEMMA PublishServed ==
    ASSUME TypeInv, RowInv, ServedInv, NEW t \in Handlers, pc[t] = "commit", Publish(t),
           \A s \in Tasks \ {t} : Same(s),
           UNCHANGED <<xray, hooks>>,
           LoopOfHandler(t)', op'[t] # "issue"
    PROVE  ServedInv'
  <1>0. /\ Handlers \subseteq Tasks
        /\ HookSyncs \subseteq Tasks \ {t}
        /\ Periodic \in Tasks \ {t}
    BY TaskAssumption DEF Tasks, Syncers
  <1>1. \A s \in Handlers : LoopOfHandler(s)'
    BY <1>0 DEF ServedInv, LoopOfHandler, Same
  <1>2. \A s \in Handlers : op'[s] = "issue" => IssuedOnRelays(s)'
    BY <1>0, ZenonT(40) DEF ServedInv, IssuedOnRelays, Same
  <1>3. OneSync'
    BY <1>0 DEF ServedInv, OneSync, Same
  <1>4. ActiveServed'
    <2> SUFFICES ASSUME NEW k \in Keys, row'[k] = "active", NEW e \in XrayEndpoints
                 PROVE  OnXray(k, e)' \/ Migrating(k, e)' \/ \E s \in Handlers : Removing(s, k)'
      BY DEF ActiveServed, ActiveKeys
    <2>1. CASE op[t] = "issue" /\ k \in keys[t]
      BY <2>1 DEF ServedInv, IssuedOnRelays, OnXray
    <2>2. CASE ~(op[t] = "issue" /\ k \in keys[t])
      <3>1. row[k] = "active" /\ (op[t] # "issue" => k \notin keys[t])
        BY <2>2 DEF Publish
      <3>2. ~Removing(t, k)
        BY <3>1 DEF Removing, Revocations
      <3>3. CASE OnXray(k, e)
        BY <3>3 DEF OnXray
      <3>4. CASE Migrating(k, e)
        BY <1>0, <3>4 DEF Migrating, Same
      <3>5. ASSUME NEW s \in Handlers, Removing(s, k)
            PROVE  Removing(s, k)'
        BY <1>0, <3>2, <3>5 DEF Removing, Same
      <3> QED
        BY <3>1, <3>3, <3>4, <3>5 DEF ServedInv, ActiveServed, ActiveKeys
    <2> QED
      BY <2>1, <2>2
  <1> QED
    BY <1>1, <1>2, <1>3, <1>4 DEF ServedInv

LEMMA HandlerStepServed ==
    ASSUME TypeInv, RowInv, ServedInv, NEW t \in Handlers, HandlerStep(t)
    PROVE  ServedInv'
  <1> USE DEF db, relays, locals, loopState, world
  <1>0. t \in Tasks
    BY DEF Tasks
  <1>1. CASE IssueRefused(t)
    <2>1. \A k \in ActiveKeys : ~Removing(t, k)
      BY <1>1 DEF IssueRefused, Removing, BeforeUsers
    <2> QED
      BY <1>1, <2>1, EndServed DEF IssueRefused
  <1>2. CASE Deactivate(t)
    BY <1>2, DeactivateServed
  <1>3. CASE ChangeUsers(t)
    BY <1>3, ChangeUsersServed
  <1>4. CASE DeadlockAbort(t)
    <2>1. WaitsFor(t) # {}
      BY <1>4 DEF DeadlockAbort, Deadlocked
    <2>2. \A k \in ActiveKeys : ~Removing(t, k)
      BY <2>1 DEF WaitsFor, Removing, BeforeUsers
    <2> QED
      BY <1>4, <2>2, EndServed DEF DeadlockAbort
  <1>5. CASE Reply(t)
    BY <1>5, ReplyServed
  <1>6. CASE CommitEarly(t)
    <2>1. /\ pc'[t] = "loop"
          /\ UNCHANGED <<xray, hooks, op, keys, todo, cur>>
          /\ \A s \in Tasks \ {t} : Same(s)
      BY <1>0, <1>6, GotoAlone DEF CommitEarly, Same
    <2>2. LoopOfHandler(t)' /\ op'[t] # "issue"
      BY <1>6, <2>1 DEF CommitEarly, ServedInv, LoopOfHandler, Revocations
    <2> QED
      BY <1>6, <2>1, <2>2, PublishServed DEF CommitEarly
  <1>7. CASE CommitAndEnd(t)
    <2>1. /\ pc'[t] = "idle" /\ op'[t] = "none" /\ todo'[t] = {} /\ cur'[t] = None
          /\ \A s \in Tasks \ {t} : Same(s)
      BY <1>0, <1>7, FinishAlone DEF CommitAndEnd
    <2>2. LoopOfHandler(t)'
      BY <2>1 DEF LoopOfHandler
    <2> QED
      BY <1>7, <2>1, <2>2, PublishServed DEF CommitAndEnd
  <1>8. ASSUME NEW u \in Users, SelectKeys(t, u)
        PROVE  ServedInv'
    BY <1>8, SelectKeysServed
  <1>9. CASE DeleteRows(t)
    BY <1>9, DeleteRowsServed
  <1> QED
    BY <1>1, <1>2, <1>3, <1>4, <1>5, <1>6, <1>7, <1>8, <1>9 DEF HandlerStep

-----------------------------------------------------------------------------
(* The synchronisation and the calls to relays.                             *)

LEMMA SyncStepServed ==
    ASSUME TypeInv, ServedInv, NEW t \in Syncers, SyncStep(t)
    PROVE  ServedInv'
  <1> USE DEF db, relays, locals, loopState, world
  <1>0. Periodic \in Tasks
    BY DEF Tasks, Syncers
  <1>1. t = Periodic
    BY DEF SyncStep, SyncStart, SyncNothing, SyncDone, SyncDue, ServedInv, OneSync, Syncers
  <1>2. CASE SyncStart(t)
    <2>1. /\ pc[t] = "idle" /\ pc'[t] = "loop" /\ hooks' \subseteq hooks
          /\ UNCHANGED <<row, xray>>
          /\ \A s \in Tasks \ {t} : Same(s)
      BY <1>0, <1>1, <1>2, GotoAlone DEF SyncStart, SyncDue, Received, Same, TypeInv, TypeOK
    <2>2. OneSync'
      BY <1>1, <2>1, TaskAssumption DEF ServedInv, OneSync, Same, Tasks, Syncers
    <2> QED
      BY <1>1, <2>1, <2>2, SyncMove DEF Migrating
  <1>3. CASE SyncNothing(t)
    <2>1. /\ hooks' \subseteq hooks
          /\ UNCHANGED <<row, xray, pc, cur, calls>>
          /\ \A s \in Tasks \ {t} : Same(s)
      BY <1>1, <1>3 DEF SyncNothing, SyncDue, Received, Same
    <2>2. OneSync'
      BY <2>1 DEF ServedInv, OneSync
    <2> QED
      BY <1>1, <2>1, <2>2, SyncMove DEF Migrating
  <1>4. CASE SyncDone(t)
    <2>1. /\ pc[t] = "done" /\ pc'[t] = "idle" /\ hooks' \subseteq hooks
          /\ UNCHANGED <<row, xray>>
          /\ \A s \in Tasks \ {t} : Same(s)
      BY <1>0, <1>1, <1>4, FinishAlone DEF SyncDone
    <2>2. OneSync'
      BY <1>1, <2>1, TaskAssumption DEF ServedInv, OneSync, Same, Tasks, Syncers
    <2> QED
      BY <1>1, <2>1, <2>2, SyncMove DEF Migrating
  <1> QED
    BY <1>2, <1>3, <1>4 DEF SyncStep

\* While nothing has failed, a task in the middle of something is a handler or
\* the periodic sync.
LEMMA AtWork ==
    ASSUME ServedInv, NEW t \in Tasks, pc[t] # "idle"
    PROVE  t \in Handlers \/ t = Periodic
  BY DEF ServedInv, OneSync, Tasks, Syncers

\* What a call that returns changes of its task.
LEMMA CallAlone ==
    ASSUME TypeInv, NEW t \in Tasks, NEW e, CallReturns(t, e)
    PROVE  /\ UNCHANGED <<row, hooks>>
           /\ op'[t] = op[t] /\ keys'[t] = keys[t] /\ todo'[t] = todo[t]
           /\ \A s \in Tasks \ {t} : Same(s)
           /\ e \in calls[t] /\ pc[t] \in CallPoints
           /\ \/ pc'[t] = pc[t] /\ calls'[t] = calls[t] \ {e} /\ cur'[t] = cur[t]
              \/ /\ pc'[t] = AfterCalls(t) /\ calls[t] = {e}
                 /\ pc'[t] = "add" => calls'[t] = XrayEndpoints
                 /\ cur'[t] = IF pc[t] = "rm_legacy" THEN cur[t] ELSE None
  <1> USE DEF db, locals
  <1>1. e \in calls[t] /\ pc[t] \in CallPoints
    BY DEF CallReturns, TypeInv
  <1>2. CASE calls[t] = {e}
    <2>1. Goto(t, AfterCalls(t))
      BY <1>2 DEF CallReturns
    <2> HIDE DEF AfterCalls
    <2> QED
      BY <1>1, <1>2, <2>1, GotoAlone DEF CallReturns, Same, TypeInv, TypeOK
  <1>3. CASE calls[t] # {e}
    BY <1>1, <1>3 DEF CallReturns, Same, TypeInv, TypeOK
  <1> QED
    BY <1>2, <1>3

\* After a call a handler is still in the loop of its operation.
LEMMA HandlerCallReturns ==
    ASSUME TypeInv, ServedInv, NEW t \in Handlers, NEW e, CallReturns(t, e)
    PROVE  /\ LoopOfHandler(t)'
           /\ \A k \in Keys : Removing(t, k)' = Removing(t, k)
  <1>0. t \in Tasks /\ t \notin Syncers /\ op[t] \in Ops
    BY TaskAssumption DEF Tasks, TypeInv, TypeOK
  <1>1. /\ op'[t] = op[t] /\ keys'[t] = keys[t] /\ todo'[t] = todo[t]
        /\ pc[t] \in CallPoints
        /\ \/ pc'[t] = pc[t] /\ cur'[t] = cur[t]
           \/ /\ pc'[t] = AfterCalls(t)
              /\ cur'[t] = IF pc[t] = "rm_legacy" THEN cur[t] ELSE None
    BY <1>0, CallAlone
  <1>2. LoopOfHandler(t)
    BY DEF ServedInv
  <1>3. pc[t] \notin BeforeUsers \cup {"rows"} /\ pc'[t] \notin BeforeUsers \cup {"rows"}
    BY <1>0, <1>1 DEF AfterCalls, CallPoints, BeforeUsers
  <1>4. LoopOfHandler(t)'
    BY <1>0, <1>1, <1>2 DEF LoopOfHandler, AfterCalls, CallPoints, Ops
  <1> QED
    BY <1>1, <1>3, <1>4 DEF Removing

\* ... and the periodic sync in its own, where it keeps the key it migrates.
LEMMA SyncCallReturns ==
    ASSUME TypeInv, ServedInv, NEW e, CallReturns(Periodic, e)
    PROVE  /\ OneSync'
           /\ \A k \in Keys, f \in XrayEndpoints :
                  Migrating(k, f) =>
                      Migrating(k, f)' \/ (pc[Periodic] = "add" /\ f = e)
  <1>0. Periodic \in Tasks /\ Periodic \in Syncers /\ HookSyncs \subseteq Tasks \ {Periodic}
    BY TaskAssumption DEF Tasks, Syncers
  <1>1. /\ hooks' = hooks
        /\ \A s \in Tasks \ {Periodic} : Same(s)
        /\ pc[Periodic] \in CallPoints
        /\ \/ pc'[Periodic] = pc[Periodic] /\ calls'[Periodic] = calls[Periodic] \ {e}
              /\ cur'[Periodic] = cur[Periodic]
           \/ /\ pc'[Periodic] = AfterCalls(Periodic) /\ calls[Periodic] = {e}
              /\ pc'[Periodic] = "add" => calls'[Periodic] = XrayEndpoints
              /\ cur'[Periodic] = IF pc[Periodic] = "rm_legacy" THEN cur[Periodic] ELSE None
    BY <1>0, CallAlone
  <1>2. OneSync'
    BY <1>0, <1>1 DEF ServedInv, OneSync, Same, AfterCalls, CallPoints
  <1> QED
    BY <1>0, <1>1, <1>2 DEF Migrating, AfterCalls

\* A call that changes no client.
LEMMA OtherCallServed ==
    ASSUME TypeInv, ServedInv, NEW t \in Tasks, NEW e \in HysteriaEndpoints,
           PushCredentials(t, e)
    PROVE  ServedInv'
  <1>1. CallReturns(t, e) /\ pc[t] = "push" /\ xray' = xray
    BY DEF PushCredentials
  <1>2. UNCHANGED <<row, hooks>> /\ \A s \in Tasks \ {t} : Same(s)
    BY <1>1, CallAlone
  <1>3. CASE t \in Handlers
    <2>1. op'[t] = "issue" => IssuedOnRelays(t)'
      BY <1>1, <1>3, CallAlone DEF ServedInv, IssuedOnRelays, AfterCalls
    <2> QED
      BY <1>1, <1>2, <1>3, <2>1, HandlerCallReturns, HandlerMove DEF ActiveKeys
  <1>4. CASE t = Periodic
    BY <1>1, <1>2, <1>4, SyncCallReturns, SyncMove DEF ActiveKeys, Migrating
  <1> QED
    BY <1>1, <1>3, <1>4, AtWork

LEMMA RemoveLegacyServed ==
    ASSUME TypeInv, RowInv, ServedInv, NEW t \in Tasks, NEW e \in XrayEndpoints,
           RemoveLegacy(t, e)
    PROVE  ServedInv'
  <1>1. /\ CallReturns(t, e) /\ pc[t] = "rm_legacy"
        /\ xray' = [xray EXCEPT ![e] = @ \ {<<cur[t], "legacy">>}]
    BY DEF RemoveLegacy, CallXray
  <1>2. UNCHANGED <<row, hooks>> /\ \A s \in Tasks \ {t} : Same(s)
    BY <1>1, CallAlone
  <1>3. \A k \in Keys, f \in XrayEndpoints :
            /\ <<k, "current">> \in xray[f] => <<k, "current">> \in xray'[f]
            /\ OnXray(k, f) => OnXray(k, f)' \/ k = cur[t]
    BY <1>1 DEF OnXray, TypeInv, TypeOK
  <1>4. CASE t \in Handlers
    <2>1. op[t] \in Revocations /\ cur[t] \in keys[t]
      BY <1>1, <1>4 DEF ServedInv, LoopOfHandler, TypeInv, CallPoints
    <2>2. Removing(t, cur[t])
      BY <1>1, <2>1 DEF Removing, BeforeUsers
    <2>3. op'[t] # "issue"
      BY <1>1, <2>1, CallAlone DEF Revocations
    <2>4. \A s \in Handlers : keys[s] \subseteq Keys
      BY DEF Tasks, TypeInv, TypeOK
    <2> QED
      BY <1>1, <1>2, <1>3, <1>4, <2>2, <2>3, <2>4, HandlerCallReturns, HandlerCalls DEF ActiveKeys
  <1>5. CASE t = Periodic
    <2>1. \A f \in XrayEndpoints : Migrating(cur[t], f)
      BY <1>1, <1>5 DEF Migrating
    <2> QED
      BY <1>1, <1>2, <1>3, <1>5, <2>1, SyncCallReturns, SyncCalls DEF ActiveKeys
  <1> QED
    BY <1>1, <1>4, <1>5, AtWork

LEMMA RemoveCurrentServed ==
    ASSUME TypeInv, RowInv, ServedInv, NEW t \in Tasks, NEW e \in XrayEndpoints,
           RemoveCurrent(t, e)
    PROVE  ServedInv'
  <1>1. /\ CallReturns(t, e) /\ pc[t] = "rm_current"
        /\ xray' = [xray EXCEPT ![e] = @ \ {<<cur[t], "current">>}]
    BY DEF RemoveCurrent, CallXray
  <1>2. UNCHANGED <<row, hooks>> /\ \A s \in Tasks \ {t} : Same(s)
    BY <1>1, CallAlone
  <1>3. \A k \in Keys, f \in XrayEndpoints : k # cur[t] =>
            /\ <<k, "current">> \in xray[f] => <<k, "current">> \in xray'[f]
            /\ OnXray(k, f) => OnXray(k, f)'
    BY <1>1 DEF OnXray, TypeInv, TypeOK
  <1>4. t \in Handlers
    BY <1>1, AtWork DEF ServedInv, OneSync
  <1>5. op[t] \in Revocations /\ cur[t] \in keys[t]
    BY <1>1, <1>4 DEF ServedInv, LoopOfHandler, TypeInv, CallPoints
  <1>6. Removing(t, cur[t])
    BY <1>1, <1>5 DEF Removing, BeforeUsers
  <1>7. op'[t] # "issue"
    BY <1>1, <1>5, CallAlone DEF Revocations
  <1>8. \A s \in Handlers : /\ keys[s] \subseteq Keys
                            /\ op[s] = "issue" => cur[t] \notin keys[s]
    BY <1>4, <1>5 DEF RowInv, IssuedKeys, RevokedKeys, Tasks, TypeInv, TypeOK
  <1> QED
    BY <1>1, <1>2, <1>3, <1>4, <1>6, <1>7, <1>8, HandlerCallReturns, HandlerCalls DEF ActiveKeys

LEMMA AddClientServed ==
    ASSUME TypeInv, RowInv, ServedInv, NEW t \in Tasks, NEW e \in XrayEndpoints,
           AddClient(t, e)
    PROVE  ServedInv'
  <1>1. /\ CallReturns(t, e) /\ pc[t] = "add"
        /\ xray' = [xray EXCEPT ![e] = @ \cup {<<cur[t], "current">>}]
    BY DEF AddClient, CallXray
  <1>2. UNCHANGED <<row, hooks>> /\ \A s \in Tasks \ {t} : Same(s)
    BY <1>1, CallAlone
  <1>3. /\ \A k \in Keys, f \in XrayEndpoints :
               /\ <<k, "current">> \in xray[f] => <<k, "current">> \in xray'[f]
               /\ OnXray(k, f) => OnXray(k, f)'
        /\ <<cur[t], "current">> \in xray'[e]
    BY <1>1 DEF OnXray, TypeInv, TypeOK
  <1>4. CASE t \in Handlers
    <2>1. op[t] = "issue" /\ keys[t] = {cur[t]}
      BY <1>1, <1>4 DEF ServedInv, LoopOfHandler
    <2>2. \A s \in Handlers : keys[s] \subseteq Keys
      BY DEF Tasks, TypeInv, TypeOK
    <2>3. IssuedOnRelays(t)
      BY <1>4, <2>1 DEF ServedInv
    <2>4. keys'[t] = keys[t] /\ \/ pc'[t] = pc[t] /\ calls'[t] = calls[t] \ {e}
                                \/ calls[t] = {e}
      BY <1>1, CallAlone
    <2>5. IssuedOnRelays(t)'
      BY <1>1, <1>3, <1>4, <2>1, <2>2, <2>3, <2>4 DEF IssuedOnRelays
    <2> QED
      BY <1>1, <1>2, <1>3, <1>4, <2>2, <2>5, HandlerCallReturns, HandlerCalls DEF ActiveKeys
  <1>5. CASE t = Periodic
    <2>1. \A k \in Keys, f \in XrayEndpoints :
              Migrating(k, f) => OnXray(k, f)' \/ Migrating(k, f)'
      BY <1>1, <1>3, <1>5, SyncCallReturns DEF Migrating, OnXray
    <2> QED
      BY <1>1, <1>2, <1>3, <1>5, <2>1, SyncCallReturns, SyncCalls DEF ActiveKeys
  <1> QED
    BY <1>1, <1>4, <1>5, AtWork

LEMMA RelayStepServed ==
    ASSUME TypeInv, RowInv, ServedInv, NEW t \in Tasks, RelayStep(t)
    PROVE  ServedInv'
  <1> USE DEF db, relays, locals, loopState, world
  <1>0. Periodic \in Tasks /\ HookSyncs \subseteq Tasks \ {Periodic}
    BY TaskAssumption DEF Tasks, Syncers
  <1>1. ASSUME NEW k \in Keys, NextKey(t, k)
        PROVE  ServedInv'
    <2>1. /\ pc[t] = "loop" /\ k \in todo[t] /\ pc'[t] = "rm_legacy" /\ cur'[t] = k
          /\ todo'[t] \subseteq todo[t]
          /\ UNCHANGED <<row, xray, hooks, op, keys>>
          /\ \A s \in Tasks \ {t} : Same(s)
      BY <1>1, GotoAlone DEF NextKey, Same, TypeInv, TypeOK
    <2>2. CASE t \in Handlers
      <3>1. LoopOfHandler(t)' /\ op[t] \in Revocations
        BY <2>1, <2>2 DEF ServedInv, LoopOfHandler, Revocations
      <3>2. \A j \in ActiveKeys : Removing(t, j) => Removing(t, j)'
        BY <2>1 DEF Removing, BeforeUsers
      <3> QED
        BY <2>1, <2>2, <3>1, <3>2, HandlerMove DEF Revocations
    <2>3. CASE t = Periodic
      <3>1. OneSync'
        BY <1>0, <2>1, <2>3 DEF ServedInv, OneSync, Same
      <3> QED
        BY <2>1, <2>3, <3>1, SyncMove DEF Migrating
    <2> QED
      BY <2>1, <2>2, <2>3, AtWork
  <1>2. CASE LoopDone(t)
    <2> DEFINE p == IF t \in Syncers THEN "hyst" ELSE "reply"
    <2>1. /\ pc[t] = "loop" /\ pc'[t] = p
          /\ UNCHANGED <<row, xray, hooks, op, keys, todo, cur>>
          /\ \A s \in Tasks \ {t} : Same(s)
      <3>1. Goto(t, p)
        BY <1>2 DEF LoopDone
      <3> HIDE DEF p
      <3> QED
        BY <1>2, <3>1, GotoAlone DEF LoopDone, Same
    <2>2. CASE t \in Handlers
      <3>1. pc'[t] = "reply" /\ op[t] \in Revocations
        BY <2>1, <2>2, TaskAssumption DEF ServedInv, LoopOfHandler
      <3>2. LoopOfHandler(t)'
        BY <2>1, <2>2, <3>1 DEF ServedInv, LoopOfHandler, Revocations
      <3>3. \A j \in ActiveKeys : Removing(t, j) => Removing(t, j)'
        BY <2>1, <3>1 DEF Removing, BeforeUsers
      <3> QED
        BY <2>1, <2>2, <3>1, <3>2, <3>3, HandlerMove DEF Revocations
    <2>3. CASE t = Periodic
      <3>1. OneSync'
        BY <1>0, <2>1, <2>3 DEF ServedInv, OneSync, Same, Syncers
      <3> QED
        BY <2>1, <2>3, <3>1, SyncMove DEF Migrating
    <2> QED
      BY <2>1, <2>2, <2>3, AtWork
  <1>3. ASSUME NEW e \in XrayEndpoints, RemoveLegacy(t, e) \/ RemoveCurrent(t, e) \/ AddClient(t, e)
        PROVE  ServedInv'
    BY <1>3, RemoveLegacyServed, RemoveCurrentServed, AddClientServed
  <1>4. CASE ReadCredentials(t)
    <2>1. /\ pc[t] = "hyst" /\ pc'[t] = "push"
          /\ UNCHANGED <<row, xray, hooks, op, keys, todo, cur>>
          /\ \A s \in Tasks \ {t} : Same(s)
      BY <1>4, GotoAlone DEF ReadCredentials, Same
    <2>2. CASE t \in Handlers
      <3>1. LoopOfHandler(t)' /\ (op'[t] = "issue" => IssuedOnRelays(t)')
        BY <2>1, <2>2 DEF ServedInv, LoopOfHandler, IssuedOnRelays
      <3>2. \A j \in ActiveKeys : Removing(t, j) => Removing(t, j)'
        BY <2>1 DEF Removing, BeforeUsers
      <3> QED
        BY <2>1, <2>2, <3>1, <3>2, HandlerMove
    <2>3. CASE t = Periodic
      <3>1. OneSync'
        BY <1>0, <2>1, <2>3 DEF ServedInv, OneSync, Same
      <3> QED
        BY <2>1, <2>3, <3>1, SyncMove DEF Migrating
    <2> QED
      BY <2>1, <2>2, <2>3, AtWork
  <1>5. ASSUME NEW e \in HysteriaEndpoints, PushCredentials(t, e)
        PROVE  ServedInv'
    BY <1>5, OtherCallServed
  <1> QED
    BY <1>1, <1>2, <1>3, <1>4, <1>5 DEF RelayStep

-----------------------------------------------------------------------------
(* The theorem.                                                             *)

\* A failure ends what the invariant promises; a webhook that gives up waits for
\* the bot since a relay restarted, which was one, and so was a call that is late.
LEMMA FailureServed ==
    ASSUME TypeInv, NoFault, ServedInv, Failure
    PROVE  ~NoFault'
  <1>1. CASE Fault
    BY <1>1, FaultAssumption DEF Fault, NoFault, TypeInv, TypeOK
  <1>2. ASSUME NEW e \in XrayEndpoints, HookGivesUp(e)
        PROVE  FALSE
    BY <1>2 DEF HookGivesUp, ServedInv, OneSync
  <1>3. late = {}
    BY DEF NoFault, TypeInv
  <1> QED
    BY <1>1, <1>2, <1>3 DEF Failure, CallFails, CallTimesOut, ReadFails, HandlerRaises, BotRestart, XrayRestart

\* Failures are not given back.
LEMMA NoFaultBefore ==
    ASSUME TypeInv, [Next]_vars, NoFault'
    PROVE  NoFault
  <1> USE DEF NoFault, world
  <1>1. ASSUME Fault
        PROVE  FALSE
    BY <1>1, FaultAssumption DEF Fault, TypeInv, TypeOK
  <1>2. ASSUME NEW t \in Handlers, HandlerStarts(t) \/ HandlerStep(t)
        PROVE  faults' = faults
    BY <1>2 DEF HandlerStarts, HandlerStep, Arrive, Issue, SubDelete, AdminSubRevokeConfirm,
       AdminSubRevokeAll, DeleteConfirm, FriendsRevokeConfirm, Revoke, IssueRefused, SelectKeys,
       Deactivate, ChangeUsers, DeleteRows, DeadlockAbort, Reply, CommitEarly, CommitAndEnd
  <1>3. ASSUME NEW t \in Syncers, SyncStep(t)
        PROVE  faults' = faults
    BY <1>3 DEF SyncStep, SyncStart, SyncNothing, SyncDone
  <1>4. ASSUME NEW t \in Tasks, RelayStep(t)
        PROVE  faults' = faults
    BY <1>4 DEF RelayStep, NextKey, LoopDone, RemoveLegacy, RemoveCurrent, AddClient, CallXray,
       ReadCredentials, PushCredentials
  <1>5. CASE Failure
    BY <1>1, <1>5 DEF Failure, CallFails, CallTimesOut, LateCall, ReadFails, HandlerRaises, BotRestart,
       XrayRestart, HookGivesUp
  <1> QED
    BY <1>2, <1>3, <1>4, <1>5 DEF Next, Reinvite, HookTimesOut, vars

LEMMA InitServed == Init => ServedUnlessFault
  <1> SUFFICES ASSUME Init
               PROVE  ServedInv
    BY DEF ServedUnlessFault
  <1>1. \A t \in Handlers : LoopOfHandler(t) /\ op[t] # "issue"
    BY DEF Init, LoopOfHandler, Tasks
  <1>2. OneSync
    BY DEF Init, OneSync, Tasks, Syncers
  <1>3. ActiveServed
    BY DEF Init, ActiveServed, ActiveKeys, OnXray
  <1> QED
    BY <1>1, <1>2, <1>3 DEF ServedInv

LEMMA NextServed == TypeInv /\ RowInv /\ ServedUnlessFault /\ [Next]_vars => ServedUnlessFault'
  <1> SUFFICES ASSUME TypeInv, RowInv, ServedUnlessFault, [Next]_vars, NoFault'
               PROVE  ServedInv'
    BY DEF ServedUnlessFault
  <1>1. ServedInv
    BY NoFaultBefore DEF ServedUnlessFault
  <1>2. ASSUME UNCHANGED <<row, xray, pc, op, keys, todo, cur, calls, hooks, booting>>
        PROVE  ServedInv'
    BY <1>1, <1>2
    DEF ServedInv, LoopOfHandler, IssuedOnRelays, OneSync, ActiveServed, ActiveKeys,
        OnXray, Migrating, Removing
  <1>3. ASSUME NEW u \in Users, Reinvite(u)
        PROVE  ServedInv'
    BY <1>2, <1>3 DEF Reinvite, relays, locals, loopState, world
  <1>6. ASSUME NEW t \in HookSyncs, HookTimesOut(t)
        PROVE  FALSE
    BY <1>1, <1>6 DEF HookTimesOut, ServedInv, OneSync
  <1>4. CASE Next
    BY <1>1, <1>3, <1>4, <1>6, NoFaultBefore, HandlerStartsServed, HandlerStepServed, SyncStepServed,
       RelayStepServed, FailureServed
    DEF Next
  <1>5. CASE UNCHANGED vars
    BY <1>2, <1>5 DEF vars
  <1> QED
    BY <1>4, <1>5

\* So while nothing has failed every active key can be used.
LEMMA ServedUsable == ServedUnlessFault => NoFaultServed
  <1> SUFFICES ASSUME ServedInv, NEW k \in ActiveKeys, NEW e \in XrayEndpoints
               PROVE  OnXray(k, e) \/ BeingRevoked(k) \/ BeingMigrated(k)
    BY DEF ServedUnlessFault, NoFault, NoFaultServed, OnXray
  <1>1. Migrating(k, e) => BeingMigrated(k)
    BY DEF Migrating, BeingMigrated, Syncers
  <1>2. \A t \in Handlers : Removing(t, k) => BeingRevoked(k)
    BY DEF Removing, BeingRevoked
  <1> QED
    BY <1>1, <1>2 DEF ServedInv, ActiveServed

\* While nothing has failed an active key can be used on every Xray server,
\* except while a handler takes it away or a sync replaces its client of the old
\* name: whatever the handlers, syncs, commits and aborts in between.
THEOREM ServedWithoutFault == Spec => []NoFaultServed
  <1>1. Spec => []ServedUnlessFault
    BY InitServed, NextServed, RowInvariant, PTL DEF Spec
  <1> QED
    BY <1>1, ServedUsable, RowInvariant, PTL

-----------------------------------------------------------------------------
(***************************************************************************)
(* Waiting.                                                                 *)
(***************************************************************************)
\* A transaction that holds locks is one of a handler that has begun.
OpenWorks == \A t \in Handlers : open[t] => op[t] # "none"

\* In a set of waiting handlers that waits for nobody outside there is a deadlock:
\* in a least such set everybody is waited for.
Stuck(S) == S # {} /\ \A s \in S : WaitsFor(s) # {} /\ WaitsFor(s) \subseteq S

LEMMA LeastStuck ==
    ASSUME NEW A \in SUBSET Handlers, Stuck(A)
    PROVE  \E C \in SUBSET A : Stuck(C) /\ \A r \in C : ~Stuck(C \ {r})
  <1> DEFINE Sizes == {Cardinality(C) : C \in {D \in SUBSET A : Stuck(D)}}
  <1>1. \A C \in SUBSET A : IsFiniteSet(C) /\ Cardinality(C) \in Nat
    BY TaskAssumption, FS_Subset, FS_CardinalityType
  <1>2. Sizes \in SUBSET Nat /\ Cardinality(A) \in Sizes
    BY <1>1
  <1> HIDE DEF Sizes
  <1>3. PICK n \in Sizes : \A m \in Sizes : n <= m
    BY <1>2, NatLeast
  <1> USE DEF Sizes
  <1>4. PICK C \in SUBSET A : Stuck(C) /\ Cardinality(C) = n
    BY <1>3
  <1>5. ASSUME NEW r \in C, Stuck(C \ {r})
        PROVE  FALSE
    <2>1. C \ {r} \in SUBSET A
      OBVIOUS
    <2>2. Cardinality(C \ {r}) \in Sizes
      BY <1>5, <2>1
    <2>3. n <= Cardinality(C \ {r})
      BY <1>3, <2>2
    <2>4. Cardinality(C \ {r}) = n - 1
      BY <1>1, <1>4, FS_RemoveElement
    <2>5. n \in Nat
      BY <1>1, <1>4
    <2> QED
      BY <2>3, <2>4, <2>5
  <1> QED
    BY <1>4, <1>5

LEMMA StuckDeadlocked ==
    ASSUME NEW A \in SUBSET Handlers, Stuck(A)
    PROVE  \E s \in A : Deadlocked(s)
  <1>1. PICK C \in SUBSET A : Stuck(C) /\ \A r \in C : ~Stuck(C \ {r})
    BY LeastStuck
  <1>2. ASSUME NEW r \in C
        PROVE  \E s \in C : r \in WaitsFor(s)
    <2> SUFFICES ASSUME \A s \in C : r \notin WaitsFor(s)
                 PROVE  FALSE
      OBVIOUS
    <2>1. WaitsFor(r) \subseteq C \ {r} /\ WaitsFor(r) # {}
      BY <1>1 DEF Stuck
    <2>2. Stuck(C \ {r})
      BY <1>1, <2>1 DEF Stuck
    <2> QED
      BY <1>1, <2>2
  <1>3. \A s \in C : WaitsFor(s) \cap C # {}
    BY <1>1 DEF Stuck
  <1>4. PICK s \in C : TRUE
    BY <1>1 DEF Stuck
  <1>5. C \in SUBSET Handlers
    OBVIOUS
  <1>6. Deadlocked(s)
    BY <1>2, <1>3, <1>4, <1>5 DEF Deadlocked
  <1> QED
    BY <1>4, <1>6

\* Who is waited for is at work.
LEMMA AwaitedWorks ==
    ASSUME RowInv, OpenWorks, NEW t \in Handlers, NEW s \in WaitsFor(t)
    PROVE  s \in Handlers /\ pc[s] \notin {"idle", "enter"}
  <1>1. s \in Handlers /\ open[s]
    BY DEF WaitsFor, HoldsUser, HoldsKey
  <1> QED
    BY <1>1 DEF OpenWorks, RowInv, Unstarted

LEMMA WaitsEnd ==
    ASSUME RowInv, OpenWorks
    PROVE  NobodyWaitsInVain
  <1> SUFFICES ASSUME NEW t \in Handlers, WaitsFor(t) # {},
                      \A s \in Awaited(t) :
                          ~Deadlocked(s) /\ (pc[s] \in {"idle", "enter"} \/ WaitsFor(s) # {})
               PROVE  FALSE
    BY DEF NobodyWaitsInVain
  <1> DEFINE A == Awaited(t)
  <1>1. A \in SUBSET Handlers
    BY DEF Awaited
  <1>2. WaitsFor(t) \subseteq A
    BY DEF Awaited, WaitsFor
  <1>3. ASSUME NEW r \in A
        PROVE  WaitsFor(r) \subseteq A
    <2> SUFFICES ASSUME NEW q \in WaitsFor(r), NEW S \in SUBSET Handlers,
                        WaitsFor(t) \subseteq S, \A p \in S : WaitsFor(p) \subseteq S
                 PROVE  q \in S
      BY DEF Awaited, WaitsFor
    <2>1. r \in S
      BY <1>3 DEF Awaited
    <2> QED
      BY <2>1
  <1>4. ASSUME NEW s \in A
        PROVE  pc[s] \notin {"idle", "enter"}
    <2> DEFINE W == {r \in Handlers : pc[r] \notin {"idle", "enter"}}
    <2>1. W \in SUBSET Handlers /\ WaitsFor(t) \subseteq W /\ \A p \in W : WaitsFor(p) \subseteq W
      BY AwaitedWorks
    <2>2. s \in W
      BY <1>4, <2>1 DEF Awaited
    <2> QED
      BY <2>2
  <1>5. Stuck(A)
    BY <1>2, <1>3, <1>4 DEF Stuck
  <1> QED
    BY <1>1, <1>5, StuckDeadlocked

LEMMA OpenStep == TypeInv /\ OpenWorks /\ [Next]_vars => OpenWorks'
  <1> SUFFICES ASSUME TypeInv, OpenWorks, [Next]_vars
               PROVE  OpenWorks'
    OBVIOUS
  <1>0. Handlers \subseteq Tasks /\ Handlers \cap Syncers = {}
    BY TaskAssumption DEF Tasks
  <1>1. ASSUME UNCHANGED <<op, open>>
        PROVE  OpenWorks'
    BY <1>1 DEF OpenWorks
  <1>2. ASSUME NEW t \in Tasks, Finish(t)
        PROVE  OpenWorks'
    BY <1>0, <1>2 DEF OpenWorks, Finish, TypeInv, TypeOK
  <1>3. ASSUME NEW t \in Handlers, NEW o \in Ops \ {"none"}, op' = [op EXCEPT ![t] = o]
               , open' = [open EXCEPT ![t] = TRUE]
        PROVE  OpenWorks'
    BY <1>0, <1>3 DEF OpenWorks, TypeInv, TypeOK
  <1>4. ASSUME NEW t \in Handlers, HandlerStarts(t)
        PROVE  OpenWorks'
    <2>1. ASSUME NEW u \in Users, Arrive(t, u)
          PROVE  OpenWorks'
      BY <1>1, <2>1 DEF Arrive
    <2>2. ASSUME NEW k \in Keys, Issue(t, k)
          PROVE  OpenWorks'
      BY <1>3, <2>2 DEF Issue, Ops
    <2>3. ASSUME NEW o \in Revocations, NEW S, NEW U, Revoke(t, o, S, U)
          PROVE  OpenWorks'
      BY <1>3, <2>3 DEF Revoke, Ops, Revocations
    <2> QED
      BY <1>4, <2>1, <2>2, <2>3
         DEF HandlerStarts, SubDelete, AdminSubRevokeConfirm, AdminSubRevokeAll, DeleteConfirm,
             FriendsRevokeConfirm, Revocations
  <1>5. ASSUME NEW t \in Handlers, HandlerStep(t)
        PROVE  OpenWorks'
    <2>0. t \in Tasks
      BY <1>0
    <2>1. CASE Finish(t)
      BY <1>2, <2>0, <2>1
    <2>2. CASE CommitEarly(t)
      BY <1>0, <2>2 DEF CommitEarly, locals, OpenWorks, TypeInv, TypeOK
    <2>3. CASE ~Finish(t) /\ ~CommitEarly(t)
      <3>1. UNCHANGED <<op, open>>
        BY <1>5, <2>3 DEF HandlerStep, IssueRefused, SelectKeys, Deactivate, ChangeUsers, DeleteRows,
           DeadlockAbort, Reply, CommitAndEnd, locals
      <3> QED
        BY <1>1, <3>1
    <2> QED
      BY <2>1, <2>2, <2>3
  <1>6. ASSUME NEW t \in Syncers, SyncStep(t)
        PROVE  OpenWorks'
    <2>1. CASE SyncDone(t)
      BY <1>2, <2>1 DEF SyncDone, Tasks
    <2>2. CASE ~SyncDone(t)
      BY <1>1, <1>6, <2>2 DEF SyncStep, SyncStart, SyncNothing, locals
    <2> QED
      BY <2>1, <2>2
  <1>7. ASSUME NEW t \in Tasks, RelayStep(t)
        PROVE  OpenWorks'
    <2>1. UNCHANGED <<op, open>>
      BY <1>7 DEF RelayStep, NextKey, LoopDone, RemoveLegacy, RemoveCurrent, AddClient, CallXray, ReadCredentials,
                  PushCredentials, CallReturns, locals
    <2> QED
      BY <1>1, <2>1
  <1>8. CASE Failure
    <2>1. ASSUME NEW t \in Tasks, ReadFails(t) \/ \E e : CallFails(t, e) \/ CallTimesOut(t, e)
          PROVE  OpenWorks'
      BY <1>1, <2>1 DEF ReadFails, CallFails, CallTimesOut, CallReturns, locals
    <2>5. ASSUME NEW c, LateCall(c)
          PROVE  OpenWorks'
      BY <1>1, <2>5 DEF LateCall, locals
    <2>2. ASSUME NEW t \in Handlers, HandlerRaises(t)
          PROVE  OpenWorks'
      BY <1>0, <1>2, <2>2 DEF HandlerRaises
    <2>3. CASE BotRestart
      BY <1>0, <2>3 DEF BotRestart, OpenWorks
    <2>4. ASSUME NEW e, XrayRestart(e) \/ HookGivesUp(e)
          PROVE  OpenWorks'
      BY <1>1, <2>4 DEF XrayRestart, HookGivesUp, locals
    <2> QED
      BY <1>8, <2>1, <2>2, <2>3, <2>4, <2>5 DEF Failure
  <1>9. ASSUME NEW u \in Users, Reinvite(u)
        PROVE  OpenWorks'
    BY <1>1, <1>9 DEF Reinvite, locals
  <1>10. CASE UNCHANGED vars
    BY <1>1, <1>10 DEF vars, locals
  <1>11. ASSUME NEW t \in HookSyncs, HookTimesOut(t)
         PROVE  OpenWorks'
    BY <1>1, <1>11 DEF HookTimesOut, locals
  <1> QED
    BY <1>4, <1>5, <1>6, <1>7, <1>8, <1>9, <1>10, <1>11 DEF Next

\* For any number of handlers and any trees of users: the row locks that the
\* middleware, the revocations and delete_user_tree take make nobody wait for a
\* handler that is over or has not begun, and every wait that does not end by
\* itself is behind a deadlock.
THEOREM WaitsAreForWork == Spec => []NobodyWaitsInVain
  <1>1. Init => OpenWorks
    BY DEF Init, OpenWorks, Tasks
  <1>2. TypeInv /\ OpenWorks /\ [Next]_vars => OpenWorks'
    BY OpenStep
  <1>3. RowInv /\ OpenWorks => NobodyWaitsInVain
    BY WaitsEnd
  <1> QED
    BY <1>1, <1>2, <1>3, RowInvariant, PTL DEF Spec
=============================================================================
