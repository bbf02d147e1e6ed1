-------------------------- MODULE ConnectionLimiter --------------------------
(***************************************************************************)
(* KeySync beside the task that enforces the limit of IP addresses: it      *)
(* takes the client of a key that too many addresses use from its relay,    *)
(* which ends the sessions, and adds it again under the same e-mail.  A     *)
(* round of resets counts as one of the MaxFaults.                          *)
(***************************************************************************)
EXTENDS KeySync, ProtoWire

CONSTANTS
    EmailLength, \* the length of a client's e-mail, which has the telegram id
    MaxIps,      \* settings.XRAY_MAX_IPS_PER_KEY
    IpCounts     \* bound: the counts of addresses that a relay reports

ASSUME CountAssumption ==
    /\ IsFiniteSet(Clients) /\ EmailLength \in [Clients -> Nat \ {0}]
    /\ MaxIps \in Nat \ {0} /\ IpCounts \subseteq Nat

VARIABLES
    subMap,     \* clients of the active keys it has loaded, the admins' left out
    endpoints,  \* the relays it has not asked yet
    at,         \* the relay it is at
    over,       \* the clients that are over the limit there and not reset yet
    removed     \* the client that it has removed and not added again

limiter == <<subMap, endpoints, at, over, removed>>
allVars == <<vars, limiter>>

LimiterInit ==
    /\ Init
    /\ subMap = {} /\ endpoints = {} /\ at = None /\ over = {} /\ removed = None

LimiterEnds ==
    subMap' = {} /\ endpoints' = {} /\ at' = None /\ over' = {} /\ removed' = None

\* _load_active_subscriptions: both names of each key; the limit is not for the
\* keys of admins.  Bound: a round costs a fault; the ones that would come after
\* find nobody over the limit and change nothing.
LoadActiveSubscriptions ==
    /\ endpoints = {} /\ over = {} /\ removed = None
    /\ ~booting /\ Fault
    /\ subMap' = {k \in ActiveKeys : Owner[k] \notin Admins} \X {"current", "legacy"}
    /\ subMap' # {}
    /\ endpoints' = XrayEndpoints
    /\ UNCHANGED <<db, relays, pc, calls, locals, loopState, payload, open, generated, booting, hooks, at, over, removed>>

\* query_online_stats: nobody is over the limit, or the call fails.
NothingToReset(e) ==
    /\ e \in endpoints /\ over = {} /\ removed = None
    /\ endpoints' = endpoints \ {e}
    /\ subMap' = IF endpoints' = {} THEN {} ELSE subMap
    /\ UNCHANGED <<vars, at, over, removed>>

\* query_online_stats answers, and some clients are over the limit: the bot reads
\* what the relay has counted, as WireUnderstood says.
SomeOver(e) ==
    /\ e \in endpoints /\ over = {} /\ removed = None
    /\ endpoints' = endpoints \ {e}
    /\ subMap' = IF endpoints' = {} THEN {} ELSE subMap
    /\ at' = e
    /\ over' \in (SUBSET (subMap \cap xray[e])) \ {{}}
    /\ UNCHANGED <<vars, removed>>

\* remove_vless_client; when it fails, because the client is gone, or times out,
\* the loop goes on with the next client.
Reset(c) ==
    /\ c \in over /\ removed = None
    /\ over' = over \ {c}
    /\ xray' \in {xray, [xray EXCEPT ![at] = @ \ {c}]}
    /\ removed' \in {None, c}
    /\ removed' = c => c \in xray[at] \ xray'[at]
    /\ at' = IF over' = {} /\ removed' = None THEN None ELSE at
    /\ UNCHANGED <<db, userpass, late, pc, calls, locals, loopState, payload, open, world, subMap, endpoints>>

\* add_vless_client; its failure is only logged.
AddAgain ==
    /\ removed # None
    /\ removed' = None
    /\ xray' \in {xray, [xray EXCEPT ![at] = @ \cup {removed}]}
    /\ at' = IF over = {} THEN None ELSE at
    /\ UNCHANGED <<db, userpass, late, pc, calls, locals, loopState, payload, open, world, subMap, endpoints, over>>

LimiterStep ==
    \/ \E e \in XrayEndpoints : NothingToReset(e) \/ SomeOver(e)
    \/ \E c \in Clients : Reset(c)
    \/ AddAgain

\* The task starts after the first sync; a restart of the bot ends it.
NextWithLimiter ==
    \/ Next /\ IF booting' THEN LimiterEnds ELSE UNCHANGED limiter
    \/ LoadActiveSubscriptions \/ LimiterStep

SpecWithLimiter == LimiterInit /\ [][NextWithLimiter]_allVars

FairSpecWithLimiter == SpecWithLimiter /\ Fairness /\ WF_allVars(LimiterStep)

-----------------------------------------------------------------------------
(***************************************************************************)
(* What goes over the wire.                                                 *)
(***************************************************************************)
\* The e-mail of a client; any bytes will do that are no other client's.
Letter == CHOOSE f \in [Clients -> 1..Cardinality(Clients)] : \A c, d \in Clients : f[c] = f[d] => c = d
Email == [c \in Clients |-> Text(EmailLength[c], Letter[c])]

\* "user>>>email>>>online", and the e-mail of it.
StatName(c) == Text(7, 117) \o Email[c] \o Text(9, 111)
EmailFromStat(name) == SubSeq(name, 8, Len(name) - 9)

\* The clients that the bot finds over the limit in the answer of a relay that
\* has counted their addresses.
FoundOver(counts) ==
    LET online == ParseQueryStatsResponse(QueryStatsResponse(
                      [name \in {StatName(c) : c \in DOMAIN counts} |->
                          counts[CHOOSE c \in DOMAIN counts : StatName(c) = name]]))
    IN {c \in Clients : \E name \in DOMAIN online :
            EmailFromStat(name) = Email[c] /\ online[name] > MaxIps}

Tag == Text(8, 116)
Uuid == Text(36, 49)

AddVlessClient(c) ==
    BuildAlterInboundRequest(Tag, AddUserType, BuildAddUserOperation(Uuid, Email[c]))
RemoveVlessClient(c) ==
    BuildAlterInboundRequest(Tag, RemoveUserType, BuildRemoveUserOperation(Email[c]))

-----------------------------------------------------------------------------
(***************************************************************************)
(* Properties.                                                              *)
(***************************************************************************)
\* Whatever the length of a telegram id and the number of addresses: the limiter
\* finds those over the limit in the bytes of an answer, one with a zero that the
\* encoding leaves out included, and the relay reads in the bytes of its requests
\* the clients they are for, though some lengths need a second byte.
WireUnderstood ==
    /\ at # None =>
           \A few, many \in IpCounts : few <= MaxIps /\ many > MaxIps =>
               FoundOver([c \in xray[at] \cup over |-> IF c \in over THEN many ELSE few]) = over
    /\ \A c \in over :
           ReadAlterInboundRequest(RemoveVlessClient(c)) =
               [tag |-> Tag, type |-> RemoveUserType, email |-> Email[c]]
    /\ removed # None =>
           ReadAlterInboundRequest(AddVlessClient(removed)) =
               [tag |-> Tag, type |-> AddUserType, email |-> Email[removed],
                account |-> VlessAccountType, uuid |-> Uuid]
=============================================================================
