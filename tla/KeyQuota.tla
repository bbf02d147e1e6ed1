------------------------------ MODULE KeyQuota ------------------------------
(***************************************************************************)
(* What the dialogues that create keys promise of the active keys of a user *)
(* who is no admin.  A new key leaves the user with at most MaxActive of    *)
(* them.  A new key for the whitelist servers takes a question the bot has  *)
(* asked in one of the user's dialogues, and the bot asks none while the    *)
(* user has such a key.  An admin has no limit, and gets whitelist keys     *)
(* only.                                                                    *)
(***************************************************************************)
EXTENDS Naturals, FiniteSets

CONSTANTS
    Users, Admins, Keys, MaxActive,
    Dialogues,   \* <<u, c>>: user u in chat c
    Migrated     \* the keys there are before the first question

VARIABLES
    active,      \* the active keys: [id, owner, whitelist]
    questions    \* the dialogues whose whitelist question may still give a key

KeysOf(u) == {k \in active : k.owner = u}
WhitelistKeysOf(u) == {k \in KeysOf(u) : k.whitelist}

Init == active = Migrated /\ questions = {}

Ask(d) ==
    /\ d[1] \notin Admins /\ WhitelistKeysOf(d[1]) = {}
    /\ questions' = questions \cup {d}
    /\ UNCHANGED active

\* Answered with "no", given up, or forgotten.
Forget == questions' \subseteq questions /\ UNCHANGED active

Add(k) ==
    /\ \A j \in active : j.id # k.id
    /\ k.owner \in Admins => k.whitelist
    /\ k.owner \notin Admins => Cardinality(KeysOf(k.owner)) < MaxActive
    /\ IF k.owner \notin Admins /\ k.whitelist
       THEN \E d \in questions : d[1] = k.owner /\ questions' = questions \ {d}
       ELSE UNCHANGED questions
    /\ active' = active \cup {k}

Remove(k) == active' = active \ {k} /\ UNCHANGED questions

Next ==
    \/ \E d \in Dialogues : Ask(d)
    \/ Forget
    \/ \E k \in [id : Keys, owner : Users, whitelist : BOOLEAN] : Add(k)
    \/ \E k \in active : Remove(k)

Spec == Init /\ [][Next]_<<active, questions>>
=============================================================================
