------------------------------ MODULE Catalogue ------------------------------
(***************************************************************************)
(* What readers of the instructions may rely on while an admin's chat and   *)
(* the tasks that finish its albums change them.  An instruction appears    *)
(* with all of its content under an order of its own, and one that was      *)
(* deleted does not come back.  A replacement is not atomic: it takes away  *)
(* the photos that were there when it began, gives the new ones only to an  *)
(* instruction without other photos, and leaves the caption alone when it   *)
(* is the one that was there when it began.                                 *)
(***************************************************************************)
EXTENDS Naturals

CONSTANTS Ids, Titles, Texts, Files, Writers, None

VARIABLES
    entries,  \* the instructions: id -> title, order, caption, photos
    used,     \* the ids that have been given
    base      \* the content a writer has read, to replace it

\* photos holds the submissions whose photos the instruction has: none or one.
Submissions ==
    {c \in [caption : Texts \cup {None}, photos : {{}} \cup {{f} : f \in Files}] :
        c.caption # None \/ c.photos # {}}

Content(e) == [caption |-> e.caption, photos |-> e.photos]

Init ==
    /\ entries = [i \in {} |-> None]
    /\ used = {}
    /\ base = [w \in Writers |-> None]

Add(i) ==
    /\ i \notin used
    /\ DOMAIN entries' = DOMAIN entries \cup {i}
    /\ \A j \in DOMAIN entries : entries'[j] = entries[j]
    /\ entries'[i] \in [title : Titles, order : Nat, caption : Texts \cup {None}, photos : SUBSET Files]
    /\ Content(entries'[i]) \in Submissions
    /\ \A j \in DOMAIN entries : entries[j].order # entries'[i].order
    /\ used' = used \cup {i}
    /\ UNCHANGED base

Retitle(i, t) ==
    /\ i \in DOMAIN entries
    /\ entries' = [entries EXCEPT ![i].title = t]
    /\ UNCHANGED <<used, base>>

Begin(w, i) ==
    /\ i \in DOMAIN entries
    /\ base' = [base EXCEPT ![w] = Content(entries[i])]
    /\ UNCHANGED <<entries, used>>

Replace(w, i, c) ==
    /\ base[w] # None /\ i \in DOMAIN entries
    /\ \E left \in SUBSET (entries[i].photos \ base[w].photos) :
           /\ c.photos # {} => left = {}
           /\ entries' = [entries EXCEPT
                  ![i].photos = c.photos \cup left,
                  ![i].caption = IF c.caption = base[w].caption THEN @ ELSE c.caption]
    /\ base' = [base EXCEPT ![w] = None]
    /\ UNCHANGED used

\* The replacements of the writers in ws fail, or find the instruction deleted.
GiveUp(ws) ==
    /\ base' = [w \in Writers |-> IF w \in ws THEN None ELSE base[w]]
    /\ UNCHANGED <<entries, used>>

Remove(i) ==
    /\ i \in DOMAIN entries
    /\ entries' = [j \in DOMAIN entries \ {i} |-> entries[j]]
    /\ UNCHANGED <<used, base>>

Next ==
    \/ \E i \in Ids : Add(i) \/ Remove(i) \/ \E t \in Titles : Retitle(i, t)
    \/ \E w \in Writers, i \in Ids : Begin(w, i) \/ \E c \in Submissions : Replace(w, i, c)
    \/ \E ws \in SUBSET Writers : GiveUp(ws)

Spec == Init /\ [][Next]_<<entries, used, base>>
=============================================================================
