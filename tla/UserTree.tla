------------------------------ MODULE UserTree ------------------------------
(***************************************************************************)
(* The list of users the admin can ask for: the tree of the inviters, one   *)
(* line for each user, cut into messages that Telegram takes.               *)
(***************************************************************************)
EXTENDS Membership, SequencesExt

CONSTANTS
    NameWidth, \* the length of a user's name and id
    MaxLen     \* bound: the limits of a message the chunks are checked with

ASSUME WidthAssumption == NameWidth \in [People -> Nat \ {0}] /\ MaxLen \in Nat \ {0}

\* Mutant: revoked users are left out.
InvitedActive(p) == SetToSeq({u \in Members : users[u].by = p /\ users[u].active})

\* by_parent: the users somebody has invited; siblings are in the order in which
\* they were created, which matters to nothing here.
Invited(p) == SetToSeq({u \in Members : users[u].by = p})

\* _walk: a line is a user and its depth.
Walk[p \in Members] ==
    [depth \in Nat |->
        <<[user |-> p, depth |-> depth]>> \o
            FlattenSeq([i \in DOMAIN Invited(p) |-> Walk[Invited(p)[i]][depth + 1]])]

TreeLines == FlattenSeq([i \in DOMAIN Invited(None) |-> Walk[Invited(None)[i]][0]])

\* The length of a line: a prefix of two, three more for each level below, and
\* a branch of three.
Width(line) ==
    NameWidth[line.user] + IF line.depth = 0 THEN 0 ELSE 2 + 3 * (line.depth - 1) + 3

\* Line i, or the part of it from one character to another.
Piece(i, from, to) == [line |-> i, from |-> from, to |-> to]

\* A line longer than cap, in parts.
Parts(i, n, cap) ==
    [j \in 1..((n + cap - 1) \div cap) |->
        Piece(i, (j - 1) * cap + 1, IF j * cap < n THEN j * cap ELSE n)]

\* Mutant: the newlines between lines are not counted.
ChunkLineNoBreaks(st, i, n, maxLen) ==
    LET flushed == IF st.buf = <<>> THEN st.chunks ELSE Append(st.chunks, st.buf)
    IN IF n > st.cap
       THEN [chunks |-> flushed \o [j \in DOMAIN Parts(i, n, st.cap) |-> <<Parts(i, n, st.cap)[j]>>],
             buf |-> <<>>, size |-> 0, cap |-> maxLen]
       ELSE IF st.size + n > st.cap
       THEN [chunks |-> flushed, buf |-> <<Piece(i, 1, n)>>, size |-> n, cap |-> maxLen]
       ELSE [chunks |-> st.chunks, buf |-> Append(st.buf, Piece(i, 1, n)),
             size |-> st.size + n, cap |-> st.cap]

\* The loop of _chunk_text; a chunk is a sequence of pieces, joined by newlines.
ChunkLine(st, i, n, maxLen) ==
    LET extra == IF st.buf = <<>> THEN 0 ELSE 1
        flushed == IF st.buf = <<>> THEN st.chunks ELSE Append(st.chunks, st.buf)
    IN IF n > st.cap
       THEN [chunks |-> flushed \o [j \in DOMAIN Parts(i, n, st.cap) |-> <<Parts(i, n, st.cap)[j]>>],
             buf |-> <<>>, size |-> 0, cap |-> maxLen]
       ELSE IF st.size + n + extra > st.cap
       THEN [chunks |-> flushed, buf |-> <<Piece(i, 1, n)>>, size |-> n, cap |-> maxLen]
       ELSE [chunks |-> st.chunks, buf |-> Append(st.buf, Piece(i, 1, n)),
             size |-> st.size + n + extra, cap |-> st.cap]

ChunkText(widths, maxLen, firstMax) ==
    LET start == [chunks |-> <<>>, buf |-> <<>>, size |-> 0, cap |-> firstMax]
        after[i \in 0..Len(widths)] ==
            IF i = 0 THEN start ELSE ChunkLine(after[i - 1], i, widths[i], maxLen)
        end == after[Len(widths)]
    IN IF end.buf = <<>> THEN end.chunks ELSE Append(end.chunks, end.buf)

-----------------------------------------------------------------------------
(***************************************************************************)
(* Properties.                                                              *)
(***************************************************************************)
Quiet == \A t \in Handlers : pc[t] = "idle"

\* Every user stands in the list once: the walk goes down from users without an
\* inviter, so a user whose inviter is gone would be missing.
TreeListsEveryone ==
    Quiet =>
        LET lines == TreeLines
        IN /\ {lines[i].user : i \in DOMAIN lines} = Members
           /\ Len(lines) = Cardinality(Members)

\* The length of a chunk: its pieces, and the newlines between them.
Chars(piece) == piece.to - piece.from + 1

LengthOf(chunk) ==
    LET chars[k \in 0..Len(chunk)] ==
            IF k = 0 THEN 0 ELSE chars[k - 1] + Chars(chunk[k])
    IN chars[Len(chunk)] + Len(chunk) - 1

\* Read one after another, the pieces are the lines from their first character
\* to their last.
Cover(pieces, widths) ==
    /\ IF pieces = <<>> THEN widths = <<>> ELSE
         /\ pieces[1].line = 1 /\ pieces[1].from = 1
         /\ pieces[Len(pieces)].line = Len(widths)
         /\ pieces[Len(pieces)].to = widths[Len(widths)]
    /\ \A k \in 1..(Len(pieces) - 1) :
         IF pieces[k].to = widths[pieces[k].line]
         THEN pieces[k + 1].line = pieces[k].line + 1 /\ pieces[k + 1].from = 1
         ELSE pieces[k + 1].line = pieces[k].line /\ pieces[k + 1].from = pieces[k].to + 1

\* The messages keep to their limits, the smaller one of the first message that
\* has a header included; no message is empty, and nothing of the list is lost
\* or repeated where it is cut, whatever the limits are.
ChunksFit ==
    Quiet =>
        LET lines == TreeLines
            widths == [i \in DOMAIN lines |-> Width(lines[i])]
        IN \A maxLen \in 1..MaxLen : \A firstMax \in 1..maxLen :
             LET chunks == ChunkText(widths, maxLen, firstMax)
             IN /\ \A j \in DOMAIN chunks :
                     LengthOf(chunks[j]) \in 1..(IF j = 1 THEN firstMax ELSE maxLen)
                /\ Cover(FlattenSeq(chunks), widths)
=============================================================================
