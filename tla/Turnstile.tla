----------------------------- MODULE Turnstile -----------------------------
(***************************************************************************)
(* What the waiting room promises, without the task that moves its users.  *)
(* Users draw numbers, which never get lower, and stand in line with them, *)
(* sooner or later.  The turnstile turns for some of those in line whose   *)
(* numbers are lowest, for as many as there is room, at once; nobody gets  *)
(* inside in any other way, and nobody in line loses the place there       *)
(* except by getting inside or by standing in line with another number.    *)
(* A number that is not in line yet has no claim.  WaitingRoom implements  *)
(* the turnstile.                                                          *)
(***************************************************************************)
EXTENDS Integers, FiniteSets

CONSTANTS
    User,
    Limit       \* how many users may be inside

VARIABLES
    number,     \* the number each user is in line with, NoNumber if not in line
    drawn,      \* numbers drawn by users who are on their way to the line
    last,       \* the number drawn last
    inside      \* the users inside

room == <<number, drawn, last, inside>>

NoNumber == -1
InLine == {u \in User : number[u] # NoNumber}

Init ==
    /\ number = [u \in User |-> NoNumber]
    /\ drawn = {}
    /\ last = 0
    /\ inside = {}

\* A user comes, or comes again; users inside may do so, too.  Two may draw the same.
Draw(u) ==
    /\ last' \in Nat /\ last <= last'
    /\ drawn' = drawn \union {<<u, last'>>}
    /\ UNCHANGED <<number, inside>>

Join(u, n) ==
    /\ <<u, n>> \in drawn
    /\ drawn' = drawn \ {<<u, n>>}
    /\ number' = [number EXCEPT ![u] = n]
    /\ UNCHANGED <<last, inside>>

\* Some of those with the lowest numbers get inside.
Admit(group) ==
    /\ group # {}
    /\ \A u \in group, v \in InLine \ group : number[u] <= number[v]
    /\ Cardinality(inside \union group) <= Limit
    /\ number' = [u \in User |-> IF u \in group THEN NoNumber ELSE number[u]]
    /\ inside' = inside \union group
    /\ UNCHANGED <<drawn, last>>

\* Users leave, turn back on their way to the line, or are thrown out by a failure.
Leave ==
    /\ inside' \in SUBSET inside
    /\ drawn' \in SUBSET drawn
    /\ UNCHANGED <<number, last>>

Next ==
    \/ \E u \in User : Draw(u)
    \/ \E r \in drawn : Join(r[1], r[2])
    \/ \E group \in SUBSET InLine : Admit(group)
    \/ Leave

Spec == Init /\ [][Next]_room
=============================================================================
