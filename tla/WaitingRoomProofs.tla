------------------------- MODULE WaitingRoomProofs -------------------------
(***************************************************************************)
(* Proofs about WaitingRoom, for every finite set of users and every limit.*)
(***************************************************************************)
EXTENDS WaitingRoom, FiniteSetTheorems, TLAPS

\* The places the task found free are still free when it takes users from the queue:
\* only the task fills places, and between its rounds it has nobody in its hands.
RoundInv ==
    /\ step = "pop" => Cardinality(ticketing) + available <= Limit
    /\ LimitHolds

\* Scores are times of the past, those on their way to Redis included; a request that is
\* on its way with a time before the last score was so when that score was taken.
QueueInv ==
    /\ \A u \in User : joined[u] <= clock
    /\ \A r \in adding : r[2] <= clock
    /\ lastScore <= clock
    /\ \A r \in adding : r[2] < lastScore => r \in overtaken
    /\ FirstComeFirstServed

\* Sets of users are finite.
LEMMA UsersAreFinite ==
    ASSUME NEW S, S \subseteq User
    PROVE  IsFiniteSet(S) /\ Cardinality(S) \in Nat
BY WaitingAssumption, FS_Subset, FS_CardinalityType

\* A set of users that includes another is at least as large.
LEMMA FewerUsers ==
    ASSUME NEW S, NEW T, T \subseteq User, S \subseteq T
    PROVE  Cardinality(S) <= Cardinality(T)
BY UsersAreFinite, FS_Subset

\* Together two sets of users have at most as many as the one and the other.
LEMMA UsersTogether ==
    ASSUME NEW S, NEW T, S \subseteq User, T \subseteq User
    PROVE  Cardinality(S \union T) <= Cardinality(S) + Cardinality(T)
<1>1. IsFiniteSet(S) /\ IsFiniteSet(T)
  BY UsersAreFinite
<1>2. Cardinality(S \union T) = Cardinality(S) + Cardinality(T) - Cardinality(S \cap T)
  BY <1>1, FS_Union
<1>3. /\ Cardinality(S) \in Nat /\ Cardinality(T) \in Nat
      /\ S \cap T \subseteq User
  BY UsersAreFinite
<1>4. Cardinality(S \cap T) \in Nat
  BY <1>3, UsersAreFinite
<1> QED
  BY <1>2, <1>3, <1>4

-----------------------------------------------------------------------------
(* Types.                                                                   *)

\* Types, and who may be in the task's hands at each of its steps, hold at first.
LEMMA InitTypeOK == Init => TypeOK
BY WaitingAssumption DEF Init, TypeOK, NotWaiting, Page, Step

\* A request to join that reaches Redis keeps the types.
LEMMA AddQueueKeepsTypes ==
    ASSUME TypeOK, NEW u, NEW time, AddQueue(u, time)
    PROVE  TypeOK'
<1>1. u \in User /\ time \in Nat
  BY DEF TypeOK, AddQueue
<1>2. /\ joined' = [joined EXCEPT ![u] = time]
      /\ adding' \subseteq adding /\ overtaken' \subseteq overtaken
      /\ UNCHANGED <<ticketing, clock, step, available, popped, called, posting, leaving,
                    page, missed, dropped, lastScore, visits, faults>>
  BY DEF AddQueue, task, counters
<1> QED
  BY <1>1, <1>2 DEF TypeOK, NotWaiting

\* What browsers and requests do keeps the types.
LEMMA VisitsKeepTypes ==
    ASSUME TypeOK, NEW u \in User, Visit(u)
    PROVE  TypeOK'
<1> USE WaitingAssumption DEF TypeOK, Page, Step, redis, task, requests, history, counters
<1>1. CASE OpenWaitingPage(u)
  BY <1>1 DEF OpenWaitingPage
<1>2. CASE Subscribe(u)
  BY <1>2 DEF Subscribe
<1>3. CASE ClosePage(u)
  BY <1>3 DEF ClosePage
<1>4. CASE Reserve(u)
  BY <1>4 DEF Reserve
<1>5. CASE ReadClock(u)
  BY <1>5 DEF ReadClock
<1>6. CASE RemoveTicketing(u)
  BY <1>6 DEF RemoveTicketing
<1>7. ASSUME NEW time, AddQueue(u, time) PROVE TypeOK'
  BY <1>7, AddQueueKeepsTypes
<1> QED
  BY <1>1, <1>2, <1>3, <1>4, <1>5, <1>6, <1>7 DEF Visit

\* The scheduled task keeps the types.
LEMMA ScheduleKeepsTypes ==
    ASSUME TypeOK, Schedule
    PROVE  TypeOK'
<1> USE WaitingAssumption DEF TypeOK, Page, Step, redis, task, requests, history, counters
<1>1. CASE CountPlaces
  <2>1. Cardinality(ticketing) \in Nat
    BY UsersAreFinite
  <2>2. FreePlaces \in Nat
    BY <2>1 DEF FreePlaces
  <2> QED
    BY <1>1, <2>2 DEF CountPlaces
<1>2. CASE PopQueue
  BY <1>2 DEF PopQueue, FirstOf, Batches, Waiting, NotWaiting
<1>3. ASSUME NEW u \in User, AddTicketing(u) PROVE TypeOK'
  BY <1>3 DEF AddTicketing
<1>4. CASE SendTurn
  BY <1>4 DEF SendTurn
<1>5. CASE EndRound
  BY <1>5 DEF EndRound
<1> QED
  BY <1>1, <1>2, <1>3, <1>4, <1>5 DEF Schedule

\* A failure keeps the types.
LEMMA FailuresKeepTypes ==
    ASSUME TypeOK,
           \/ RoundFails \/ Restart
           \/ \E u \in User : PostFails(u) \/ DeleteFails(u)
    PROVE  TypeOK'
<1> USE WaitingAssumption
    DEF TypeOK, Page, Step, redis, task, requests, history, Fail, AbandonRound, Drop,
        WaitingPages
<1>1. CASE RoundFails
  BY <1>1 DEF RoundFails
<1>2. CASE Restart
  BY <1>2 DEF Restart
<1>3. ASSUME NEW u \in User, PostFails(u) PROVE TypeOK'
  BY <1>3 DEF PostFails
<1>4. ASSUME NEW u \in User, DeleteFails(u) PROVE TypeOK'
  BY <1>4 DEF DeleteFails
<1> QED
  BY <1>1, <1>2, <1>3, <1>4

\* Every variable keeps its type, and the task holds users only where its code does.
THEOREM TypeCorrect == Spec => []TypeOK
<1>1. TypeOK /\ [Next]_vars => TypeOK'
  <2> SUFFICES ASSUME TypeOK, [Next]_vars PROVE TypeOK'
    OBVIOUS
  <2>1. CASE UNCHANGED vars
    BY <2>1 DEF TypeOK, vars, redis, task, requests, history, counters
  <2> QED
    BY <2>1, VisitsKeepTypes, ScheduleKeepsTypes, FailuresKeepTypes DEF Next
<1> QED
  BY InitTypeOK, <1>1, PTL DEF Spec

-----------------------------------------------------------------------------
(* The limit.                                                               *)

\* Visitors leave the limit alone: they only ever give places back.
LEMMA VisitsKeepRound ==
    ASSUME TypeOK, RoundInv, NEW u \in User, Visit(u)
    PROVE  RoundInv'
<1>1. CASE RemoveTicketing(u)
  <2>1. /\ ticketing' = ticketing \ {u}
        /\ UNCHANGED <<step, available, popped>>
    BY <1>1 DEF RemoveTicketing, task
  <2>2. /\ ticketing \subseteq User /\ popped \subseteq User
        /\ available \in Nat /\ Limit \in Nat
    BY WaitingAssumption DEF TypeOK
  <2>3. /\ ticketing' \subseteq ticketing
        /\ ticketing' \union popped' \subseteq ticketing \union popped
    BY <2>1
  <2>4. Cardinality(ticketing') <= Cardinality(ticketing)
    BY <2>2, <2>3, FewerUsers
  <2>5. Cardinality(ticketing' \union popped') <= Cardinality(ticketing \union popped)
    <3>1. ticketing \union popped \subseteq User
      BY <2>2
    <3> QED
      BY <3>1, <2>3, FewerUsers
  <2>6. /\ Cardinality(ticketing') \in Nat /\ Cardinality(ticketing) \in Nat
        /\ Cardinality(ticketing' \union popped') \in Nat
        /\ Cardinality(ticketing \union popped) \in Nat
    <3>1. /\ ticketing' \subseteq User /\ ticketing' \union popped' \subseteq User
          /\ ticketing \union popped \subseteq User
      BY <2>2, <2>3
    <3> QED
      BY <2>2, <3>1, UsersAreFinite
  <2> QED
    BY <2>1, <2>2, <2>4, <2>5, <2>6 DEF RoundInv, LimitHolds
<1>2. CASE UNCHANGED <<step, available, popped, ticketing>>
  BY <1>2 DEF RoundInv, LimitHolds
<1> QED
  BY <1>1, <1>2
     DEF Visit, OpenWaitingPage, Subscribe, ClosePage, Reserve, ReadClock, AddQueue,
         redis, task

\* The task takes no more users from the queue than there are places.
LEMMA ScheduleKeepsRound ==
    ASSUME TypeOK, RoundInv, Schedule
    PROVE  RoundInv'
<1>1. /\ ticketing \subseteq User /\ popped \subseteq User
      /\ available \in Nat /\ Limit \in Nat
  BY WaitingAssumption DEF TypeOK
<1>2. Cardinality(ticketing) \in Nat
  BY <1>1, UsersAreFinite
<1>3. CASE CountPlaces
  BY <1>1, <1>2, <1>3 DEF CountPlaces, FreePlaces, RoundInv, LimitHolds, redis
<1>4. CASE PopQueue
  <2>1. PICK first \in FirstOf(available) : popped' = first
    BY <1>4 DEF PopQueue
  <2>2. first \subseteq User /\ Cardinality(first) <= available
    BY <2>1 DEF FirstOf, Batches, Waiting
  <2>3. Cardinality(ticketing \union first) <= Cardinality(ticketing) + Cardinality(first)
    BY <1>1, <2>2, UsersTogether
  <2>4. /\ Cardinality(first) \in Nat
        /\ Cardinality(ticketing \union first) \in Nat
    <3>1. ticketing \union first \subseteq User
      BY <1>1, <2>2
    <3> QED
      BY <2>2, <3>1, UsersAreFinite
  <2>5. Cardinality(ticketing) + available <= Limit
    BY <1>4 DEF PopQueue, RoundInv
  <2>6. Cardinality(ticketing \union first) <= Limit
    BY <1>1, <1>2, <2>2, <2>3, <2>4, <2>5
  <2>7. step' = "move" /\ ticketing' = ticketing
    BY <1>4 DEF PopQueue
  <2> QED
    BY <2>1, <2>6, <2>7 DEF RoundInv, LimitHolds
<1>5. ASSUME NEW u \in User, AddTicketing(u) PROVE RoundInv'
  <2>1. /\ ticketing' \union popped' = ticketing \union popped
        /\ step' = "send"
    BY <1>5 DEF AddTicketing
  <2> QED
    BY <2>1 DEF RoundInv, LimitHolds
<1>6. CASE SendTurn
  BY <1>6 DEF SendTurn, RoundInv, LimitHolds, redis
<1>7. CASE EndRound
  BY <1>7 DEF EndRound, RoundInv, LimitHolds, redis
<1> QED
  BY <1>3, <1>4, <1>5, <1>6, <1>7 DEF Schedule

\* A failure loses users in the task's hands, and keeps the limit.
LEMMA FailuresKeepRound ==
    ASSUME TypeOK, RoundInv,
           \/ RoundFails \/ Restart
           \/ \E u \in User : PostFails(u) \/ DeleteFails(u)
    PROVE  RoundInv'
<1>1. CASE UNCHANGED <<step, available, popped, ticketing>>
  BY <1>1 DEF RoundInv, LimitHolds
<1>2. CASE step' = "idle" /\ popped' = {} /\ ticketing' = ticketing
  <2>1. /\ ticketing \subseteq ticketing \union popped
        /\ ticketing \union popped \subseteq User
        /\ ticketing' \union popped' = ticketing
    BY <1>2 DEF TypeOK
  <2>2. Cardinality(ticketing) <= Cardinality(ticketing \union popped)
    BY <2>1, FewerUsers
  <2>3. /\ Cardinality(ticketing) \in Nat
        /\ Cardinality(ticketing \union popped) \in Nat
    BY <2>1, UsersAreFinite
  <2> QED
    BY <1>2, <2>1, <2>2, <2>3, WaitingAssumption DEF RoundInv, LimitHolds
<1> QED
  BY <1>1, <1>2
     DEF RoundFails, Restart, PostFails, DeleteFails, AbandonRound, redis, task

\* The inductive invariant behind the limit.
THEOREM RoundInvariant == Spec => []RoundInv
<1>1. Init => RoundInv
  BY WaitingAssumption, FS_EmptySet DEF Init, RoundInv, LimitHolds
<1>2. TypeOK /\ RoundInv /\ [Next]_vars => RoundInv'
  <2> SUFFICES ASSUME TypeOK, RoundInv, [Next]_vars PROVE RoundInv'
    OBVIOUS
  <2>1. CASE UNCHANGED vars
    BY <2>1 DEF RoundInv, LimitHolds, vars, redis, task
  <2> QED
    BY <2>1, VisitsKeepRound, ScheduleKeepsRound, FailuresKeepRound DEF Next
<1> QED
  BY <1>1, <1>2, TypeCorrect, PTL DEF Spec

\* Never more users hold a place than the limit allows, however the task's reads and
\* writes interleave with requests and wherever it fails.
THEOREM LimitIsHeld == Spec => []LimitHolds
<1>1. RoundInv => LimitHolds
  BY DEF RoundInv
<1> QED
  BY <1>1, RoundInvariant, PTL

-----------------------------------------------------------------------------
(* The order of the queue, and that nobody gets lost in it.                 *)

\* The scores keep their order at every step.
LEMMA StepKeepsQueue ==
    ASSUME TypeOK, QueueInv, [Next]_vars
    PROVE  QueueInv'
<1> USE DEF QueueInv, FirstComeFirstServed, Waiting
<1>1. CASE UNCHANGED <<joined, clock, lastScore, overtaken>> /\ adding' \subseteq adding
  BY <1>1
<1>2. ASSUME NEW u \in User, ReadClock(u) PROVE QueueInv'
  <2>1. /\ clock' \in {clock, clock + 1} /\ adding' = adding \union {<<u, clock'>>}
        /\ UNCHANGED <<joined, lastScore, overtaken>>
    BY <1>2 DEF ReadClock, history
  <2>2. /\ clock \in Nat /\ adding \subseteq User \X Nat
        /\ joined \in [User -> Nat \union {NotWaiting}]
        /\ lastScore \in Nat \union {NotWaiting}
    BY DEF TypeOK
  <2>3. clock <= clock' /\ clock' \in Nat
    BY <2>1, <2>2
  <2>4. \A v \in User : joined'[v] <= clock'
    BY <2>1, <2>2, <2>3 DEF NotWaiting
  <2>5. lastScore' <= clock'
    BY <2>1, <2>2, <2>3 DEF NotWaiting
  <2>6. \A r \in adding' : r[2] <= clock' /\ (r[2] < lastScore' => r \in overtaken')
    <3>1. ASSUME NEW r \in adding
          PROVE  r[2] <= clock' /\ (r[2] < lastScore' => r \in overtaken')
      BY <2>1, <2>2, <2>3
    <3>2. ~(clock' < lastScore')
      BY <2>2, <2>3, <2>5, <2>1 DEF NotWaiting
    <3> QED
      BY <2>1, <2>3, <3>1, <3>2
  <2> QED
    BY <2>1, <2>4, <2>5, <2>6
<1>3. ASSUME NEW u, NEW time, AddQueue(u, time) PROVE QueueInv'
  <2>1. /\ <<u, time>> \in adding /\ adding' = adding \ {<<u, time>>}
        /\ joined' = [joined EXCEPT ![u] = time]
        /\ overtaken' = {r \in overtaken : r \in adding' \/ r[2] = joined'[r[1]]}
        /\ UNCHANGED <<clock, lastScore>>
    BY <1>3 DEF AddQueue
  <2>2. /\ u \in User /\ time \in Nat
        /\ joined \in [User -> Nat \union {NotWaiting}]
    BY <2>1 DEF TypeOK
  <2>3. time <= clock /\ (time < lastScore => <<u, time>> \in overtaken)
    BY <2>1
  <2>4. \A v \in User : joined'[v] = IF v = u THEN time ELSE joined[v]
    BY <2>1, <2>2
  <2>5. ASSUME NEW v \in User, joined'[v] # NotWaiting, joined'[v] < lastScore
        PROVE  <<v, joined'[v]>> \in overtaken'
    BY <2>1, <2>3, <2>4, <2>5
  <2> QED
    BY <2>1, <2>3, <2>4, <2>5
<1>4. CASE PopQueue
  <2>1. PICK first \in FirstOf(available) : \E last \in first :
           /\ lastScore' = IF joined[last] > lastScore THEN joined[last] ELSE lastScore
           /\ overtaken' = overtaken \union {r \in adding : r[2] < joined[last]}
           /\ joined' =
                [u \in User |-> IF u \in Removed(first, last) THEN NotWaiting ELSE joined[u]]
    BY <1>4 DEF PopQueue
  <2>2. PICK last \in first :
           /\ lastScore' = IF joined[last] > lastScore THEN joined[last] ELSE lastScore
           /\ overtaken' = overtaken \union {r \in adding : r[2] < joined[last]}
           /\ joined' = [u \in User |-> IF u \in first THEN NotWaiting ELSE joined[u]]
    BY <2>1 DEF Removed
  <2>3. /\ first \subseteq User
        /\ \A q \in Waiting \ first : joined[last] <= joined[q]
    BY <2>2 DEF FirstOf, Batches
  <2>4. /\ clock' = clock /\ clock \in Nat /\ adding' = adding
        /\ joined \in [User -> Nat \union {NotWaiting}]
        /\ lastScore \in Nat \union {NotWaiting}
        /\ adding \subseteq User \X Nat
    BY <1>4 DEF TypeOK, PopQueue, requests
  <2>5. /\ \A v \in User : joined'[v] <= clock'
        /\ lastScore' <= clock'
    BY <2>2, <2>3, <2>4 DEF NotWaiting
  <2>6. \A r \in adding' : r[2] <= clock' /\ (r[2] < lastScore' => r \in overtaken')
    BY <2>2, <2>4
  <2>7. ASSUME NEW v \in User, joined'[v] # NotWaiting, joined'[v] < lastScore'
        PROVE  <<v, joined'[v]>> \in overtaken'
    <3>1. joined'[v] = joined[v] /\ v \notin first
      BY <2>2, <2>7
    <3>2. v \in Waiting \ first
      BY <2>7, <3>1
    <3>3. joined[last] <= joined[v] /\ joined[v] < lastScore
      BY <2>2, <2>3, <2>4, <2>7, <3>1, <3>2 DEF NotWaiting
    <3> QED
      BY <2>2, <2>7, <3>1, <3>3
  <2> QED
    BY <2>5, <2>6, <2>7
<1>5. ASSUME NEW u \in User, PostFails(u) \/ DeleteFails(u) PROVE QueueInv'
  BY <1>1, <1>5 DEF PostFails, DeleteFails, redis, history
<1>6. CASE Restart
  BY <1>1, <1>6 DEF Restart, AbandonRound, redis
<1> QED
  BY <1>1, <1>2, <1>3, <1>4, <1>5, <1>6
     DEF Next, Visit, vars, redis, history, task, requests, OpenWaitingPage, Subscribe,
         ClosePage, Reserve, RemoveTicketing, Schedule, CountPlaces, AddTicketing, SendTurn,
         EndRound, RoundFails, AbandonRound

\* The inductive invariant of the queue: no score is of the future, and no request that
\* reads the clock from now on can come before those who were taken.
THEOREM QueueInvariant == Spec => []QueueInv
<1>1. Init => QueueInv
  BY DEF Init, QueueInv, FirstComeFirstServed, Waiting, NotWaiting
<1> QED
  BY <1>1, StepKeepsQueue, TypeCorrect, PTL DEF Spec

\* Nobody who is in the queue is overtaken, also not by those who leave it and join again.
\* Only a request that was too slow finds that later ones were taken before it.
THEOREM QueueIsFair == Spec => []FirstComeFirstServed
<1>1. QueueInv => FirstComeFirstServed
  BY DEF QueueInv
<1> QED
  BY <1>1, QueueInvariant, PTL

\* Every step keeps track of every page that waits.
LEMMA StepForgetsNobody ==
    ASSUME TypeOK, NobodyIsForgotten, [Next]_vars
    PROVE  NobodyIsForgotten'
<1> USE DEF NobodyIsForgotten, Waiting, WaitingPages, redis, task, requests, history, counters
<1>1. CASE UNCHANGED vars
  BY <1>1 DEF vars
<1>2. ASSUME NEW u \in User, OpenWaitingPage(u) PROVE NobodyIsForgotten'
  BY <1>2 DEF OpenWaitingPage, TypeOK
<1>3. ASSUME NEW u \in User, Subscribe(u) \/ ClosePage(u) \/ Reserve(u)
      PROVE  NobodyIsForgotten'
  BY <1>3 DEF Subscribe, ClosePage, Reserve, TypeOK
<1>4. ASSUME NEW u \in User, ReadClock(u) PROVE NobodyIsForgotten'
  <2>1. /\ posting' = posting \ {u} /\ adding' = adding \union {<<u, clock'>>}
        /\ UNCHANGED <<joined, popped, called, page, missed, dropped>>
    BY <1>4 DEF ReadClock
  <2>2. <<u, clock'>> \in adding' /\ <<u, clock'>>[1] = u
    BY <2>1
  <2> QED
    BY <2>1, <2>2
<1>5. ASSUME NEW u, NEW time, AddQueue(u, time) PROVE NobodyIsForgotten'
  <2>1. /\ <<u, time>> \in adding /\ adding' = adding \ {<<u, time>>}
        /\ joined' = [joined EXCEPT ![u] = time]
        /\ UNCHANGED <<posting, popped, called, page, missed, dropped>>
    BY <1>5 DEF AddQueue
  <2>2. /\ u \in User /\ time \in Nat
        /\ joined \in [User -> Nat \union {NotWaiting}]
    BY <2>1 DEF TypeOK
  <2>3. u \in Waiting' /\ Waiting \subseteq Waiting'
    BY <2>1, <2>2 DEF NotWaiting
  <2>4. \A r \in adding : r \in adding' \/ r[1] = u
    BY <2>1
  <2> QED
    BY <2>1, <2>3, <2>4
<1>6. ASSUME NEW u \in User, RemoveTicketing(u) PROVE NobodyIsForgotten'
  BY <1>6 DEF RemoveTicketing
<1>7. CASE Schedule
  <2>1. CASE CountPlaces \/ EndRound
    BY <2>1 DEF CountPlaces, EndRound
  <2>2. CASE PopQueue
    BY <2>2 DEF PopQueue, Removed, TypeOK
  <2>3. ASSUME NEW u \in User, AddTicketing(u) PROVE NobodyIsForgotten'
    BY <2>3, WaitingAssumption DEF AddTicketing, TypeOK
  <2>4. CASE SendTurn
    BY <2>4 DEF SendTurn, TypeOK
  <2> QED
    BY <1>7, <2>1, <2>2, <2>3, <2>4 DEF Schedule
<1>8. CASE RoundFails
  BY <1>8, WaitingAssumption DEF RoundFails, AbandonRound, Drop, InHands, TypeOK
<1>9. CASE Restart
  <2>1. WaitingPages' = WaitingPages
    BY <1>9 DEF Restart, TypeOK
  <2> QED
    BY <1>9, <2>1, WaitingAssumption DEF Restart, AbandonRound, Drop, InHands, TypeOK
<1>10. ASSUME NEW u \in User, PostFails(u) PROVE NobodyIsForgotten'
  BY <1>10 DEF PostFails, Drop
<1>11. ASSUME NEW u \in User, DeleteFails(u) PROVE NobodyIsForgotten'
  BY <1>11 DEF DeleteFails
<1> QED
  BY <1>1, <1>2, <1>3, <1>4, <1>5, <1>6, <1>7, <1>8, <1>9, <1>10, <1>11 DEF Next, Visit

\* Whoever looks at a waiting page is on the way into the queue, in it or out of it, or
\* missed the message, unless the page's request or the task's round failed.
THEOREM NobodyForgotten == Spec => []NobodyIsForgotten
<1>1. Init => NobodyIsForgotten
  BY DEF Init, NobodyIsForgotten, WaitingPages
<1> QED
  BY <1>1, StepForgetsNobody, TypeCorrect, PTL DEF Spec
-----------------------------------------------------------------------------
(* The waiting room implements the turnstile.                               *)

\* What the turnstile sees of a state.
admitted == ticketing \union popped

LEMMA InitTurnstile == Init => Turnstile!Init
BY DEF Init, Turnstile!Init, NotWaiting, Turnstile!NoNumber

\* Fewer places taken or fewer requests on their way, and nothing else, is a departure.
LEMMA DepartureTurnstile ==
    ASSUME admitted' \subseteq admitted, adding' \subseteq adding, UNCHANGED <<joined, clock>>
    PROVE  Turnstile!Next
BY DEF Turnstile!Leave, Turnstile!Next, admitted

\* The number is drawn when the request reads the clock.
LEMMA DrawTurnstile ==
    ASSUME TypeOK, NEW u \in User, ReadClock(u)
    PROVE  Turnstile!Next
<1>1. /\ clock \in Nat /\ clock' \in {clock, clock + 1}
      /\ adding' = adding \union {<<u, clock'>>}
      /\ UNCHANGED <<joined, ticketing, popped>>
  BY DEF ReadClock, task, TypeOK
<1>2. Turnstile!Draw(u)
  BY <1>1 DEF Turnstile!Draw
<1> QED
  BY <1>2 DEF Turnstile!Next

\* The number is in line when the request reaches Redis.
LEMMA JoinTurnstile ==
    ASSUME NEW u, NEW time, AddQueue(u, time)
    PROVE  Turnstile!Next
<1>1. Turnstile!Join(u, time)
  BY DEF AddQueue, task, Turnstile!Join
<1>2. <<u, time>> \in adding
  BY DEF AddQueue
<1>3. Turnstile!Join(<<u, time>>[1], <<u, time>>[2])
  BY <1>1
<1> QED
  BY <1>2, <1>3 DEF Turnstile!Next

\* The pop is the turn of the turnstile: the task has nobody in its hands before, and takes
\* no more users than there were places when it counted.
LEMMA PopTurnstile ==
    ASSUME TypeOK, RoundInv, RoundInv', PopQueue
    PROVE  Turnstile!Next
<1>1. PICK first \in FirstOf(available) : \E last \in first :
         /\ popped' = first
         /\ joined' =
              [u \in User |-> IF u \in Removed(first, last) THEN NotWaiting ELSE joined[u]]
  BY DEF PopQueue
<1>2. /\ first # {}
      /\ popped' = first
      /\ joined' = [u \in User |-> IF u \in first THEN NotWaiting ELSE joined[u]]
  BY <1>1 DEF Removed
<1>3. /\ first \subseteq Waiting
      /\ \A p \in first, q \in Waiting \ first : joined[p] <= joined[q]
  BY DEF FirstOf, Batches
<1>4. popped = {} /\ UNCHANGED <<ticketing, adding, clock>>
  BY DEF PopQueue, TypeOK, requests
<1>5. admitted' = admitted \union first
  BY <1>2, <1>4 DEF admitted
<1>6. Cardinality(admitted \union first) <= Limit
  BY <1>5 DEF RoundInv, LimitHolds, admitted
<1>7. Waiting = Turnstile!InLine
  BY DEF Waiting, Turnstile!InLine, NotWaiting, Turnstile!NoNumber
<1>8. Turnstile!Cardinality(admitted \union first) <= Limit
  BY <1>6 DEF Cardinality, Turnstile!Cardinality
<1>9. Turnstile!Admit(first)
  BY <1>2, <1>3, <1>4, <1>5, <1>7, <1>8
     DEF Turnstile!Admit, Turnstile!NoNumber, NotWaiting, admitted
<1> QED
  BY <1>3, <1>7, <1>9 DEF Turnstile!Next

\* All other steps are departures, or do not show.
LEMMA StepTurnstile ==
    ASSUME TypeOK, RoundInv, RoundInv', [Next]_vars
    PROVE  [Turnstile!Next]_(Turnstile!room)
<1> USE DEF admitted, redis, task, requests, history, counters
<1>1. CASE UNCHANGED vars
  BY <1>1 DEF vars, Turnstile!room
<1>2. ASSUME NEW u \in User, OpenWaitingPage(u) \/ Subscribe(u) \/ ClosePage(u) \/ Reserve(u)
      PROVE  UNCHANGED Turnstile!room
  BY <1>2 DEF OpenWaitingPage, Subscribe, ClosePage, Reserve, Turnstile!room
<1>3. ASSUME NEW u \in User, ReadClock(u) \/ \E r \in adding : AddQueue(u, r[2])
      PROVE  Turnstile!Next
  BY <1>3, DrawTurnstile, JoinTurnstile
<1>4. ASSUME NEW u \in User, RemoveTicketing(u)
      PROVE  Turnstile!Next
  BY <1>4, DepartureTurnstile DEF RemoveTicketing
<1>5. CASE Schedule
  <2>1. CASE CountPlaces \/ SendTurn \/ EndRound
    BY <2>1 DEF CountPlaces, SendTurn, EndRound, Turnstile!room
  <2>2. CASE PopQueue
    BY <2>2, PopTurnstile
  <2>3. ASSUME NEW u \in User, AddTicketing(u)
        PROVE  UNCHANGED Turnstile!room
    <3>1. /\ u \in popped
          /\ popped' = popped \ {u} /\ ticketing' = ticketing \union {u}
          /\ UNCHANGED <<joined, adding, clock>>
      BY <2>3 DEF AddTicketing
    <3>2. ticketing' \union popped' = ticketing \union popped
      BY <3>1
    <3> QED
      BY <3>1, <3>2 DEF Turnstile!room
  <2> QED
    BY <1>5, <2>1, <2>2, <2>3 DEF Schedule
<1>6. CASE RoundFails \/ Restart
  BY <1>6, DepartureTurnstile DEF RoundFails, Restart, AbandonRound
<1>7. ASSUME NEW u \in User, PostFails(u) \/ DeleteFails(u)
      PROVE  Turnstile!Next
  BY <1>7, DepartureTurnstile DEF PostFails, DeleteFails
<1> QED
  BY <1>1, <1>2, <1>3, <1>4, <1>5, <1>6, <1>7 DEF Next, Visit

\* Users move from the queue to their places as through a turnstile, whatever comes between
\* the steps of the task and wherever it fails, for any number of users and any limit.
THEOREM WaitingRoomImplementsTurnstile == Spec => ImplementsTurnstile
<1>1. Spec => [][Turnstile!Next]_(Turnstile!room)
  BY StepTurnstile, TypeCorrect, RoundInvariant, PTL DEF Spec
<1> QED
  BY <1>1, InitTurnstile, PTL DEF Spec, ImplementsTurnstile, Turnstile!Spec
=============================================================================
