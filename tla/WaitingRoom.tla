---------------------------- MODULE WaitingRoom ----------------------------
(***************************************************************************)
(* The waiting room of one performance (backend-waiting).  Redis keeps a   *)
(* sorted set of the users who wait, by the time they joined, and a set of *)
(* the users who are buying.  A scheduled task moves users from the first  *)
(* to the second as long as fewer than Limit are buying, and tells each of *)
(* them over a websocket.  The waiting page joins the queue and subscribes *)
(* to its messages, in any order; the page shown after the reservation     *)
(* gives the place back.  Both pages send their request once and go on as  *)
(* before when it fails.                                                   *)
(*                                                                         *)
(* A request to join reads the clock in its own thread and sends the time  *)
(* to Redis afterwards, so requests may reach Redis in another order than  *)
(* that of their times.  The clock itself does not run backwards.          *)
(*                                                                         *)
(* The task runs in one thread, round after round, so its steps interleave *)
(* with requests but never with each other.  Performances share nothing    *)
(* else than that thread.  Users' orders in the queue are displayed only   *)
(* and left out.                                                           *)
(***************************************************************************)
EXTENDS Integers, FiniteSets

CONSTANTS
    User,
    Limit,       \* LIMIT_SIZE: how many users may be buying
    Nobody,      \* no user
    MaxVisits,   \* bound on how often waiting pages are opened, in all
    MaxFaults    \* bound on the number of failures of the service

ASSUME WaitingAssumption ==
    /\ IsFiniteSet(User)
    /\ Limit \in Nat
    /\ Nobody \notin User
    /\ MaxVisits \in Nat
    /\ MaxFaults \in Nat

VARIABLES
    \* Redis
    joined,      \* score of each user in the queue, NotWaiting if absent
    ticketing,   \* users buying
    clock,       \* System.currentTimeMillis(), as far as scores tell times apart
    \* requests
    posting,     \* users whose POST /api/waiting has not read the clock yet
    adding,      \* users and times of those that have, and are not in Redis yet
    leaving,     \* users whose DELETE /api/ticketing is on its way
    \* the scheduled task
    step,        \* where it is in its round
    available,   \* the places it found to be free, until it has used them
    popped,      \* users taken from the queue and not yet let in
    called,      \* the user let in whose message is still to be sent
    \* the browsers
    page,        \* what each user looks at
    \* history
    missed,      \* users whose turn was announced before their page had subscribed
    dropped,     \* users with a page that waits, whom a failure took out of the queue
    lastScore,   \* the highest score of all users popped so far
    overtaken,   \* requests on their way to Redis when a later score was popped
    visits, faults

redis == <<joined, ticketing, clock>>
task == <<step, available, popped, called>>
requests == <<posting, adding, leaving>>
history == <<missed, dropped, lastScore, overtaken>>
counters == <<visits, faults>>
vars == <<redis, task, requests, page, history, counters>>

NotWaiting == -1
Waiting == {u \in User : joined[u] # NotWaiting}

WaitingPages == {u \in User : page[u] \in {"opening", "subscribed"}}

Page == {"away", "opening", "subscribed", "seat"}
Step == {"idle", "pop", "move", "send"}

Init ==
    /\ joined = [u \in User |-> NotWaiting]
    /\ ticketing = {}
    /\ clock = 0
    /\ step = "idle" /\ available = 0 /\ popped = {} /\ called = Nobody
    /\ page = [u \in User |-> "away"]
    /\ posting = {} /\ adding = {} /\ leaving = {}
    /\ missed = {} /\ dropped = {} /\ lastScore = NotWaiting /\ overtaken = {}
    /\ visits = 0 /\ faults = 0

-----------------------------------------------------------------------------
(* The browsers.                                                            *)

\* The waiting page is opened or reloaded: it posts, and connects its websocket.
OpenWaitingPage(u) ==
    /\ visits < MaxVisits
    /\ visits' = visits + 1
    /\ page' = [page EXCEPT ![u] = "opening"]
    /\ posting' = posting \union {u}
    /\ missed' = missed \ {u}
    /\ dropped' = dropped \ {u}
    /\ UNCHANGED <<redis, task, adding, leaving, lastScore, overtaken, faults>>

Subscribe(u) ==
    /\ page[u] = "opening"
    /\ page' = [page EXCEPT ![u] = "subscribed"]
    /\ UNCHANGED <<redis, task, requests, history, counters>>

\* The page is closed; what it has sent is sent, and nobody is told.
ClosePage(u) ==
    /\ page[u] # "away"
    /\ page' = [page EXCEPT ![u] = "away"]
    /\ missed' = missed \ {u}
    /\ dropped' = dropped \ {u}
    /\ UNCHANGED <<redis, task, requests, lastScore, overtaken, counters>>

\* The reservation is made, and the page asks to give the place back.
Reserve(u) ==
    /\ page[u] = "seat"
    /\ page' = [page EXCEPT ![u] = "away"]
    /\ leaving' = leaving \union {u}
    /\ UNCHANGED <<redis, task, posting, adding, history, counters>>

-----------------------------------------------------------------------------
(* Requests.                                                                *)

\* The request thread evaluates the score it is going to send.
ReadClock(u) ==
    /\ u \in posting
    /\ posting' = posting \ {u}
    /\ clock' \in {clock, clock + 1}
    /\ adding' = adding \union {<<u, clock'>>}
    /\ UNCHANGED <<joined, ticketing, task, leaving, page, history, counters>>

\* ZADD: a user who waits already gets the new score.
AddQueue(u, time) ==
    /\ <<u, time>> \in adding
    /\ adding' = adding \ {<<u, time>>}
    /\ joined' = [joined EXCEPT ![u] = time]
    /\ overtaken' = {r \in overtaken : r \in adding' \/ r[2] = joined'[r[1]]}
    /\ UNCHANGED <<ticketing, clock, task, posting, leaving, page, missed, dropped, lastScore,
                   counters>>

\* ZREM
RemoveTicketing(u) ==
    /\ u \in leaving
    /\ leaving' = leaving \ {u}
    /\ ticketing' = ticketing \ {u}
    /\ UNCHANGED <<joined, clock, task, posting, adding, page, history, counters>>

-----------------------------------------------------------------------------
(* The scheduled task.                                                      *)

\* Variant: the free places are counted without regard to those taken.
CountAllPlaces == Limit

FreePlaces == IF Cardinality(ticketing) < Limit THEN Limit - Cardinality(ticketing) ELSE 0

\* Only performances somebody waits for have a key, hence a round.
CountPlaces ==
    /\ step = "idle"
    /\ Waiting # {}
    /\ available' = FreePlaces
    /\ step' = IF FreePlaces > 0 THEN "pop" ELSE "idle"
    /\ UNCHANGED <<redis, popped, called, requests, page, history, counters>>

\* Sets of n users who wait, or of all if there are fewer.
Batches(n) ==
    {P \in SUBSET Waiting : Cardinality(P) <= n /\ (P = Waiting \/ Cardinality(P) = n)}

\* Variant: the users who joined last come first.
LatestOf(n) ==
    {P \in Batches(n) : \A p \in P, q \in Waiting \ P : joined[p] >= joined[q]}

\* The n first of the queue; users who joined in the same millisecond are ordered by
\* their ids, which is to say in any way.
FirstOf(n) ==
    {P \in Batches(n) : \A p \in P, q \in Waiting \ P : joined[p] <= joined[q]}

\* Variant: everybody up to the score of the last one is taken out of the queue.
RemovedByScore(first, last) == {u \in Waiting : joined[u] <= joined[last]}

Removed(first, last) == first

\* ZPOPMIN, atomic.
PopQueue ==
    /\ step = "pop"
    /\ \E first \in FirstOf(available) : \E last \in first :
          /\ \A u \in first : joined[u] <= joined[last]
          /\ popped' = first
          /\ lastScore' = IF joined[last] > lastScore THEN joined[last] ELSE lastScore
          /\ overtaken' = overtaken \union {r \in adding : r[2] < joined[last]}
          /\ available' = 0
          /\ joined' =
                [u \in User |-> IF u \in Removed(first, last) THEN NotWaiting ELSE joined[u]]
    /\ step' = "move"
    /\ UNCHANGED <<ticketing, clock, called, requests, page, missed, dropped, counters>>

AddTicketing(u) ==
    /\ step = "move"
    /\ u \in popped
    /\ popped' = popped \ {u}
    /\ ticketing' = ticketing \union {u}
    /\ called' = u
    /\ step' = "send"
    /\ UNCHANGED <<joined, clock, available, requests, page, history, counters>>

\* The message reaches the page only if it has subscribed by now.
SendTurn ==
    /\ step = "send"
    /\ IF page[called] = "subscribed"
       THEN page' = [page EXCEPT ![called] = "seat"]
       ELSE UNCHANGED page
    /\ missed' = IF page[called] = "opening" THEN missed \union {called} ELSE missed
    /\ called' = Nobody
    /\ step' = "move"
    /\ UNCHANGED <<redis, available, popped, requests, dropped, lastScore, overtaken, counters>>

\* Variant: the loop ends after the first user.
EndRoundEarly ==
    /\ step = "move"
    /\ step' = "idle"
    /\ UNCHANGED <<redis, available, popped, called, requests, page, history, counters>>

EndRound ==
    /\ step = "move"
    /\ popped = {}
    /\ step' = "idle"
    /\ UNCHANGED <<redis, available, popped, called, requests, page, history, counters>>

Schedule ==
    \/ CountPlaces
    \/ PopQueue
    \/ \E u \in User : AddTicketing(u)
    \/ SendTurn
    \/ EndRound

-----------------------------------------------------------------------------
(* Failures.  Redis keeps its sets; what the task or a request held in its  *)
(* hands is gone.                                                           *)

\* Users the task has taken from the queue and not told yet.
InHands == popped \union ({called} \ {Nobody})

\* Variant: the scheduler does not run a task again that has thrown.
AbandonRoundForGood ==
    /\ step' = "stopped"
    /\ popped' = {}
    /\ called' = Nobody
    /\ available' = 0
    /\ UNCHANGED <<redis, missed, lastScore, overtaken>>

AbandonRound ==
    /\ step' = "idle"
    /\ popped' = {}
    /\ called' = Nobody
    /\ available' = 0
    /\ UNCHANGED <<redis, missed, lastScore, overtaken>>

Fail ==
    /\ faults < MaxFaults
    /\ faults' = faults + 1
    /\ UNCHANGED visits

Drop(users) == dropped' = dropped \union (users \intersect WaitingPages)

\* A call to Redis or the message broker throws: the scheduler logs it and goes on.
RoundFails ==
    /\ step # "idle"
    /\ Fail
    /\ AbandonRound
    /\ Drop(InHands)
    /\ UNCHANGED <<requests, page>>

\* A request to join gets lost or its call to Redis throws: the page does not try again.
PostFails(u) ==
    /\ Fail
    /\ \/ u \in posting /\ posting' = posting \ {u} /\ UNCHANGED adding
       \/ \E r \in adding : r[1] = u /\ adding' = adding \ {r} /\ UNCHANGED posting
    /\ Drop({u})
    /\ UNCHANGED <<redis, task, leaving, page, missed, lastScore, overtaken>>

\* A request to give the place back gets lost: nobody else gives it back.
DeleteFails(u) ==
    /\ Fail
    /\ u \in leaving
    /\ leaving' = leaving \ {u}
    /\ UNCHANGED <<redis, task, posting, adding, page, history>>

\* The process stops and starts again: the requests it was handling are lost, those sent
\* meanwhile may be, and the pages connect again after a while.
Restart ==
    /\ Fail
    /\ AbandonRound
    /\ posting' \in SUBSET posting
    /\ adding' = {}
    /\ leaving' \in SUBSET leaving
    /\ Drop(InHands \union (posting \ posting') \union {r[1] : r \in adding})
    /\ page' = [u \in User |-> IF page[u] = "subscribed" THEN "opening" ELSE page[u]]

-----------------------------------------------------------------------------
Visit(u) ==
    \/ OpenWaitingPage(u) \/ Subscribe(u) \/ ClosePage(u) \/ Reserve(u)
    \/ ReadClock(u) \/ RemoveTicketing(u)
    \/ \E r \in adding : AddQueue(u, r[2])

Next ==
    \/ \E u \in User : Visit(u) \/ PostFails(u) \/ DeleteFails(u)
    \/ Schedule
    \/ RoundFails
    \/ Restart

Spec == Init /\ [][Next]_vars

\* The task is scheduled every three seconds for as long as the process lives.  Users
\* need not do anything, and their requests may be slow for ever.
Fairness == WF_vars(Schedule)

FairSpec == Spec /\ Fairness
-----------------------------------------------------------------------------
TypeOK ==
    /\ joined \in [User -> Nat \union {NotWaiting}]
    /\ ticketing \subseteq User
    /\ clock \in Nat
    /\ step \in Step
    /\ available \in Nat
    /\ popped \subseteq User
    /\ called \in User \union {Nobody}
    /\ step = "send" <=> called \in User
    /\ step \in {"idle", "pop"} => popped = {}
    /\ page \in [User -> Page]
    /\ posting \subseteq User
    /\ adding \subseteq User \X Nat
    /\ leaving \subseteq User
    /\ missed \subseteq User
    /\ dropped \subseteq User
    /\ lastScore \in Nat \union {NotWaiting}
    /\ overtaken \subseteq User \X Nat
    /\ visits \in Nat
    /\ faults \in Nat

\* Never more than Limit users hold a place, those on their way included, although the
\* task adds them one by one on the strength of a size it read before, while users leave,
\* come again, and the process fails (WebSocketController 38-53).
LimitHolds == Cardinality(ticketing \union popped) <= Limit

\* Nobody in the queue is overtaken: whoever still waits joined, or joined again, no
\* earlier than everybody who was taken from the queue before.  The one exception is a
\* request that had read the clock and had not reached Redis when a later one was already
\* taken: its user comes next, but too late (WaitingRepository.zAdd, zPop).
FirstComeFirstServed ==
    \A u \in Waiting :
        joined[u] < lastScore => <<u, joined[u]>> \in overtaken

\* A page that waits does not wait in vain: its user is on the way into the queue, in it,
\* on the way out of it, or missed the message by subscribing late, unless a failure is to
\* blame: the page's POST was lost, which the page ignores, or the task failed with the
\* user in its hands.
NobodyIsForgotten ==
    \A u \in WaitingPages :
        \/ u \in posting \union Waiting \union popped
        \/ \E r \in adding : r[1] = u
        \/ u = called
        \/ u \in missed \union dropped

\* If nobody keeps a place for ever, everybody in the queue gets out of it: the task finds
\* the places given back whatever fails on the way (WebSocketController 32-70).
EverybodyGetsATurn ==
    (\A v \in User : []<>(v \notin ticketing))
        => \A u \in User : u \in Waiting ~> u \notin Waiting
-----------------------------------------------------------------------------
(* The waiting room implements the turnstile.  Users draw their numbers     *)
(* when their requests read the clock.  Whoever was popped counts as        *)
(* inside, though the task adds such users to the set one by one.           *)

Turnstile == INSTANCE Turnstile WITH
    number <- joined,
    drawn <- adding,
    last <- clock,
    inside <- ticketing \union popped

\* The rounds of the task are as good as atomic: at every step, whatever requests, reloads
\* and failures come in between, users move from the queue to their places like through a
\* turnstile that lets several pass at once, and in no other way (WebSocketController
\* 38-53, WaitingRepository.zPop).
ImplementsTurnstile == Turnstile!Spec
=============================================================================
