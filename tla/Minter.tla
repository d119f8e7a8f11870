------------------------------- MODULE Minter -------------------------------
(***************************************************************************)
(* The minter service (eticket-minter) between the reservation table and   *)
(* the blockchain.  A publisher polls the confirmed reservations and puts  *)
(* a task for each into a bounded queue; workers take the tasks, register  *)
(* the performance with the contract if need be, mint the ticket and mark  *)
(* the reservation MINTED.  The table is also written by the backend       *)
(* (reserve, cancel, register a wallet), and the contract is also called   *)
(* by an operator's tool (eticketctl) and by the ticket holders.           *)
(*                                                                         *)
(* One goroutine step that touches shared state is one action.  A call     *)
(* that fails, a cancelled context and a restart of the process are        *)
(* "faults": they may happen anywhere, MaxFaults times in all.             *)
(***************************************************************************)
EXTENDS Naturals, Sequences, FiniteSets

CONSTANTS
    Schedule, Seat, Address, NoOne,   \* as in TicketLedger
    User,
    Reservation,      \* keys of the reservation table
    Reserver,         \* the user of each reservation
    ReservedTicket,   \* the <<schedule, seat>> of each reservation
    Worker,           \* goroutines running startWorker
    Publisher,        \* goroutines running publish that may overlap
    Nobody,           \* the sender of a transaction no worker waits for
    Capacity,         \* the capacity of the task queue
    MaxFaults,        \* bound on the number of faults
    MaxWallets        \* bound on the number of wallets a user has over time

Ticket == Schedule \X Seat

ASSUME MinterAssumption ==
    /\ NoOne \notin Address
    /\ Nobody \notin Worker
    /\ Reserver \in [Reservation -> User]
    /\ ReservedTicket \in [Reservation -> Ticket]
    /\ IsFiniteSet(Reservation)
    /\ Capacity \in Nat
    /\ MaxFaults \in Nat
    /\ MaxWallets \in Nat

VARIABLES
    \* the database
    status,      \* reservation.status; "NONE" before the row is inserted
    cancelling,  \* reservations a cancel request has read as SOLDOUT
    wallet,      \* user.wallet_address; NoOne stands for NULL
    held,        \* history: every value wallet has had, by user
    due,         \* schedules that start within a day
    \* the blockchain
    scheduled,   \* schedules registered with the contract
    owner,       \* owner of each ticket's token, NoOne if it is not minted
    issuedTo,    \* recipient in the Transfer event of the mint, NoOne if none
    mempool,     \* transactions accepted and not yet mined, in nonce order
    \* the minter process
    cache,       \* MintHelper.cachedPerformanceSchedules
    queue,       \* taskQueue
    rows,        \* tasks a publisher has fetched and not yet considered
    sending,     \* the task a publisher is sending to the queue
    pc,          \* where each worker is
    task,        \* the task each worker is working on
    receipt,     \* the receipt of the transaction a worker waits for
    faults       \* number of faults so far

dbVars == <<status, cancelling, wallet, held, due>>
ledger == <<scheduled, owner, issuedTo>>
publisherVars == <<rows, sending>>
workerVars == <<pc, task, receipt>>
vars == <<dbVars, ledger, mempool, cache, queue, publisherVars, workerVars, faults>>

Task == [reservation : Reservation, recipient : Address \union {NoOne}]
NoTask == <<>>

Status == {"NONE", "SOLDOUT", "CANCEL", "MINTED"}
Cache == {"NOT_SCHEDULED", "TRY_SCHEDULING", "SCHEDULED"}
Receipt == {"none", "succeeded", "failed"}

ScheduleTx(s, w) == [kind |-> "schedule", schedule |-> s, by |-> w]
MintTx(t, a, w) == [kind |-> "mint", ticket |-> t, to |-> a, by |-> w]

Sender == Worker \union {Nobody}
Tx == {ScheduleTx(s, w) : s \in Schedule, w \in Sender}
        \union {MintTx(t, a, w) : t \in Ticket, a \in Address \union {NoOne}, w \in Sender}

\* What the contract asks of a transaction; nothing here uses a ticket.
Ledger == INSTANCE TicketLedger WITH used <- {}

-----------------------------------------------------------------------------
\* A queue that holds up to Capacity tasks, none yet.
NewTaskQueue == <<>>

\* The cache of a process that has just started knows nothing.
NewMintHelper == [s \in Schedule |-> "NOT_SCHEDULED"]

\* user.wallet_address is UNIQUE, and NULL is not a value.
WalletFree(a, u) == a = NoOne \/ wallet[u] # a

Init ==
    /\ status = [r \in Reservation |-> "NONE"]
    /\ cancelling = {}
    /\ wallet \in [User -> Address \union {NoOne}]
    /\ \A u, v \in User : u # v => WalletFree(wallet[u], v)
    /\ held = [u \in User |-> {wallet[u]}]
    /\ due = {}
    /\ scheduled = {}
    /\ owner = [t \in Ticket |-> NoOne]
    /\ issuedTo = [t \in Ticket |-> NoOne]
    /\ mempool = <<>>
    /\ cache = NewMintHelper
    /\ queue = NewTaskQueue
    /\ rows = [p \in Publisher |-> {}]
    /\ sending = [p \in Publisher |-> NoTask]
    /\ pc = [w \in Worker |-> "idle"]
    /\ task = [w \in Worker |-> NoTask]
    /\ receipt = [w \in Worker |-> "none"]
    /\ faults = 0

-----------------------------------------------------------------------------
(* The backend and time, as far as they touch the tables the minter reads.  *)

ReserveTicket(r) ==
    /\ status[r] = "NONE"
    /\ status' = [status EXCEPT ![r] = "SOLDOUT"]
    /\ UNCHANGED <<cancelling, wallet, held, due, ledger, mempool, cache, queue,
                   publisherVars, workerVars, faults>>

\* CancelMyReservationService reads the row without locking it ...
LoadReservationToCancel(r) ==
    /\ status[r] = "SOLDOUT"
    /\ cancelling' = cancelling \union {r}
    /\ UNCHANGED <<status, wallet, held, due, ledger, mempool, cache, queue,
                   publisherVars, workerVars, faults>>

\* ... and saves every column of it, whatever became of it in the meantime.
CancelMyReservation(r) ==
    /\ r \in cancelling
    /\ cancelling' = cancelling \ {r}
    /\ status' = [status EXCEPT ![r] = "CANCEL"]
    /\ UNCHANGED <<wallet, held, due, ledger, mempool, cache, queue,
                   publisherVars, workerVars, faults>>

RegisterWallet(u, a) ==
    /\ Cardinality(held[u] \union {a}) <= MaxWallets
    /\ \A v \in User \ {u} : WalletFree(a, v)
    /\ wallet' = [wallet EXCEPT ![u] = a]
    /\ held' = [held EXCEPT ![u] = @ \union {a}]
    /\ UNCHANGED <<status, cancelling, due, ledger, mempool, cache, queue,
                   publisherVars, workerVars, faults>>

\* The start of the performance comes within a day.
BecomesDue(s) ==
    /\ s \notin due
    /\ due' = due \union {s}
    /\ UNCHANGED <<status, cancelling, wallet, held, ledger, mempool, cache, queue,
                   publisherVars, workerVars, faults>>

-----------------------------------------------------------------------------
(* The blockchain: the transactions of the one account that may call the    *)
(* contract are mined in nonce order; holders move their tickets at will.   *)

Succeeds(tx) ==
    \/ tx.kind = "schedule" /\ Ledger!CanSchedule(tx.schedule)
    \/ tx.kind = "mint" /\ Ledger!CanMint(tx.ticket, tx.to)

Execute(tx) ==
    IF tx.kind = "schedule"
    THEN /\ scheduled' = scheduled \union {tx.schedule}
         /\ UNCHANGED <<owner, issuedTo>>
    ELSE /\ owner' = [owner EXCEPT ![tx.ticket] = tx.to]
         /\ issuedTo' = [issuedTo EXCEPT ![tx.ticket] = tx.to]
         /\ UNCHANGED scheduled

\* Mine the next transaction; one that reverts has a receipt too.
Mine ==
    /\ mempool # <<>>
    /\ mempool' = Tail(mempool)
    /\ LET tx == Head(mempool)
           outcome == IF Succeeds(tx) THEN "succeeded" ELSE "failed"
       IN  /\ IF Succeeds(tx) THEN Execute(tx) ELSE UNCHANGED ledger
           /\ receipt' = [w \in Worker |-> IF w = tx.by THEN outcome ELSE receipt[w]]
    /\ UNCHANGED <<dbVars, cache, queue, publisherVars, pc, task, faults>>

TransferTicket(t, a) ==
    /\ owner[t] # NoOne
    /\ owner' = [owner EXCEPT ![t] = a]
    /\ UNCHANGED <<dbVars, scheduled, issuedTo, mempool, cache, queue,
                   publisherVars, workerVars, faults>>

\* eticketctl, a process of its own, registers a schedule the contract does not know.
OperatorSchedules(s) ==
    /\ s \notin scheduled
    /\ \A i \in DOMAIN mempool : mempool[i] # ScheduleTx(s, Nobody)   \* one at a time
    /\ mempool' = Append(mempool, ScheduleTx(s, Nobody))
    /\ UNCHANGED <<dbVars, ledger, cache, queue, publisherVars, workerVars, faults>>

-----------------------------------------------------------------------------
(* The publisher: taskPublisher.publish.                                    *)

\* Variant: the condition on the start time is missing.
AllReserved == {r \in Reservation : status[r] = "SOLDOUT"}

\* The rows of ConfirmedReservations: SOLDOUT, and the performance starts within a day.
Confirmed == {r \in Reservation : status[r] = "SOLDOUT" /\ ReservedTicket[r][1] \in due}

TaskOf(r) == [reservation |-> r, recipient |-> wallet[Reserver[r]]]

\* Variant: the query has no LIMIT.
FetchAllConfirmed(p) ==
    /\ rows[p] = {} /\ sending[p] = NoTask
    /\ rows' = [rows EXCEPT ![p] = {TaskOf(r) : r \in Confirmed}]
    /\ UNCHANGED <<dbVars, ledger, mempool, cache, queue, sending, workerVars, faults>>

\* The query returns at most Capacity rows, in no particular order.
FetchConfirmed(p) ==
    /\ rows[p] = {} /\ sending[p] = NoTask
    /\ \E fetched \in SUBSET Confirmed :
          /\ Cardinality(fetched) <= Capacity
          /\ fetched = Confirmed \/ Cardinality(fetched) = Capacity
          /\ rows' = [rows EXCEPT ![p] = {TaskOf(r) : r \in fetched}]
    /\ UNCHANGED <<dbVars, ledger, mempool, cache, queue, sending, workerVars, faults>>

\* The publisher's look at the queue, which holds until another publish sends.
QueueIsFull == Len(queue) = Capacity

\* The next row, unless the queue is full: then the rest is dropped until a later poll.
ConsiderRow(p) ==
    /\ rows[p] # {} /\ sending[p] = NoTask
    /\ \/ /\ QueueIsFull
          /\ rows' = [rows EXCEPT ![p] = {}]
          /\ UNCHANGED sending
       \/ /\ ~QueueIsFull
          /\ \E row \in rows[p] :
                /\ sending' = [sending EXCEPT ![p] = row]
                /\ rows' = [rows EXCEPT ![p] = @ \ {row}]
    /\ UNCHANGED <<dbVars, ledger, mempool, cache, queue, workerVars, faults>>

\* What the runtime asks before it completes a send on a buffered channel.
QueueHasRoom == Len(queue) < Capacity

\* The send blocks while the queue is full: another publish may have filled it.
Enqueue(p) ==
    /\ sending[p] # NoTask
    /\ QueueHasRoom
    /\ queue' = Append(queue, sending[p])
    /\ sending' = [sending EXCEPT ![p] = NoTask]
    /\ UNCHANGED <<dbVars, ledger, mempool, cache, rows, workerVars, faults>>

Publish(p) == FetchConfirmed(p) \/ ConsiderRow(p) \/ Enqueue(p)

-----------------------------------------------------------------------------
(* The workers: startWorker and, step by step, MintHelper.MintTicket.       *)

Target(w) == ReservedTicket[task[w].reservation]
TargetSchedule(w) == Target(w)[1]

Goto(w, label) == pc' = [pc EXCEPT ![w] = label]

SetCache(s, state) == cache' = [cache EXCEPT ![s] = state]

\* The worker logs an error and goes back for the next task; the reservation is still
\* SOLDOUT and will be polled again.
DropTask(w) ==
    /\ Goto(w, "idle")
    /\ task' = [task EXCEPT ![w] = NoTask]

TakeTask(w) ==
    /\ pc[w] = "idle"
    /\ queue # <<>>
    /\ task' = [task EXCEPT ![w] = Head(queue)]
    /\ queue' = Tail(queue)
    /\ Goto(w, "isScheduled")
    /\ UNCHANGED <<dbVars, ledger, mempool, cache, publisherVars, receipt, faults>>

\* IsPerformanceScheduled consults the cache, and waits while another worker is trying.
ReadCache(w) ==
    /\ pc[w] = "isScheduled"
    /\ \/ cache[TargetSchedule(w)] = "SCHEDULED" /\ Goto(w, "isMinted")
       \/ cache[TargetSchedule(w)] = "NOT_SCHEDULED" /\ Goto(w, "askContract")
    /\ UNCHANGED <<dbVars, ledger, mempool, cache, queue, publisherVars, task, receipt,
                   faults>>

\* It asks the contract; a yes is stored whatever the cache holds by then.
AskContract(w) ==
    /\ pc[w] = "askContract"
    /\ IF TargetSchedule(w) \in scheduled
       THEN SetCache(TargetSchedule(w), "SCHEDULED") /\ Goto(w, "isMinted")
       ELSE Goto(w, "schedule") /\ UNCHANGED cache
    /\ UNCHANGED <<dbVars, ledger, mempool, queue, publisherVars, task, receipt, faults>>

\* SchedulePerformance: only one worker may go from NOT_SCHEDULED to TRY_SCHEDULING.
MayTryToo(s) == cache[s] # "SCHEDULED"        \* variant: the lock is not respected

MayTry(s) == cache[s] = "NOT_SCHEDULED"

BeginScheduling(w) ==
    /\ pc[w] = "schedule"
    /\ \/ /\ MayTry(TargetSchedule(w))
          /\ SetCache(TargetSchedule(w), "TRY_SCHEDULING")
          /\ Goto(w, "trySchedule")
       \/ /\ cache[TargetSchedule(w)] = "SCHEDULED"
          /\ Goto(w, "isMinted")
          /\ UNCHANGED cache
    /\ UNCHANGED <<dbVars, ledger, mempool, queue, publisherVars, task, receipt, faults>>

SendScheduleTx(w) ==
    /\ mempool' = Append(mempool, ScheduleTx(TargetSchedule(w), w))
    /\ Goto(w, "awaitSchedule")

\* Variant: the performance counts as scheduled once the transaction is sent.
TryScheduleUnconfirmed(w) ==
    /\ pc[w] = "trySchedule"
    /\ SetCache(TargetSchedule(w), "SCHEDULED")
    /\ SendScheduleTx(w)
    /\ UNCHANGED <<dbVars, ledger, queue, publisherVars, task, receipt, faults>>

\* The one that may asks the contract again, and sends the transaction if it says no.
TrySchedule(w) ==
    /\ pc[w] = "trySchedule"
    /\ IF TargetSchedule(w) \in scheduled
       THEN /\ SetCache(TargetSchedule(w), "SCHEDULED")
            /\ Goto(w, "isMinted")
            /\ UNCHANGED mempool
       ELSE SendScheduleTx(w) /\ UNCHANGED cache
    /\ UNCHANGED <<dbVars, ledger, queue, publisherVars, task, receipt, faults>>

\* doSchedulePerformance: a failed transaction is an error, and the task is given up.
ReadScheduleReceipt(w) ==
    /\ pc[w] = "awaitSchedule"
    /\ receipt[w] # "none"
    /\ IF receipt[w] = "succeeded"
       THEN SetCache(TargetSchedule(w), "SCHEDULED") /\ Goto(w, "isMinted") /\ UNCHANGED task
       ELSE SetCache(TargetSchedule(w), "NOT_SCHEDULED") /\ DropTask(w)
    /\ receipt' = [receipt EXCEPT ![w] = "none"]
    /\ UNCHANGED <<dbVars, ledger, mempool, queue, publisherVars, faults>>

\* The recipients of the mints of t waiting in the mempool, the first to be mined first.
PendingMints(t) ==
    {i \in DOMAIN mempool :
        mempool[i].kind = "mint" /\ mempool[i].ticket = t /\ mempool[i].to # NoOne}

FirstPendingMint(t) == CHOOSE i \in PendingMints(t) : \A j \in PendingMints(t) : i <= j

\* The owner of t in the node's "pending" state, which may or may not take account of
\* the transactions in its mempool.
PendingOwners(t) ==
    IF Ledger!Issued(t) \/ PendingMints(t) = {}
    THEN {owner[t]}
    ELSE {NoOne, mempool[FirstPendingMint(t)].to}

IsTicketMinted(w) ==
    /\ pc[w] = "isMinted"
    /\ IF TargetSchedule(w) \in scheduled
       THEN /\ \E a \in PendingOwners(Target(w)) :
                  Goto(w, IF a = NoOne THEN "mint" ELSE "validate")
            /\ UNCHANGED task
       ELSE DropTask(w)             \* the call reverts
    /\ UNCHANGED <<dbVars, ledger, mempool, cache, queue, publisherVars, receipt, faults>>

\* validateOwnership: a ticket minted before must be the recipient's.
ValidateOwnership(w) ==
    /\ pc[w] = "validate"
    /\ \E a \in PendingOwners(Target(w)) :
          IF a # NoOne /\ a = task[w].recipient
          THEN Goto(w, "mark") /\ UNCHANGED task
          ELSE DropTask(w)
    /\ UNCHANGED <<dbVars, ledger, mempool, cache, queue, publisherVars, receipt, faults>>

\* Variant: an error of the call that sends the transaction is lost.
SendMintTxOrNot(w) ==
    /\ pc[w] = "mint"
    /\ \/ /\ mempool' = Append(mempool, MintTx(Target(w), task[w].recipient, w))
          /\ Goto(w, "awaitMint")
       \/ /\ UNCHANGED mempool
          /\ Goto(w, "mark")
    /\ UNCHANGED <<dbVars, ledger, cache, queue, publisherVars, task, receipt, faults>>

SendMintTx(w) ==
    /\ pc[w] = "mint"
    /\ mempool' = Append(mempool, MintTx(Target(w), task[w].recipient, w))
    /\ Goto(w, "awaitMint")
    /\ UNCHANGED <<dbVars, ledger, cache, queue, publisherVars, task, receipt, faults>>

\* doMintTicket returns nil for any receipt, that of a failed transaction included.
ReadMintReceipt(w) ==
    /\ pc[w] = "awaitMint"
    /\ receipt[w] # "none"
    /\ Goto(w, "mark")
    /\ receipt' = [receipt EXCEPT ![w] = "none"]
    /\ UNCHANGED <<dbVars, ledger, mempool, cache, queue, publisherVars, task, faults>>

\* UPDATE reservation SET status = 'MINTED' WHERE reservation_id = ?
MarkAsMinted(w) ==
    /\ pc[w] = "mark"
    /\ status' = [status EXCEPT ![task[w].reservation] = "MINTED"]
    /\ DropTask(w)
    /\ UNCHANGED <<cancelling, wallet, held, due, ledger, mempool, cache, queue,
                   publisherVars, receipt, faults>>

Work(w) ==
    \/ TakeTask(w)
    \/ ReadCache(w)
    \/ AskContract(w)
    \/ BeginScheduling(w)
    \/ TrySchedule(w)
    \/ ReadScheduleReceipt(w)
    \/ IsTicketMinted(w)
    \/ ValidateOwnership(w)
    \/ SendMintTx(w)
    \/ ReadMintReceipt(w)
    \/ MarkAsMinted(w)

-----------------------------------------------------------------------------
(* Faults.                                                                  *)

\* The transactions of the workers in W stay in the mempool, but nobody waits for them.
Abandon(W) ==
    [i \in DOMAIN mempool |->
        IF mempool[i].by \in W THEN [mempool[i] EXCEPT !.by = Nobody] ELSE mempool[i]]

CallsOut == {"askContract", "trySchedule", "awaitSchedule", "isMinted", "validate",
             "mint", "awaitMint", "mark"}
HoldsSchedule == {"trySchedule", "awaitSchedule"}

\* Variant: the error path forgets to store NOT_SCHEDULED.
CallFailsHoldingSchedule(w) ==
    /\ faults < MaxFaults
    /\ faults' = faults + 1
    /\ pc[w] \in CallsOut
    /\ DropTask(w)
    /\ receipt' = [receipt EXCEPT ![w] = "none"]
    /\ mempool' = Abandon({w})
    /\ UNCHANGED <<dbVars, ledger, cache, queue, publisherVars>>

\* A call to the node or to the database returns an error.
CallFails(w) ==
    /\ faults < MaxFaults
    /\ faults' = faults + 1
    /\ pc[w] \in CallsOut
    /\ DropTask(w)
    /\ receipt' = [receipt EXCEPT ![w] = "none"]
    /\ mempool' = Abandon({w})
    /\ IF pc[w] \in HoldsSchedule
       THEN SetCache(TargetSchedule(w), "NOT_SCHEDULED")
       ELSE UNCHANGED cache
    /\ UNCHANGED <<dbVars, ledger, queue, publisherVars>>

\* In SchedulePerformance an error of the contract call (other than a cancelled context)
\* is taken for a no: the transaction is sent even if the performance is scheduled.
QueryFailsWhileTrying(w) ==
    /\ faults < MaxFaults
    /\ faults' = faults + 1
    /\ pc[w] = "trySchedule"
    /\ SendScheduleTx(w)
    /\ UNCHANGED <<dbVars, ledger, cache, queue, publisherVars, task, receipt>>

\* The process stops or crashes, and starts again.  Once Stop has cancelled the context
\* no worker reaches the chain or the table, so a stop is a crash to everybody else.
Restart ==
    /\ faults < MaxFaults
    /\ faults' = faults + 1
    /\ mempool' = Abandon(Worker)
    /\ cache' = NewMintHelper
    /\ queue' = NewTaskQueue
    /\ rows' = [p \in Publisher |-> {}]
    /\ sending' = [p \in Publisher |-> NoTask]
    /\ pc' = [w \in Worker |-> "idle"]
    /\ task' = [w \in Worker |-> NoTask]
    /\ receipt' = [w \in Worker |-> "none"]
    /\ UNCHANGED <<dbVars, ledger>>

-----------------------------------------------------------------------------
Backend ==
    \/ \E r \in Reservation :
          ReserveTicket(r) \/ LoadReservationToCancel(r) \/ CancelMyReservation(r)
    \/ \E u \in User, a \in Address : RegisterWallet(u, a)
    \/ \E s \in Schedule : BecomesDue(s)

Chain ==
    \/ Mine
    \/ \E t \in Ticket, a \in Address : TransferTicket(t, a)
    \/ \E s \in Schedule : OperatorSchedules(s)

Faults ==
    \/ \E w \in Worker : CallFails(w) \/ QueryFailsWhileTrying(w)
    \/ Restart

Next ==
    \/ Backend
    \/ Chain
    \/ \E p \in Publisher : Publish(p)
    \/ \E w \in Worker : Work(w)
    \/ Faults

Spec == Init /\ [][Next]_vars

\* The publisher's timer fires again and again, its goroutines and the workers are
\* scheduled, and the chain mines what it accepted.  Users, the operator and the calendar
\* need do nothing.
Fairness ==
    /\ \A p \in Publisher : WF_vars(Publish(p))
    /\ \A w \in Worker : WF_vars(Work(w))
    /\ WF_vars(Mine)

FairSpec == Spec /\ Fairness
-----------------------------------------------------------------------------
(* Invariants.                                                              *)

Label == {"idle", "isScheduled", "schedule"} \union CallsOut

\* The types, with the limits of the queue and of a poll (cap(taskQueue) is both).
TypeOK ==
    /\ status \in [Reservation -> Status]
    /\ cancelling \subseteq Reservation
    /\ wallet \in [User -> Address \union {NoOne}]
    /\ held \in [User -> SUBSET (Address \union {NoOne})]
    /\ due \subseteq Schedule
    /\ scheduled \subseteq Schedule
    /\ owner \in [Ticket -> Address \union {NoOne}]
    /\ issuedTo \in [Ticket -> Address \union {NoOne}]
    /\ mempool \in Seq(Tx)
    /\ cache \in [Schedule -> Cache]
    /\ queue \in Seq(Task) /\ Len(queue) <= Capacity
    /\ rows \in [Publisher -> SUBSET Task]
    /\ \A p \in Publisher : IsFiniteSet(rows[p]) /\ Cardinality(rows[p]) <= Capacity
    /\ sending \in [Publisher -> Task \union {NoTask}]
    /\ pc \in [Worker -> Label]
    /\ task \in [Worker -> Task \union {NoTask}]
    /\ receipt \in [Worker -> Receipt]
    /\ faults \in 0 .. MaxFaults
    /\ \A w \in Worker : pc[w] # "idle" => task[w] # NoTask

\* What the cache says is so: SCHEDULED means that the contract knows the schedule,
\* whichever worker, operator or earlier process registered it.
CacheIsSound ==
    \A s \in Schedule : cache[s] = "SCHEDULED" => s \in scheduled

Scheduling(s) == {w \in Worker : pc[w] \in HoldsSchedule /\ TargetSchedule(w) = s}

\* TRY_SCHEDULING is a lock: at most one worker of the process schedules a performance,
\* nobody enters while it does, and a lock that is taken has a worker that will release
\* it, so the others never wait for nothing (mint_helper.go 122-156, although line 72
\* may overwrite the lock of another worker).
SchedulingIsExclusive ==
    \A s \in Schedule :
        /\ \A v, w \in Scheduling(s) : v = w
        /\ cache[s] = "NOT_SCHEDULED" => Scheduling(s) = {}
        /\ cache[s] = "TRY_SCHEDULING" => Scheduling(s) # {}

\* A claim on a ticket: a reservation of it whose user has or had the wallet a, for a
\* performance about to start.
Claim(t, a) ==
    \E r \in Reservation :
        /\ ReservedTicket[r] = t
        /\ status[r] # "NONE"
        /\ a \in held[Reserver[r]]
        /\ t[1] \in due

\* Every ticket on the chain was minted to a wallet of somebody who reserved that very
\* seat: nothing the queue, the restarts, the retries or the changes of wallets and
\* reservations on the way can do mints a ticket to anybody else, or ahead of time.
EveryTicketWasReserved ==
    \A t \in Ticket : issuedTo[t] # NoOne => Claim(t, issuedTo[t])

\* r is the only reservation ever made for its seat.
OnlyReservation(r) ==
    \A q \in Reservation \ {r} : status[q] # "NONE" => ReservedTicket[q] # ReservedTicket[r]

\* And its user always had a wallet.
SoleClaim(r) == NoOne \notin held[Reserver[r]] /\ OnlyReservation(r)

\* The ticket of r was minted to a wallet of its user, or is about to be.
OwnedByReserver(r) ==
    LET t == ReservedTicket[r]
        wallets == held[Reserver[r]] \ {NoOne}
    IN  \/ issuedTo[t] \in wallets
        \/ issuedTo[t] = NoOne /\ \E i \in PendingMints(t) : mempool[i].to \in wallets

\* Where nobody competes for the seat, MINTED tells the truth: the ticket was minted to
\* the reserver or is on its way, whatever failed and was retried before.
SoleClaimIsMinted ==
    \A r \in Reservation : status[r] = "MINTED" /\ SoleClaim(r) => OwnedByReserver(r)

SeatIsTaken(t) == issuedTo[t] # NoOne \/ PendingMints(t) # {}

\* With rivals, too, MINTED means that much of a user who always had a wallet: the seat has
\* its ticket or will have it with the transactions sent, although perhaps a rival's.  The
\* failed receipt that the code takes for a good one can only be that of a mint that came
\* second (mint_helper.go 196-216 and 237-254).
MintedIsTaken ==
    \A r \in Reservation :
        status[r] = "MINTED" /\ NoOne \notin held[Reserver[r]] => SeatIsTaken(ReservedTicket[r])

CancelledInTime(r) == status[r] = "CANCEL" /\ ReservedTicket[r][1] \notin due

\* A cancel before the day of the performance is final: the reservation stays cancelled and
\* no ticket is issued for it, whatever is polled, queued, retried or restarted later.  The
\* race with the worker that mints and writes MINTED is one of the last day only
\* (CancelMyReservationService 33-57, nft.sql.go 38-53, minter.go 72-79).
CancelInTimeIsFinal ==
    \A r \in Reservation :
        [](CancelledInTime(r) =>
              [](/\ status[r] = "CANCEL"
                 /\ OnlyReservation(r) => issuedTo[ReservedTicket[r]] = NoOne))

\* The same without a condition: "ticket minted" (minter.go 73) is logged, and the
\* reservation is MINTED, only if the ticket was minted to its user; a ticket whose
\* "owner is other account" (mint_helper.go 244) is an error.
MintedIsOwned ==
    \A r \in Reservation : status[r] = "MINTED" => OwnedByReserver(r)

BoxOffice == INSTANCE BoxOffice WITH
    claims <- {c \in Ticket \X Address : Claim(c[1], c[2])},
    issued <- issuedTo

\* The whole of it, polls, queue, retries, restarts and rivals, is as good as a box office
\* that issues each ticket once, on a claim that was there before: nobody can get a ticket
\* in any other way (task_publisher.go 27-48, mint_helper.go 218-254, nft.sql.go 38-65).
ImplementsBoxOffice == BoxOffice!Spec

-----------------------------------------------------------------------------
(* Liveness.                                                                *)

Settled(r) == status[r] \in {"MINTED", "CANCEL"}

HeldByAnother(r) ==
    LET t == ReservedTicket[r]
    IN  owner[t] # NoOne /\ owner[t] # wallet[Reserver[r]]

\* A confirmed reservation does not stay so for ever once its performance is about to
\* start, unless somebody else has its ticket.
ConfirmedIsSettled ==
    \A r \in Reservation :
        r \in Confirmed ~> Settled(r) \/ HeldByAnother(r)
=============================================================================
