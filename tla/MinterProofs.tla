---------------------------- MODULE MinterProofs ----------------------------
(***************************************************************************)
(* Theorems about Minter, for every number of reservations, workers and    *)
(* publishers, every queue capacity and every number of faults.            *)
(***************************************************************************)
EXTENDS Minter, FiniteSetTheorems, SequenceTheorems, TLAPS

-----------------------------------------------------------------------------
(* Transactions.                                                            *)

LEMMA ScheduleTxType ==
    ASSUME NEW s \in Schedule, NEW w \in Sender
    PROVE  ScheduleTx(s, w) \in Tx
  BY DEF Tx

LEMMA MintTxType ==
    ASSUME NEW t \in Ticket, NEW a \in Address \union {NoOne}, NEW w \in Sender
    PROVE  MintTx(t, a, w) \in Tx
  BY DEF Tx

\* A transaction is one of the two kinds, and its fields tell which.
LEMMA TxCases ==
    ASSUME NEW tx \in Tx
    PROVE  /\ tx.by \in Sender
           /\ \/ /\ tx.kind = "schedule"
                 /\ tx.schedule \in Schedule
                 /\ tx = ScheduleTx(tx.schedule, tx.by)
              \/ /\ tx.kind = "mint"
                 /\ tx.ticket \in Ticket
                 /\ tx.to \in Address \union {NoOne}
                 /\ tx = MintTx(tx.ticket, tx.to, tx.by)
  BY DEF Tx, ScheduleTx, MintTx

\* Forgetting the sender of a transaction changes nothing else.
LEMMA AnonymousTx ==
    ASSUME NEW tx \in Tx
    PROVE  LET anonymous == [tx EXCEPT !.by = Nobody]
           IN  /\ anonymous \in Tx
               /\ anonymous.by = Nobody
               /\ anonymous.kind = tx.kind
               /\ tx.kind = "schedule" => anonymous.schedule = tx.schedule
               /\ tx.kind = "mint" => anonymous.ticket = tx.ticket /\ anonymous.to = tx.to
  <1>1. CASE tx.kind = "schedule"
    <2>1. PICK s \in Schedule, w \in Sender : tx = ScheduleTx(s, w)
      BY <1>1, TxCases
    <2>2. [tx EXCEPT !.by = Nobody] = ScheduleTx(s, Nobody)
      BY <2>1 DEF ScheduleTx
    <2> QED  BY <1>1, <2>1, <2>2, ScheduleTxType DEF Sender, ScheduleTx
  <1>2. CASE tx.kind = "mint"
    <2>1. PICK t \in Ticket, a \in Address \union {NoOne}, w \in Sender : tx = MintTx(t, a, w)
      BY <1>2, TxCases
    <2>2. [tx EXCEPT !.by = Nobody] = MintTx(t, a, Nobody)
      BY <2>1 DEF MintTx
    <2> QED  BY <1>2, <2>1, <2>2, MintTxType DEF Sender, MintTx
  <1> QED  BY <1>1, <1>2, TxCases

LEMMA AbandonType ==
    ASSUME mempool \in Seq(Tx), NEW W
    PROVE  /\ Abandon(W) \in Seq(Tx)
           /\ Len(Abandon(W)) = Len(mempool)
           /\ DOMAIN Abandon(W) = DOMAIN mempool
           /\ \A i \in DOMAIN mempool :
                 /\ mempool[i].by \in W => Abandon(W)[i] = [mempool[i] EXCEPT !.by = Nobody]
                 /\ mempool[i].by \notin W => Abandon(W)[i] = mempool[i]
  <1>1. DOMAIN mempool = 1 .. Len(mempool) /\ Len(mempool) \in Nat
    BY LenProperties
  <1>2. \A i \in DOMAIN mempool : mempool[i] \in Tx
    BY <1>1, ElementOfSeq
  <1>3. \A i \in 1 .. Len(mempool) :
          (IF mempool[i].by \in W THEN [mempool[i] EXCEPT !.by = Nobody] ELSE mempool[i]) \in Tx
    BY <1>1, <1>2, AnonymousTx
  <1>4. Abandon(W) \in Seq(Tx)
    BY <1>1, <1>3, IsASeq DEF Abandon
  <1> QED  BY <1>1, <1>4, LenProperties DEF Abandon

-----------------------------------------------------------------------------
(* Types.                                                                   *)

LEMMA TaskOfType ==
    ASSUME TypeOK, NEW r \in Reservation
    PROVE  TaskOf(r) \in Task
  BY MinterAssumption DEF TypeOK, TaskOf, Task

\* NoTask is the empty tuple, and a task is a record with two fields.
LEMMA NoTaskIsNoTask == NoTask \notin Task
  BY DEF NoTask, Task

LEMMA TargetType ==
    ASSUME TypeOK, NEW w \in Worker, pc[w] # "idle"
    PROVE  /\ task[w] \in Task
           /\ Target(w) \in Ticket
           /\ TargetSchedule(w) \in Schedule
           /\ task[w].recipient \in Address \union {NoOne}
           /\ task[w].reservation \in Reservation
  <1>1. task[w] \in Task
    BY DEF TypeOK
  <1>2. task[w].reservation \in Reservation /\ task[w].recipient \in Address \union {NoOne}
    BY <1>1 DEF Task
  <1> QED  BY <1>1, <1>2, MinterAssumption DEF Target, TargetSchedule, Ticket

LEMMA InitType == Init => TypeOK
  <1> SUFFICES ASSUME Init PROVE TypeOK
    OBVIOUS
  <1>1. <<>> \in Seq(Tx) /\ <<>> \in Seq(Task) /\ Len(<<>>) = 0
    BY EmptySeq
  <1>2. IsFiniteSet({}) /\ Cardinality({}) = 0
    BY FS_EmptySet
  <1> QED
    BY <1>1, <1>2, MinterAssumption
    DEF Init, NewMintHelper, NewTaskQueue, TypeOK, Status, Cache, Receipt, Label, Task,
        NoTask, CallsOut

\* The step of TypeOK for the actions that leave the workers and the publishers alone.
LEMMA BackendType == TypeOK /\ Backend => TypeOK'
  <1> SUFFICES ASSUME TypeOK, Backend PROVE TypeOK'
    OBVIOUS
  <1>1. ASSUME NEW r \in Reservation, ReserveTicket(r) PROVE TypeOK'
    BY <1>1 DEF TypeOK, ReserveTicket, Status, ledger, publisherVars, workerVars
  <1>2. ASSUME NEW r \in Reservation, LoadReservationToCancel(r) PROVE TypeOK'
    BY <1>2 DEF TypeOK, LoadReservationToCancel, ledger, publisherVars, workerVars
  <1>3. ASSUME NEW r \in Reservation, CancelMyReservation(r) PROVE TypeOK'
    BY <1>3 DEF TypeOK, CancelMyReservation, Status, ledger, publisherVars, workerVars
  <1>4. ASSUME NEW u \in User, NEW a \in Address, RegisterWallet(u, a) PROVE TypeOK'
    BY <1>4 DEF TypeOK, RegisterWallet, ledger, publisherVars, workerVars
  <1>5. ASSUME NEW s \in Schedule, BecomesDue(s) PROVE TypeOK'
    BY <1>5 DEF TypeOK, BecomesDue, ledger, publisherVars, workerVars
  <1> QED  BY <1>1, <1>2, <1>3, <1>4, <1>5 DEF Backend

LEMMA MempoolHead ==
    ASSUME TypeOK, mempool # <<>>
    PROVE  /\ Head(mempool) \in Tx
           /\ Head(mempool) = mempool[1]
           /\ Tail(mempool) \in Seq(Tx)
           /\ Len(Tail(mempool)) = Len(mempool) - 1
           /\ \A i \in 1 .. Len(mempool) - 1 : Tail(mempool)[i] = mempool[i + 1]
  BY HeadTailProperties DEF TypeOK

LEMMA ChainType == TypeOK /\ Chain => TypeOK'
  <1> SUFFICES ASSUME TypeOK, Chain PROVE TypeOK'
    OBVIOUS
  <1>1. CASE Mine
    <2> DEFINE tx == Head(mempool)
    <2>1. tx \in Tx /\ Tail(mempool) \in Seq(Tx) /\ mempool' = Tail(mempool)
      BY <1>1, MempoolHead DEF Mine
    <2>2. /\ scheduled' \subseteq Schedule
          /\ owner' \in [Ticket -> Address \union {NoOne}]
          /\ issuedTo' \in [Ticket -> Address \union {NoOne}]
      <3>1. CASE Succeeds(tx) /\ tx.kind = "schedule"
        <4>1. tx.schedule \in Schedule
          BY <2>1, <3>1, TxCases
        <4> QED  BY <1>1, <3>1, <4>1 DEF Mine, Execute, TypeOK
      <3>2. CASE Succeeds(tx) /\ tx.kind # "schedule"
        <4>1. tx.to \in Address \union {NoOne}
          BY <2>1, <3>2, TxCases
        <4> QED  BY <1>1, <3>2, <4>1 DEF Mine, Execute, TypeOK
      <3>3. CASE ~Succeeds(tx)
        BY <1>1, <3>3 DEF Mine, TypeOK, ledger
      <3> QED  BY <3>1, <3>2, <3>3
    <2>3. receipt' \in [Worker -> Receipt]
      BY <1>1 DEF Mine, TypeOK, Receipt
    <2> QED  BY <1>1, <2>1, <2>2, <2>3 DEF Mine, TypeOK, dbVars, publisherVars
  <1>2. ASSUME NEW t \in Ticket, NEW a \in Address, TransferTicket(t, a) PROVE TypeOK'
    BY <1>2 DEF TypeOK, TransferTicket, dbVars, publisherVars, workerVars
  <1>3. ASSUME NEW s \in Schedule, OperatorSchedules(s) PROVE TypeOK'
    <2>1. mempool' \in Seq(Tx)
      BY <1>3, ScheduleTxType, AppendProperties DEF OperatorSchedules, TypeOK, Sender
    <2> QED  BY <1>3, <2>1 DEF TypeOK, OperatorSchedules, dbVars, ledger, publisherVars, workerVars
  <1> QED  BY <1>1, <1>2, <1>3 DEF Chain

\* A publisher's rows are as many as the query may return, at most.
LEMMA RowsAreFew ==
    ASSUME TypeOK, NEW p \in Publisher, Publish(p)
    PROVE  \A q \in Publisher : IsFiniteSet(rows'[q]) /\ Cardinality(rows'[q]) <= Capacity
  <1>1. CASE FetchConfirmed(p)
    <2>1. PICK fetched \in SUBSET Confirmed :
             /\ Cardinality(fetched) <= Capacity
             /\ rows' = [rows EXCEPT ![p] = {TaskOf(r) : r \in fetched}]
      BY <1>1 DEF FetchConfirmed
    <2>2. fetched \subseteq Reservation
      BY <2>1 DEF Confirmed
    <2>3. IsFiniteSet(fetched) /\ Cardinality(fetched) \in Nat
      BY <2>2, MinterAssumption, FS_Subset, FS_CardinalityType
    <2> DEFINE tasks == {TaskOf(r) : r \in fetched}
    <2>4. IsFiniteSet(tasks) /\ Cardinality(tasks) <= Cardinality(fetched)
      <3> HIDE DEF tasks
      <3> DEFINE f == [r \in fetched |-> TaskOf(r)]
      <3>1. f \in Surjection(fetched, tasks)
        BY DEF Surjection, tasks
      <3> QED  BY <2>3, <3>1, FS_Surjection
    <2>5. Cardinality(tasks) \in Nat
      BY <2>4, FS_CardinalityType
    <2>6. Cardinality(tasks) <= Capacity
      <3> HIDE DEF tasks
      <3> QED  BY <2>1, <2>3, <2>4, <2>5, MinterAssumption
    <2> QED
      <3> HIDE DEF tasks
      <3>1. rows' = [rows EXCEPT ![p] = tasks]
        BY <2>1 DEF tasks
      <3> QED  BY <2>4, <2>6, <3>1 DEF TypeOK
  <1>2. CASE ConsiderRow(p)
    <2>1. PICK left \in SUBSET rows[p] : rows' = [rows EXCEPT ![p] = left]
      BY <1>2 DEF ConsiderRow
    <2>2. IsFiniteSet(rows[p]) /\ Cardinality(rows[p]) <= Capacity
      BY DEF TypeOK
    <2>3. /\ IsFiniteSet(left) /\ Cardinality(left) <= Cardinality(rows[p])
          /\ Cardinality(left) \in Nat /\ Cardinality(rows[p]) \in Nat
      BY <2>2, FS_Subset, FS_CardinalityType
    <2>4. Cardinality(left) <= Capacity
      BY <2>2, <2>3, MinterAssumption
    <2> QED  BY <2>1, <2>3, <2>4 DEF TypeOK
  <1>3. CASE Enqueue(p)
    BY <1>3 DEF Enqueue, TypeOK
  <1> QED  BY <1>1, <1>2, <1>3 DEF Publish

LEMMA PublishType ==
    ASSUME TypeOK, NEW p \in Publisher, Publish(p)
    PROVE  TypeOK'
  <1>1. CASE FetchConfirmed(p)
    <2>1. Confirmed \subseteq Reservation
      BY DEF Confirmed
    <2>2. rows' \in [Publisher -> SUBSET Task]
      BY <1>1, <2>1, TaskOfType DEF FetchConfirmed, TypeOK
    <2> QED  BY <1>1, <2>2, RowsAreFew DEF FetchConfirmed, TypeOK, dbVars, ledger, workerVars
  <1>2. CASE ConsiderRow(p)
    BY <1>2, RowsAreFew DEF ConsiderRow, TypeOK, dbVars, ledger, workerVars
  <1>3. CASE Enqueue(p)
    <2>1. sending[p] \in Task
      BY <1>3 DEF Enqueue, TypeOK
    <2>2. queue' \in Seq(Task) /\ Len(queue') = Len(queue) + 1 /\ Len(queue) \in Nat
      BY <1>3, <2>1, AppendProperties, LenProperties DEF Enqueue, TypeOK
    <2>3. Len(queue') <= Capacity
      BY <1>3, <2>2, MinterAssumption DEF Enqueue, QueueHasRoom
    <2> QED
      BY <1>3, <2>2, <2>3, RowsAreFew DEF Enqueue, TypeOK, dbVars, ledger, workerVars
  <1> QED  BY <1>1, <1>2, <1>3 DEF Publish

LEMMA WorkType ==
    ASSUME TypeOK, NEW w \in Worker, Work(w)
    PROVE  TypeOK'
  <1> USE DEF Goto, DropTask, SetCache
  <1>0. mempool \in Seq(Tx)
    BY DEF TypeOK
  <1>1. CASE TakeTask(w)
    <2>1. Head(queue) \in Task /\ Tail(queue) \in Seq(Task) /\ Len(Tail(queue)) = Len(queue) - 1
      BY <1>1, HeadTailProperties DEF TakeTask, TypeOK
    <2>2. Len(queue) \in Nat /\ Head(queue) # NoTask
      BY <2>1, NoTaskIsNoTask, LenProperties DEF TypeOK
    <2>3. queue' \in Seq(Task) /\ Len(queue') <= Capacity
      BY <1>1, <2>1, <2>2, MinterAssumption DEF TakeTask, TypeOK
    <2> QED
      BY <1>1, <2>1, <2>2, <2>3 DEF TakeTask, TypeOK, Label, dbVars, ledger, publisherVars
  <1>2. CASE ReadCache(w)
    BY <1>2 DEF ReadCache, TypeOK, Label, CallsOut, dbVars, ledger, publisherVars
  <1>3. CASE AskContract(w)
    BY <1>3 DEF AskContract, TypeOK, Label, CallsOut, Cache, dbVars, ledger, publisherVars
  <1>4. CASE BeginScheduling(w)
    BY <1>4 DEF BeginScheduling, TypeOK, Label, CallsOut, Cache, dbVars, ledger, publisherVars
  <1>5. CASE TrySchedule(w)
    <2>1. ScheduleTx(TargetSchedule(w), w) \in Tx
      BY <1>5, TargetType, ScheduleTxType DEF TrySchedule, Sender
    <2>2. mempool' \in Seq(Tx)
      BY <1>0, <1>5, <2>1, AppendProperties DEF TrySchedule, SendScheduleTx
    <2> QED
      BY <1>5, <2>2
      DEF TrySchedule, SendScheduleTx, TypeOK, Label, CallsOut, Cache, dbVars, ledger, publisherVars
  <1>6. CASE ReadScheduleReceipt(w)
    BY <1>6
    DEF ReadScheduleReceipt, TypeOK, Label, CallsOut, Cache, Receipt, dbVars, ledger, publisherVars
  <1>7. CASE IsTicketMinted(w)
    BY <1>7 DEF IsTicketMinted, TypeOK, Label, CallsOut, dbVars, ledger, publisherVars
  <1>8. CASE ValidateOwnership(w)
    BY <1>8 DEF ValidateOwnership, TypeOK, Label, CallsOut, dbVars, ledger, publisherVars
  <1>9. CASE SendMintTx(w)
    <2>1. MintTx(Target(w), task[w].recipient, w) \in Tx
      BY <1>9, TargetType, MintTxType DEF SendMintTx, Sender
    <2>2. mempool' \in Seq(Tx)
      BY <1>0, <1>9, <2>1, AppendProperties DEF SendMintTx
    <2> QED
      BY <1>9, <2>2 DEF SendMintTx, TypeOK, Label, CallsOut, dbVars, ledger, publisherVars
  <1>10. CASE ReadMintReceipt(w)
    BY <1>10 DEF ReadMintReceipt, TypeOK, Label, CallsOut, Receipt, dbVars, ledger, publisherVars
  <1>11. CASE MarkAsMinted(w)
    BY <1>11, TargetType
    DEF MarkAsMinted, TypeOK, Label, Status, dbVars, ledger, publisherVars
  <1> QED
    BY <1>1, <1>2, <1>3, <1>4, <1>5, <1>6, <1>7, <1>8, <1>9, <1>10, <1>11 DEF Work

LEMMA FaultsType == TypeOK /\ Faults => TypeOK'
  <1> SUFFICES ASSUME TypeOK, Faults PROVE TypeOK'
    OBVIOUS
  <1>0. mempool \in Seq(Tx)
    BY DEF TypeOK
  <1>1. ASSUME NEW w \in Worker, CallFails(w) PROVE TypeOK'
    <2>1. mempool' \in Seq(Tx)
      BY <1>0, <1>1, AbandonType DEF CallFails
    <2>2. faults' \in 0 .. MaxFaults
      BY <1>1, MinterAssumption DEF CallFails, TypeOK
    <2> QED
      BY <1>1, <2>1, <2>2
      DEF CallFails, TypeOK, Goto, DropTask, SetCache, Label, Cache, Receipt,
          dbVars, ledger, publisherVars
  <1>2. ASSUME NEW w \in Worker, QueryFailsWhileTrying(w) PROVE TypeOK'
    <2>1. ScheduleTx(TargetSchedule(w), w) \in Tx
      BY <1>2, TargetType, ScheduleTxType DEF QueryFailsWhileTrying, Sender
    <2>2. mempool' \in Seq(Tx)
      BY <1>0, <1>2, <2>1, AppendProperties DEF QueryFailsWhileTrying, SendScheduleTx
    <2>3. faults' \in 0 .. MaxFaults
      BY <1>2, MinterAssumption DEF QueryFailsWhileTrying, TypeOK
    <2> QED
      BY <1>2, <2>2, <2>3
      DEF QueryFailsWhileTrying, SendScheduleTx, TypeOK, Goto, Label, CallsOut,
          dbVars, ledger, publisherVars
  <1>3. CASE Restart
    <2>1. mempool' \in Seq(Tx)
      BY <1>0, <1>3, AbandonType DEF Restart, NewMintHelper, NewTaskQueue
    <2>2. faults' \in 0 .. MaxFaults
      BY <1>3, MinterAssumption DEF Restart, NewMintHelper, NewTaskQueue, TypeOK
    <2>3. queue' \in Seq(Task) /\ Len(queue') <= Capacity
      BY <1>3, EmptySeq, MinterAssumption DEF Restart, NewMintHelper, NewTaskQueue
    <2>4. IsFiniteSet({}) /\ Cardinality({}) = 0
      BY FS_EmptySet
    <2> QED
      BY <1>3, <2>1, <2>2, <2>3, <2>4, MinterAssumption
        DEF Restart, NewMintHelper, NewTaskQueue, TypeOK, Label, Cache, Receipt,
            dbVars, ledger
  <1> QED  BY <1>1, <1>2, <1>3 DEF Faults

LEMMA NextType == TypeOK /\ [Next]_vars => TypeOK'
  <1> SUFFICES ASSUME TypeOK, [Next]_vars PROVE TypeOK'
    OBVIOUS
  <1>1. CASE UNCHANGED vars
    BY <1>1 DEF vars, dbVars, ledger, publisherVars, workerVars, TypeOK
  <1> QED
    BY <1>1, BackendType, ChainType, PublishType, WorkType, FaultsType DEF Next

\* Every variable keeps its type, the queue and every poll never hold more than Capacity
\* tasks, and a worker that is not idle has a task.
THEOREM TypeCorrect == Spec => []TypeOK
  BY InitType, NextType, PTL DEF Spec

-----------------------------------------------------------------------------
(* The scheduling of performances: the inductive invariant behind            *)
(* CacheIsSound and SchedulingIsExclusive.                                  *)

PastScheduling == {"isMinted", "validate", "mint", "awaitMint", "mark"}

\* A worker that got past the scheduling works on a schedule the contract knows.
PastSchedulingIsScheduled ==
    \A w \in Worker : pc[w] \in PastScheduling => TargetSchedule(w) \in scheduled

\* The transaction i of the mempool is the one that w sent last, and w awaits its receipt.
Awaits(w, i) ==
    /\ receipt[w] = "none"
    /\ \/ pc[w] = "awaitSchedule" /\ mempool[i] = ScheduleTx(TargetSchedule(w), w)
       \/ pc[w] = "awaitMint" /\ mempool[i] = MintTx(Target(w), task[w].recipient, w)

SendersWait ==
    \A i \in DOMAIN mempool : \A w \in Worker : mempool[i].by = w => Awaits(w, i)

\* A worker waits for one transaction at a time.
OneTxEach ==
    \A i, j \in DOMAIN mempool :
        mempool[i].by = mempool[j].by /\ mempool[i].by \in Worker => i = j

\* Only a worker that waits has a receipt, and that of a registration tells the truth.
ReceiptIsAwaited ==
    \A w \in Worker :
        receipt[w] # "none" =>
            \/ pc[w] = "awaitMint"
            \/ /\ pc[w] = "awaitSchedule"
               /\ receipt[w] = "succeeded" => TargetSchedule(w) \in scheduled

SchedulingInv ==
    /\ TypeOK
    /\ CacheIsSound
    /\ SchedulingIsExclusive
    /\ PastSchedulingIsScheduled
    /\ SendersWait
    /\ OneTxEach
    /\ ReceiptIsAwaited

-----------------------------------------------------------------------------
(* The inductive invariant behind EveryTicketWasReserved: whatever is on its *)
(* way to become a ticket is backed by a reservation.                       *)

Backed(tk) ==
    /\ status[tk.reservation] # "NONE"
    /\ tk.recipient \in held[Reserver[tk.reservation]]
    /\ ReservedTicket[tk.reservation][1] \in due

TasksAreBacked ==
    /\ \A p \in Publisher : \A row \in rows[p] : Backed(row)
    /\ \A p \in Publisher : sending[p] # NoTask => Backed(sending[p])
    /\ \A i \in DOMAIN queue : Backed(queue[i])
    /\ \A w \in Worker : pc[w] # "idle" => Backed(task[w])

MintsAreClaimed ==
    \A i \in DOMAIN mempool :
        mempool[i].kind = "mint" => Claim(mempool[i].ticket, mempool[i].to)

WalletIsHeld == \A u \in User : wallet[u] \in held[u]

ReservedInv ==
    /\ WalletIsHeld
    /\ TasksAreBacked
    /\ MintsAreClaimed
    /\ EveryTicketWasReserved

-----------------------------------------------------------------------------
(* The inductive invariant behind SoleClaimIsMinted.                        *)

\* The token of a ticket and the record of its mint come together.
OwnedIsIssued == \A t \in Ticket : owner[t] = NoOne <=> issuedTo[t] = NoOne

\* A mint is only ever sent for a schedule the contract knows.
MintsAreScheduled ==
    \A i \in DOMAIN mempool : mempool[i].kind = "mint" => mempool[i].ticket[1] \in scheduled

\* A worker that is done with minting, and only has to say so.
Minted(w) == pc[w] = "mark" \/ (pc[w] = "awaitMint" /\ receipt[w] # "none")

SoleTaskIsMinted ==
    \A w \in Worker :
        Minted(w) /\ SoleClaim(task[w].reservation) => OwnedByReserver(task[w].reservation)

MintedInv ==
    /\ OwnedIsIssued
    /\ MintsAreScheduled
    /\ SoleTaskIsMinted
    /\ SoleClaimIsMinted

-----------------------------------------------------------------------------
(* SchedulingInv is inductive.                                              *)

\* w is the only worker that moves.
OnlyMoves(w) ==
    \A v \in Worker \ {w} : pc'[v] = pc[v] /\ task'[v] = task[v] /\ receipt'[v] = receipt[v]

LEMMA TargetKept ==
    ASSUME NEW v, task'[v] = task[v]
    PROVE  Target(v)' = Target(v) /\ TargetSchedule(v)' = TargetSchedule(v)
  BY DEF Target, TargetSchedule

\* A worker that waits for nothing has no transaction in the mempool.
LEMMA NothingSent ==
    ASSUME SendersWait, NEW w \in Worker,
           pc[w] \notin {"awaitSchedule", "awaitMint"} \/ receipt[w] # "none"
    PROVE  \A i \in DOMAIN mempool : mempool[i].by # w
  BY DEF SendersWait, Awaits

\* The parts of SchedulingInv on the mempool, for a step of w that leaves it alone.
LEMMA MempoolKept ==
    ASSUME SchedulingInv, NEW w \in Worker, OnlyMoves(w), mempool' = mempool,
           \A i \in DOMAIN mempool : mempool[i].by # w
    PROVE  SendersWait' /\ OneTxEach'
  <1>1. ASSUME NEW i \in DOMAIN mempool, NEW v \in Worker, mempool[i].by = v
        PROVE  Awaits(v, i)'
    <2>1. v # w /\ Awaits(v, i)
      BY <1>1 DEF SchedulingInv, SendersWait
    <2>2. task'[v] = task[v] /\ pc'[v] = pc[v] /\ receipt'[v] = receipt[v]
      BY <2>1 DEF OnlyMoves
    <2> QED  BY <2>1, <2>2, TargetKept DEF Awaits
  <1> QED  BY <1>1 DEF SendersWait, OneTxEach, SchedulingInv

\* The same for a step of w that sends a transaction it then awaits.
LEMMA MempoolSent ==
    ASSUME SchedulingInv, NEW w \in Worker, OnlyMoves(w),
           NEW tx \in Tx, tx.by = w, mempool' = Append(mempool, tx),
           \A i \in DOMAIN mempool : mempool[i].by # w,
           Awaits(w, Len(mempool))'
    PROVE  SendersWait' /\ OneTxEach'
  <1>0. mempool \in Seq(Tx)
    BY DEF SchedulingInv, TypeOK
  <1>1. /\ Len(mempool) \in Nat
        /\ DOMAIN mempool = 1 .. Len(mempool)
        /\ DOMAIN mempool' = 1 .. Len(mempool) + 1
        /\ \A i \in 1 .. Len(mempool) : mempool'[i] = mempool[i]
        /\ mempool'[Len(mempool) + 1] = tx
    BY <1>0, AppendProperties, LenProperties
  <1>2. ASSUME NEW i \in DOMAIN mempool', NEW v \in Worker, mempool'[i].by = v
        PROVE  Awaits(v, i)'
    <2>1. CASE i = Len(mempool) + 1
      BY <1>1, <1>2, <2>1
    <2>2. CASE i \in 1 .. Len(mempool)
      <3>1. v # w /\ Awaits(v, i)
        BY <1>1, <1>2, <2>2 DEF SchedulingInv, SendersWait
      <3>2. task'[v] = task[v] /\ pc'[v] = pc[v] /\ receipt'[v] = receipt[v]
        BY <3>1 DEF OnlyMoves
      <3> QED  BY <1>1, <2>2, <3>1, <3>2, TargetKept DEF Awaits
    <2> QED  BY <1>1, <2>1, <2>2
  <1>3. OneTxEach'
    <2> SUFFICES ASSUME NEW i \in DOMAIN mempool', NEW j \in DOMAIN mempool',
                        mempool'[i].by = mempool'[j].by, mempool'[i].by \in Worker
                 PROVE  i = j
      BY DEF OneTxEach
    <2> QED  BY <1>1 DEF SchedulingInv, OneTxEach
  <1> QED  BY <1>2, <1>3 DEF SendersWait

\* The parts on the other workers, for a step of w; schedules are never unregistered.
LEMMA OthersKept ==
    ASSUME SchedulingInv, NEW w \in Worker, OnlyMoves(w), scheduled \subseteq scheduled',
           pc'[w] \in PastScheduling => TargetSchedule(w)' \in scheduled',
           receipt'[w] = "none"
    PROVE  PastSchedulingIsScheduled' /\ ReceiptIsAwaited'
  <1>1. ASSUME NEW v \in Worker, v # w
        PROVE  /\ pc'[v] = pc[v] /\ receipt'[v] = receipt[v]
               /\ TargetSchedule(v)' = TargetSchedule(v)
    BY <1>1, TargetKept DEF OnlyMoves
  <1> QED
    BY <1>1 DEF SchedulingInv, PastSchedulingIsScheduled, ReceiptIsAwaited

\* The lock, for a step of w that neither takes nor releases it.
LEMMA LockKept ==
    ASSUME SchedulingInv, NEW w \in Worker, OnlyMoves(w), cache' = cache,
           pc'[w] \in HoldsSchedule <=> pc[w] \in HoldsSchedule,
           pc[w] \in HoldsSchedule => task'[w] = task[w]
    PROVE  SchedulingIsExclusive'
  <1>1. ASSUME NEW v \in Worker, NEW s
        PROVE  v \in Scheduling(s)' <=> v \in Scheduling(s)
    BY TargetKept DEF OnlyMoves, Scheduling
  <1>2. \A s : Scheduling(s)' = Scheduling(s)
    BY <1>1 DEF Scheduling
  <1> QED  BY <1>2 DEF SchedulingInv, SchedulingIsExclusive

\* The lock, for a step of w that releases it with or without success.
LEMMA LockReleased ==
    ASSUME SchedulingInv, NEW w \in Worker, OnlyMoves(w),
           pc[w] \in HoldsSchedule, pc'[w] \notin HoldsSchedule,
           NEW state, state # "TRY_SCHEDULING",
           cache' = [cache EXCEPT ![TargetSchedule(w)] = state]
    PROVE  SchedulingIsExclusive'
  <1>1. pc[w] # "idle"
    BY DEF HoldsSchedule
  <1>0. PICK target : target = TargetSchedule(w)
    OBVIOUS
  <1>2. target \in Schedule /\ cache \in [Schedule -> Cache]
    BY <1>0, <1>1, TargetType DEF SchedulingInv, TypeOK
  <1>3. ASSUME NEW v \in Worker, NEW s
        PROVE  v \in Scheduling(s)' <=> v \in Scheduling(s) /\ v # w
    BY TargetKept DEF OnlyMoves, Scheduling
  <1>4. Scheduling(target) = {w}
    BY <1>0, <1>2 DEF SchedulingInv, SchedulingIsExclusive, Scheduling
  <1>5. Scheduling(target)' = {}
    BY <1>3, <1>4 DEF Scheduling
  <1>6. ASSUME NEW s \in Schedule, s # target
        PROVE  Scheduling(s)' = Scheduling(s) /\ cache'[s] = cache[s]
    <2>1. w \notin Scheduling(s)
      BY <1>0, <1>6 DEF Scheduling
    <2>2. cache'[s] = cache[s]
      BY <1>0, <1>2, <1>6
    <2> QED  BY <1>3, <2>1, <2>2 DEF Scheduling
  <1>7. cache'[target] = state
    BY <1>0, <1>2
  <1> QED  BY <1>2, <1>5, <1>6, <1>7 DEF SchedulingInv, SchedulingIsExclusive

LEMMA InitScheduling == Init => SchedulingInv
  <1> SUFFICES ASSUME Init PROVE SchedulingInv
    OBVIOUS
  <1>1. TypeOK
    BY InitType
  <1>2. DOMAIN mempool = {}
    BY DEF Init, NewMintHelper, NewTaskQueue
  <1>3. CacheIsSound /\ SchedulingIsExclusive
    BY
      DEF Init, NewMintHelper, NewTaskQueue, CacheIsSound, SchedulingIsExclusive,
          Scheduling, HoldsSchedule
  <1>4. PastSchedulingIsScheduled /\ ReceiptIsAwaited
    BY
      DEF Init, NewMintHelper, NewTaskQueue, PastSchedulingIsScheduled, PastScheduling,
          ReceiptIsAwaited
  <1>5. SendersWait /\ OneTxEach
    BY <1>2 DEF SendersWait, OneTxEach
  <1> QED  BY <1>1, <1>3, <1>4, <1>5 DEF SchedulingInv

\* Steps of the backend, the holders and the publishers do not touch what it speaks of.
LEMMA FrameScheduling ==
    ASSUME SchedulingInv, TypeOK',
           UNCHANGED <<scheduled, mempool, cache, pc, task, receipt>>
    PROVE  SchedulingInv'
  <1>1. \A w : Target(w)' = Target(w) /\ TargetSchedule(w)' = TargetSchedule(w)
    BY TargetKept
  <1>2. \A s : Scheduling(s)' = Scheduling(s)
    BY <1>1 DEF Scheduling
  <1>3. \A w, i : Awaits(w, i)' <=> Awaits(w, i)
    BY <1>1 DEF Awaits
  <1> QED
    BY <1>1, <1>2, <1>3
    DEF SchedulingInv, CacheIsSound, SchedulingIsExclusive, PastSchedulingIsScheduled,
        SendersWait, OneTxEach, ReceiptIsAwaited

\* What mining does to the contract.
LEMMA MineLedger ==
    ASSUME TypeOK, Mine
    PROVE  LET tx == Head(mempool)
           IN  /\ scheduled \subseteq scheduled'
               /\ Succeeds(tx) /\ tx.kind = "schedule" => tx.schedule \in scheduled'
               /\ \A w \in Worker : w # tx.by => receipt'[w] = receipt[w]
               /\ tx.by \in Worker =>
                     receipt'[tx.by] = IF Succeeds(tx) THEN "succeeded" ELSE "failed"
  BY DEF Mine, Execute, ledger

LEMMA MineScheduling ==
    ASSUME SchedulingInv, Mine
    PROVE  SchedulingInv'
  <1> DEFINE tx == Head(mempool)
  <1>1. TypeOK /\ TypeOK'
    BY ChainType DEF SchedulingInv, Chain
  <1>2. /\ UNCHANGED <<cache, pc, task>>
        /\ mempool # <<>> /\ mempool' = Tail(mempool)
    BY DEF Mine
  <1>3. \A w : Target(w)' = Target(w) /\ TargetSchedule(w)' = TargetSchedule(w)
    BY <1>2, TargetKept
  <1>4. CacheIsSound' /\ SchedulingIsExclusive' /\ PastSchedulingIsScheduled'
    <2>1. \A s : Scheduling(s)' = Scheduling(s)
      BY <1>2, <1>3 DEF Scheduling
    <2> QED
      BY <1>1, <1>2, <1>3, <2>1, MineLedger
      DEF SchedulingInv, CacheIsSound, SchedulingIsExclusive, PastSchedulingIsScheduled
  <1>5. /\ Len(mempool) \in Nat /\ Len(mempool) >= 1
        /\ DOMAIN mempool = 1 .. Len(mempool)
        /\ DOMAIN mempool' = 1 .. Len(mempool) - 1
        /\ \A i \in 1 .. Len(mempool) - 1 : mempool'[i] = mempool[i + 1]
        /\ tx = mempool[1] /\ tx \in Tx
    BY <1>1, <1>2, MempoolHead, LenProperties, EmptySeq DEF TypeOK
  <1>6. SendersWait'
    <2> SUFFICES ASSUME NEW i \in DOMAIN mempool', NEW w \in Worker, mempool'[i].by = w
                 PROVE  Awaits(w, i)'
      BY DEF SendersWait
    <2>1. i + 1 \in DOMAIN mempool /\ 1 \in DOMAIN mempool /\ i + 1 # 1
      BY <1>5
    <2>2. mempool'[i] = mempool[i + 1]
      BY <1>5
    <2>3. Awaits(w, i + 1)
      BY <2>1, <2>2 DEF SchedulingInv, SendersWait
    <2>4. tx.by # w
      BY <1>5, <2>1, <2>2 DEF SchedulingInv, OneTxEach
    <2>5. receipt'[w] = receipt[w]
      BY <1>1, <2>4, MineLedger
    <2> QED  BY <1>2, <1>3, <2>2, <2>3, <2>5 DEF Awaits
  <1>7. OneTxEach'
    BY <1>5 DEF SchedulingInv, OneTxEach
  <1>8. ReceiptIsAwaited'
    <2> SUFFICES ASSUME NEW w \in Worker, receipt'[w] # "none"
                 PROVE  \/ pc[w] = "awaitMint"
                        \/ /\ pc[w] = "awaitSchedule"
                           /\ receipt'[w] = "succeeded" => TargetSchedule(w) \in scheduled'
      BY <1>2, <1>3 DEF ReceiptIsAwaited
    <2>1. CASE w # tx.by
      BY <1>1, <2>1, MineLedger DEF SchedulingInv, ReceiptIsAwaited
    <2>2. CASE w = tx.by
      <3>1. Awaits(w, 1)
        BY <1>5, <2>2 DEF SchedulingInv, SendersWait
      <3>2. CASE pc[w] = "awaitSchedule"
        <4>1. tx.kind = "schedule" /\ tx.schedule = TargetSchedule(w)
          BY <1>5, <3>1, <3>2 DEF Awaits, ScheduleTx
        <4> QED  BY <1>1, <2>2, <3>2, <4>1, MineLedger
      <3> QED  BY <3>1, <3>2 DEF Awaits
    <2> QED  BY <2>1, <2>2
  <1> QED  BY <1>1, <1>4, <1>6, <1>7, <1>8 DEF SchedulingInv

LEMMA OperatorScheduling ==
    ASSUME SchedulingInv, NEW s \in Schedule, OperatorSchedules(s)
    PROVE  SchedulingInv'
  <1>1. TypeOK' /\ mempool \in Seq(Tx)
    BY ChainType DEF SchedulingInv, Chain, TypeOK
  <1>2. UNCHANGED <<scheduled, cache, pc, task, receipt>>
    BY DEF OperatorSchedules, ledger, workerVars
  <1>3. /\ Len(mempool) \in Nat
        /\ DOMAIN mempool = 1 .. Len(mempool)
        /\ DOMAIN mempool' = 1 .. Len(mempool) + 1
        /\ \A i \in 1 .. Len(mempool) : mempool'[i] = mempool[i]
        /\ mempool'[Len(mempool) + 1].by \notin Worker
    BY <1>1, ScheduleTxType, AppendProperties, LenProperties, MinterAssumption
    DEF OperatorSchedules, ScheduleTx, Sender
  <1>4. \A w : Target(w)' = Target(w) /\ TargetSchedule(w)' = TargetSchedule(w)
    BY <1>2, TargetKept
  <1>5. \A t : Scheduling(t)' = Scheduling(t)
    BY <1>2, <1>4 DEF Scheduling
  <1>6. SendersWait'
    <2> SUFFICES ASSUME NEW i \in DOMAIN mempool', NEW w \in Worker, mempool'[i].by = w
                 PROVE  Awaits(w, i)'
      BY DEF SendersWait
    <2>1. i \in 1 .. Len(mempool) /\ mempool'[i] = mempool[i]
      BY <1>3
    <2> QED  BY <1>2, <1>3, <1>4, <2>1 DEF SchedulingInv, SendersWait, Awaits
  <1>7. OneTxEach'
    <2> SUFFICES ASSUME NEW i \in DOMAIN mempool', NEW j \in DOMAIN mempool',
                        mempool'[i].by = mempool'[j].by, mempool'[i].by \in Worker
                 PROVE  i = j
      BY DEF OneTxEach
    <2> QED  BY <1>3 DEF SchedulingInv, OneTxEach
  <1> QED
    BY <1>1, <1>2, <1>4, <1>5, <1>6, <1>7
    DEF SchedulingInv, CacheIsSound, SchedulingIsExclusive, PastSchedulingIsScheduled,
        ReceiptIsAwaited

\* A worker sends the transaction that registers its schedule, and holds on to the lock.
LEMMA SendScheduling ==
    ASSUME SchedulingInv, TypeOK', NEW w \in Worker, OnlyMoves(w),
           pc[w] = "trySchedule", receipt[w] = "none", SendScheduleTx(w),
           UNCHANGED <<scheduled, cache, task, receipt>>
    PROVE  SchedulingInv'
  <1>1. /\ mempool \in Seq(Tx) /\ pc \in [Worker -> Label]
        /\ mempool' = Append(mempool, ScheduleTx(TargetSchedule(w), w))
        /\ pc' = [pc EXCEPT ![w] = "awaitSchedule"]
    BY DEF SchedulingInv, TypeOK, SendScheduleTx, Goto
  <1>2. PICK tx \in Tx : tx = ScheduleTx(TargetSchedule(w), w)
    BY TargetType, ScheduleTxType DEF SchedulingInv, Sender
  <1>3. mempool'[Len(mempool')] = tx
    BY <1>1, <1>2, AppendProperties
  <1>4. Awaits(w, Len(mempool))'
    BY <1>1, <1>2, <1>3, TargetKept DEF Awaits
  <1>5. SendersWait' /\ OneTxEach'
    BY <1>1, <1>2, <1>4, NothingSent, MempoolSent DEF SchedulingInv, ScheduleTx
  <1> QED
    BY <1>1, <1>5, OthersKept, LockKept
    DEF SchedulingInv, PastScheduling, HoldsSchedule, CacheIsSound

\* A worker past the scheduling stays there with its task, or becomes idle.
LEMMA StaysPast ==
    ASSUME SchedulingInv, TypeOK', NEW w \in Worker, OnlyMoves(w),
           pc[w] \in PastScheduling,
           pc[w] # "awaitMint" \/ receipt[w] # "none",
           pc'[w] \in PastScheduling \union {"idle"},
           pc'[w] # "idle" => task' = task,
           receipt'[w] = "none",
           UNCHANGED <<scheduled, mempool, cache>>
    PROVE  SchedulingInv'
  <1>1. pc'[w] \in PastScheduling => TargetSchedule(w)' \in scheduled'
    BY TargetKept DEF SchedulingInv, PastSchedulingIsScheduled, PastScheduling
  <1>2. SendersWait' /\ OneTxEach'
    BY NothingSent, MempoolKept DEF SchedulingInv, PastScheduling
  <1> QED
    BY <1>1, <1>2, OthersKept, LockKept
    DEF SchedulingInv, PastScheduling, HoldsSchedule, CacheIsSound

LEMMA WorkScheduling ==
    ASSUME SchedulingInv, NEW w \in Worker, Work(w)
    PROVE  SchedulingInv'
  <1> USE DEF Goto, DropTask, SetCache
  <1>1. TypeOK /\ TypeOK'
    BY WorkType DEF SchedulingInv
  <1>2. /\ pc \in [Worker -> Label] /\ receipt \in [Worker -> Receipt]
        /\ task \in [Worker -> Task \union {NoTask}] /\ cache \in [Schedule -> Cache]
        /\ mempool \in Seq(Tx)
    BY <1>1 DEF TypeOK
  <1>3. pc[w] # "idle" => TargetSchedule(w) \in Schedule
    BY <1>1, TargetType
  <1>4. pc[w] \notin {"awaitSchedule", "awaitMint"} => receipt[w] = "none"
    BY DEF SchedulingInv, ReceiptIsAwaited
  <1>5. CASE TakeTask(w)
    <2>1. /\ OnlyMoves(w) /\ pc[w] = "idle" /\ pc'[w] = "isScheduled" /\ receipt' = receipt
          /\ UNCHANGED <<scheduled, mempool, cache>>
      BY <1>2, <1>5 DEF TakeTask, OnlyMoves, ledger
    <2> QED
      BY <1>1, <1>4, <2>1, NothingSent, MempoolKept, OthersKept, LockKept
      DEF SchedulingInv, PastScheduling, HoldsSchedule, CacheIsSound
  <1>6. CASE ReadCache(w)
    <2>1. /\ OnlyMoves(w) /\ pc[w] = "isScheduled" /\ pc'[w] \in {"isMinted", "askContract"}
          /\ UNCHANGED <<scheduled, mempool, cache, task, receipt>>
      BY <1>2, <1>6 DEF ReadCache, OnlyMoves, ledger
    <2>2. pc'[w] = "isMinted" => TargetSchedule(w)' \in scheduled'
      BY <1>2, <1>3, <1>6, <2>1, TargetKept DEF ReadCache, SchedulingInv, CacheIsSound
    <2> QED
      BY <1>1, <1>4, <2>1, <2>2, NothingSent, MempoolKept, OthersKept, LockKept
      DEF SchedulingInv, PastScheduling, HoldsSchedule, CacheIsSound
  <1>7. CASE AskContract(w)
    <2>1. /\ OnlyMoves(w) /\ pc[w] = "askContract" /\ pc'[w] \in {"isMinted", "schedule"}
          /\ UNCHANGED <<scheduled, mempool, task, receipt>>
      BY <1>2, <1>7 DEF AskContract, OnlyMoves, ledger
    <2>2. SendersWait' /\ OneTxEach'
      BY <2>1, NothingSent, MempoolKept DEF SchedulingInv
    <2>3. CASE TargetSchedule(w) \in scheduled
      <3>1. cache' = [cache EXCEPT ![TargetSchedule(w)] = "SCHEDULED"]
        BY <1>7, <2>3 DEF AskContract
      <3>2. CacheIsSound'
        BY <1>2, <2>1, <2>3, <3>1 DEF SchedulingInv, CacheIsSound
      <3>3. \A s : Scheduling(s)' = Scheduling(s)
        BY <2>1, TargetKept DEF Scheduling, OnlyMoves, HoldsSchedule
      <3>4. SchedulingIsExclusive'
        BY <1>2, <1>3, <2>1, <3>1, <3>3 DEF SchedulingInv, SchedulingIsExclusive
      <3> QED
        BY <1>1, <1>4, <2>1, <2>2, <2>3, <3>2, <3>4, OthersKept, TargetKept DEF SchedulingInv
    <2>4. CASE TargetSchedule(w) \notin scheduled
      <3>1. cache' = cache /\ pc'[w] = "schedule"
        BY <1>2, <1>7, <2>4 DEF AskContract
      <3> QED
        BY <1>1, <1>4, <2>1, <2>2, <3>1, OthersKept, LockKept
        DEF SchedulingInv, PastScheduling, HoldsSchedule, CacheIsSound
    <2> QED  BY <2>3, <2>4
  <1>8. CASE BeginScheduling(w)
    <2>1. /\ OnlyMoves(w) /\ pc[w] = "schedule"
          /\ UNCHANGED <<scheduled, mempool, task, receipt>>
      BY <1>2, <1>8 DEF BeginScheduling, OnlyMoves, ledger
    <2>2. SendersWait' /\ OneTxEach'
      BY <2>1, NothingSent, MempoolKept DEF SchedulingInv
    <2>3. CASE MayTry(TargetSchedule(w)) /\ pc'[w] = "trySchedule"
               /\ cache' = [cache EXCEPT ![TargetSchedule(w)] = "TRY_SCHEDULING"]
      <3>0. PICK target \in Schedule : target = TargetSchedule(w)
        BY <1>3, <2>1
      <3>1. ASSUME NEW v \in Worker, NEW s
            PROVE  v \in Scheduling(s)' <=> v \in Scheduling(s) \/ (v = w /\ s = target)
        BY <2>1, <2>3, <3>0, TargetKept DEF Scheduling, OnlyMoves, HoldsSchedule
      <3>2. Scheduling(target) = {} /\ Scheduling(target)' = {w}
        BY <2>3, <3>0, <3>1 DEF MayTry, SchedulingInv, SchedulingIsExclusive, Scheduling
      <3>3. \A s : s # target => Scheduling(s)' = Scheduling(s)
        BY <3>1 DEF Scheduling
      <3>4. /\ cache'[target] = "TRY_SCHEDULING"
            /\ \A s \in Schedule : s # target => cache'[s] = cache[s]
        BY <1>2, <2>3, <3>0
      <3>5. SchedulingIsExclusive' /\ CacheIsSound'
        BY <2>1, <3>2, <3>3, <3>4 DEF SchedulingInv, SchedulingIsExclusive, CacheIsSound
      <3> QED
        BY <1>1, <1>4, <2>1, <2>2, <2>3, <3>5, OthersKept DEF SchedulingInv, PastScheduling
    <2>4. CASE cache[TargetSchedule(w)] = "SCHEDULED" /\ pc'[w] = "isMinted" /\ cache' = cache
      <3>1. TargetSchedule(w)' \in scheduled'
        BY <1>3, <2>1, <2>4, TargetKept DEF SchedulingInv, CacheIsSound
      <3> QED
        BY <1>1, <1>4, <2>1, <2>2, <2>4, <3>1, OthersKept, LockKept
        DEF SchedulingInv, HoldsSchedule, CacheIsSound
    <2> QED  BY <1>2, <1>8, <2>3, <2>4 DEF BeginScheduling
  <1>9. CASE TrySchedule(w)
    <2>1. /\ OnlyMoves(w) /\ pc[w] = "trySchedule"
          /\ UNCHANGED <<scheduled, task, receipt>>
      BY <1>2, <1>9 DEF TrySchedule, SendScheduleTx, OnlyMoves, ledger
    <2>2. CASE TargetSchedule(w) \in scheduled
      <3>1. /\ cache' = [cache EXCEPT ![TargetSchedule(w)] = "SCHEDULED"]
            /\ pc'[w] = "isMinted" /\ mempool' = mempool
        BY <1>2, <1>9, <2>2 DEF TrySchedule
      <3>2. CacheIsSound'
        BY <1>2, <2>1, <2>2, <3>1 DEF SchedulingInv, CacheIsSound
      <3>3. TargetSchedule(w)' \in scheduled'
        BY <2>1, <2>2, TargetKept
      <3>4. SendersWait' /\ OneTxEach'
        BY <2>1, <3>1, NothingSent, MempoolKept DEF SchedulingInv
      <3>5. SchedulingIsExclusive'
        BY <2>1, <3>1, LockReleased DEF HoldsSchedule
      <3> QED  BY <1>1, <1>4, <2>1, <3>2, <3>3, <3>4, <3>5, OthersKept DEF SchedulingInv
    <2>3. CASE TargetSchedule(w) \notin scheduled
      <3>1. SendScheduleTx(w) /\ cache' = cache
        BY <1>9, <2>3 DEF TrySchedule
      <3> QED  BY <1>1, <1>4, <2>1, <3>1, SendScheduling
    <2> QED  BY <2>2, <2>3
  <1>10. CASE ReadScheduleReceipt(w)
    <2>1. /\ OnlyMoves(w) /\ pc[w] = "awaitSchedule" /\ receipt[w] # "none"
          /\ pc'[w] \in {"isMinted", "idle"} /\ receipt'[w] = "none"
          /\ UNCHANGED <<scheduled, mempool>>
      BY <1>2, <1>10 DEF ReadScheduleReceipt, OnlyMoves, ledger
    <2>2. SendersWait' /\ OneTxEach'
      BY <2>1, NothingSent, MempoolKept DEF SchedulingInv
    <2>3. CASE receipt[w] = "succeeded"
      <3>1. /\ cache' = [cache EXCEPT ![TargetSchedule(w)] = "SCHEDULED"]
            /\ task' = task /\ TargetSchedule(w) \in scheduled
        BY <1>10, <2>1, <2>3 DEF ReadScheduleReceipt, SchedulingInv, ReceiptIsAwaited
      <3>2. CacheIsSound'
        BY <1>2, <2>1, <3>1 DEF SchedulingInv, CacheIsSound
      <3>3. SchedulingIsExclusive'
        BY <2>1, <3>1, LockReleased DEF HoldsSchedule
      <3> QED
        BY <1>1, <2>1, <2>2, <3>1, <3>2, <3>3, OthersKept, TargetKept DEF SchedulingInv
    <2>4. CASE receipt[w] # "succeeded"
      <3>1. /\ cache' = [cache EXCEPT ![TargetSchedule(w)] = "NOT_SCHEDULED"]
            /\ pc'[w] = "idle"
        BY <1>2, <1>10, <2>4 DEF ReadScheduleReceipt
      <3>2. CacheIsSound'
        BY <1>2, <2>1, <3>1 DEF SchedulingInv, CacheIsSound
      <3>3. SchedulingIsExclusive'
        BY <2>1, <3>1, LockReleased DEF HoldsSchedule
      <3> QED
        BY <1>1, <2>1, <2>2, <3>1, <3>2, <3>3, OthersKept DEF SchedulingInv, PastScheduling
    <2> QED  BY <2>3, <2>4
  <1>11. CASE IsTicketMinted(w)
    <2>1. /\ OnlyMoves(w) /\ pc[w] = "isMinted" /\ pc'[w] \in {"mint", "validate", "idle"}
          /\ pc'[w] # "idle" => task' = task
          /\ UNCHANGED <<scheduled, mempool, cache, receipt>>
      BY <1>2, <1>11 DEF IsTicketMinted, OnlyMoves, ledger
    <2> QED  BY <1>1, <1>4, <2>1, StaysPast DEF PastScheduling
  <1>12. CASE ValidateOwnership(w)
    <2>1. /\ OnlyMoves(w) /\ pc[w] = "validate" /\ pc'[w] \in {"mark", "idle"}
          /\ pc'[w] # "idle" => task' = task
          /\ UNCHANGED <<scheduled, mempool, cache, receipt>>
      BY <1>2, <1>12 DEF ValidateOwnership, OnlyMoves, ledger
    <2> QED  BY <1>1, <1>4, <2>1, StaysPast DEF PastScheduling
  <1>13. CASE SendMintTx(w)
    <2>1. /\ OnlyMoves(w) /\ pc[w] = "mint" /\ pc'[w] = "awaitMint"
          /\ UNCHANGED <<scheduled, cache, task, receipt>>
          /\ mempool' = Append(mempool, MintTx(Target(w), task[w].recipient, w))
      BY <1>2, <1>13 DEF SendMintTx, OnlyMoves, ledger
    <2>2. PICK tx \in Tx : tx = MintTx(Target(w), task[w].recipient, w)
      BY <1>1, <2>1, TargetType, MintTxType DEF Sender
    <2>3. mempool'[Len(mempool')] = tx
      BY <1>2, <2>1, <2>2, AppendProperties
    <2>4. Awaits(w, Len(mempool))'
      BY <1>4, <2>1, <2>2, <2>3, TargetKept DEF Awaits
    <2>5. SendersWait' /\ OneTxEach'
      BY <1>2, <2>1, <2>2, <2>4, NothingSent, MempoolSent DEF SchedulingInv, MintTx
    <2>6. TargetSchedule(w)' \in scheduled'
      BY <2>1, TargetKept DEF SchedulingInv, PastSchedulingIsScheduled, PastScheduling
    <2> QED
      BY <1>1, <1>4, <2>1, <2>5, <2>6, OthersKept, LockKept
      DEF SchedulingInv, HoldsSchedule, CacheIsSound
  <1>14. CASE ReadMintReceipt(w)
    <2>1. /\ OnlyMoves(w) /\ pc[w] = "awaitMint" /\ pc'[w] = "mark"
          /\ receipt[w] # "none" /\ receipt'[w] = "none"
          /\ UNCHANGED <<scheduled, mempool, cache, task>>
      BY <1>2, <1>14 DEF ReadMintReceipt, OnlyMoves, ledger
    <2> QED  BY <1>1, <2>1, StaysPast DEF PastScheduling
  <1>15. CASE MarkAsMinted(w)
    <2>1. /\ OnlyMoves(w) /\ pc[w] = "mark" /\ pc'[w] = "idle"
          /\ UNCHANGED <<scheduled, mempool, cache, receipt>>
      BY <1>2, <1>15 DEF MarkAsMinted, OnlyMoves, ledger
    <2> QED  BY <1>1, <1>4, <2>1, StaysPast DEF PastScheduling
  <1> QED
    BY <1>5, <1>6, <1>7, <1>8, <1>9, <1>10, <1>11, <1>12, <1>13, <1>14, <1>15 DEF Work

\* Abandoned transactions have no sender any more, and the others are as they were.
LEMMA AbandonSenders ==
    ASSUME TypeOK, NEW W \in SUBSET Worker
    PROVE  /\ DOMAIN Abandon(W) = DOMAIN mempool
           /\ \A i \in DOMAIN mempool :
                 Abandon(W)[i].by \in Worker =>
                    Abandon(W)[i] = mempool[i] /\ mempool[i].by \notin W
  <1>1. mempool \in Seq(Tx)
    BY DEF TypeOK
  <1>2. \A i \in DOMAIN mempool : mempool[i] \in Tx
    BY <1>1, LenProperties, ElementOfSeq
  <1>3. \A i \in DOMAIN mempool : [mempool[i] EXCEPT !.by = Nobody].by = Nobody
    BY <1>2, AnonymousTx
  <1>4. ASSUME NEW i \in DOMAIN mempool, Abandon(W)[i].by \in Worker
        PROVE  Abandon(W)[i] = mempool[i] /\ mempool[i].by \notin W
    <2>1. ASSUME mempool[i].by \in W PROVE FALSE
      <3>1. Abandon(W)[i] = [mempool[i] EXCEPT !.by = Nobody]
        BY <1>1, <2>1, AbandonType
      <3>2. Abandon(W)[i].by = Nobody
        BY <1>3, <3>1
      <3> QED  BY <1>4, <3>2, MinterAssumption
    <2> QED  BY <1>1, <2>1, AbandonType
  <1> QED  BY <1>1, <1>4, AbandonType

\* The parts on the mempool, when w gives up what it was doing.
LEMMA MempoolAbandoned ==
    ASSUME SchedulingInv, NEW w \in Worker, OnlyMoves(w), mempool' = Abandon({w})
    PROVE  SendersWait' /\ OneTxEach'
  <1>1. /\ DOMAIN mempool' = DOMAIN mempool
        /\ \A i \in DOMAIN mempool : mempool'[i].by \in Worker =>
              mempool'[i] = mempool[i] /\ mempool[i].by # w
    BY AbandonSenders DEF SchedulingInv
  <1>2. SendersWait'
    <2> SUFFICES ASSUME NEW i \in DOMAIN mempool', NEW v \in Worker, mempool'[i].by = v
                 PROVE  Awaits(v, i)'
      BY DEF SendersWait
    <2>1. v # w /\ mempool'[i] = mempool[i] /\ Awaits(v, i)
      BY <1>1 DEF SchedulingInv, SendersWait
    <2>2. pc'[v] = pc[v] /\ task'[v] = task[v] /\ receipt'[v] = receipt[v]
      BY <2>1 DEF OnlyMoves
    <2> QED  BY <2>1, <2>2, TargetKept DEF Awaits
  <1>3. OneTxEach'
    BY <1>1 DEF SchedulingInv, OneTxEach
  <1> QED  BY <1>2, <1>3

LEMMA FaultsScheduling ==
    ASSUME SchedulingInv, Faults
    PROVE  SchedulingInv'
  <1>1. TypeOK /\ TypeOK'
    BY FaultsType DEF SchedulingInv
  <1>2. /\ pc \in [Worker -> Label] /\ receipt \in [Worker -> Receipt]
        /\ task \in [Worker -> Task \union {NoTask}] /\ cache \in [Schedule -> Cache]
        /\ mempool \in Seq(Tx)
    BY <1>1 DEF TypeOK
  <1>3. ASSUME NEW w \in Worker, CallFails(w) PROVE SchedulingInv'
    <2>1. /\ OnlyMoves(w) /\ pc'[w] = "idle" /\ receipt'[w] = "none"
          /\ UNCHANGED scheduled /\ mempool' = Abandon({w})
      BY <1>2, <1>3 DEF CallFails, DropTask, Goto, OnlyMoves, ledger
    <2>2. SendersWait' /\ OneTxEach'
      BY <2>1, MempoolAbandoned
    <2>3. PastSchedulingIsScheduled' /\ ReceiptIsAwaited'
      BY <2>1, OthersKept DEF PastScheduling
    <2>4. SchedulingIsExclusive' /\ CacheIsSound'
      <3>1. CASE pc[w] \in HoldsSchedule
        <4>1. cache' = [cache EXCEPT ![TargetSchedule(w)] = "NOT_SCHEDULED"]
          BY <1>3, <3>1 DEF CallFails, SetCache
        <4>2. CacheIsSound'
          BY <1>2, <2>1, <4>1 DEF SchedulingInv, CacheIsSound
        <4> QED  BY <2>1, <3>1, <4>1, <4>2, LockReleased DEF HoldsSchedule
      <3>2. CASE pc[w] \notin HoldsSchedule
        <4>1. cache' = cache
          BY <1>3, <3>2 DEF CallFails
        <4> QED
          BY <2>1, <3>2, <4>1, LockKept DEF HoldsSchedule, SchedulingInv, CacheIsSound
      <3> QED  BY <3>1, <3>2
    <2> QED  BY <1>1, <2>2, <2>3, <2>4 DEF SchedulingInv
  <1>4. ASSUME NEW w \in Worker, QueryFailsWhileTrying(w) PROVE SchedulingInv'
    <2>1. /\ OnlyMoves(w) /\ pc[w] = "trySchedule" /\ SendScheduleTx(w)
          /\ UNCHANGED <<scheduled, cache, task, receipt>>
      BY <1>2, <1>4 DEF QueryFailsWhileTrying, SendScheduleTx, Goto, OnlyMoves, ledger
    <2>2. receipt[w] = "none"
      BY <2>1 DEF SchedulingInv, ReceiptIsAwaited
    <2> QED  BY <1>1, <2>1, <2>2, SendScheduling
  <1>5. CASE Restart
    <2>1. /\ \A w \in Worker : pc'[w] = "idle" /\ receipt'[w] = "none"
          /\ \A s \in Schedule : cache'[s] = "NOT_SCHEDULED"
          /\ mempool' = Abandon(Worker)
      BY <1>5 DEF Restart, NewMintHelper, NewTaskQueue
    <2>2. \A i \in DOMAIN mempool' : mempool'[i].by \notin Worker
      BY <1>1, <2>1, AbandonSenders
    <2>3. SendersWait' /\ OneTxEach'
      BY <2>2 DEF SendersWait, OneTxEach
    <2>4. \A s : Scheduling(s)' = {}
      BY <2>1 DEF Scheduling, HoldsSchedule
    <2> QED
      BY <1>1, <2>1, <2>3, <2>4
      DEF SchedulingInv, CacheIsSound, SchedulingIsExclusive, PastSchedulingIsScheduled,
          PastScheduling, ReceiptIsAwaited
  <1> QED  BY <1>3, <1>4, <1>5 DEF Faults

LEMMA NextScheduling == SchedulingInv /\ [Next]_vars => SchedulingInv'
  <1> SUFFICES ASSUME SchedulingInv, [Next]_vars PROVE SchedulingInv'
    OBVIOUS
  <1>1. TypeOK'
    BY NextType DEF SchedulingInv
  <1>2. CASE Backend
    BY <1>1, <1>2, FrameScheduling
    DEF Backend, ReserveTicket, LoadReservationToCancel, CancelMyReservation,
        RegisterWallet, BecomesDue, ledger, workerVars
  <1>3. CASE Chain
    BY <1>1, <1>3, MineScheduling, OperatorScheduling, FrameScheduling
    DEF Chain, TransferTicket, workerVars
  <1>4. ASSUME NEW p \in Publisher, Publish(p) PROVE SchedulingInv'
    BY <1>1, <1>4, FrameScheduling
    DEF Publish, FetchConfirmed, ConsiderRow, Enqueue, ledger, workerVars
  <1>5. CASE UNCHANGED vars
    BY <1>1, <1>5, FrameScheduling DEF vars, ledger, workerVars
  <1> QED
    BY <1>2, <1>3, <1>4, <1>5, WorkScheduling, FaultsScheduling DEF Next

THEOREM SchedulingInvariant == Spec => []SchedulingInv
  BY InitScheduling, NextScheduling, PTL DEF Spec

\* The cache never claims that the contract knows a schedule that it does not know.
THEOREM CacheSound == Spec => []CacheIsSound
  <1>1. SchedulingInv => CacheIsSound
    BY DEF SchedulingInv
  <1> QED  BY <1>1, SchedulingInvariant, PTL

\* At most one worker at a time is between taking a schedule's lock and releasing it, and
\* the lock is never taken without such a worker.
THEOREM SchedulingExclusive == Spec => []SchedulingIsExclusive
  <1>1. SchedulingInv => SchedulingIsExclusive
    BY DEF SchedulingInv
  <1> QED  BY <1>1, SchedulingInvariant, PTL

-----------------------------------------------------------------------------
(* What a step can do to the history, to the mints in the mempool and to the *)
(* record of mints.                                                         *)

\* Reservations are never deleted, wallets once held stay on record, and what is due
\* stays due.
LEMMA HistoryGrows ==
    ASSUME TypeOK, [Next]_vars
    PROVE  /\ \A r \in Reservation : status[r] # "NONE" => status'[r] # "NONE"
           /\ \A u \in User : held[u] \subseteq held'[u]
           /\ due \subseteq due'
           /\ scheduled \subseteq scheduled'
  <1>1. CASE Backend
    BY <1>1
    DEF TypeOK, Backend, ReserveTicket, LoadReservationToCancel, CancelMyReservation,
        RegisterWallet, BecomesDue, ledger
  <1>2. CASE Chain
    BY <1>2, MineLedger
    DEF Chain, Mine, TransferTicket, OperatorSchedules, dbVars, ledger
  <1>3. ASSUME NEW p \in Publisher, Publish(p)
        PROVE  UNCHANGED <<dbVars, scheduled>>
    BY <1>3 DEF Publish, FetchConfirmed, ConsiderRow, Enqueue, ledger
  <1>4. ASSUME NEW w \in Worker, Work(w), ~MarkAsMinted(w)
        PROVE  UNCHANGED <<dbVars, scheduled>>
    BY <1>4
    DEF Work, TakeTask, ReadCache, AskContract, BeginScheduling, TrySchedule,
        ReadScheduleReceipt, IsTicketMinted, ValidateOwnership, SendMintTx, ReadMintReceipt,
        ledger
  <1>5. ASSUME NEW w \in Worker, MarkAsMinted(w)
        PROVE  /\ \A r \in Reservation : status[r] # "NONE" => status'[r] # "NONE"
               /\ UNCHANGED <<held, due, scheduled>>
    BY <1>5 DEF TypeOK, MarkAsMinted, ledger
  <1>6. CASE Faults
    BY <1>6
      DEF Faults, CallFails, QueryFailsWhileTrying, Restart, NewMintHelper,
          NewTaskQueue, dbVars, ledger
  <1>7. CASE UNCHANGED vars
    BY <1>7 DEF vars, dbVars, ledger
  <1> QED  BY <1>1, <1>2, <1>3, <1>4, <1>5, <1>6, <1>7 DEF Next, dbVars

LEMMA ClaimStays ==
    ASSUME TypeOK, [Next]_vars, NEW t, NEW a, Claim(t, a)
    PROVE  Claim(t, a)'
  BY HistoryGrows, MinterAssumption DEF Claim

LEMMA BackedStays ==
    ASSUME TypeOK, [Next]_vars, NEW tk \in Task, Backed(tk)
    PROVE  Backed(tk)'
  <1>1. tk.reservation \in Reservation
    BY DEF Task
  <1> QED  BY <1>1, HistoryGrows, MinterAssumption DEF Backed

\* The transaction tx mints t for a.
IsMint(tx, t, a) == tx.kind = "mint" /\ tx.ticket = t /\ tx.to = a

\* Only SendMintTx and Mine, which takes the first, change the mints in the mempool.
LEMMA MempoolMints ==
    ASSUME TypeOK, [Next]_vars, NEW t, NEW a
    PROVE  /\ \A i \in DOMAIN mempool' : IsMint(mempool'[i], t, a) =>
                 \/ \E j \in DOMAIN mempool : IsMint(mempool[j], t, a)
                 \/ \E w \in Worker : SendMintTx(w) /\ t = Target(w) /\ a = task[w].recipient
           /\ \A i \in DOMAIN mempool : IsMint(mempool[i], t, a) =>
                 \/ Mine /\ i = 1
                 \/ \E j \in DOMAIN mempool' : IsMint(mempool'[j], t, a)
  <1>0. /\ mempool \in Seq(Tx) /\ Len(mempool) \in Nat
        /\ DOMAIN mempool = 1 .. Len(mempool)
        /\ \A i \in DOMAIN mempool : mempool[i] \in Tx
    BY LenProperties, ElementOfSeq DEF TypeOK
  <1>1. CASE mempool' = mempool
    BY <1>1
  <1>2. ASSUME NEW W \in SUBSET Worker, mempool' = Abandon(W)
        PROVE  /\ DOMAIN mempool' = DOMAIN mempool
               /\ \A i \in DOMAIN mempool : IsMint(mempool'[i], t, a) <=> IsMint(mempool[i], t, a)
    <2>1. DOMAIN mempool' = DOMAIN mempool
      BY <1>0, <1>2, AbandonType
    <2>2. ASSUME NEW i \in DOMAIN mempool
          PROVE  IsMint(mempool'[i], t, a) <=> IsMint(mempool[i], t, a)
      <3>1. CASE mempool[i].by \in W
        <4>1. mempool'[i] = [mempool[i] EXCEPT !.by = Nobody]
          BY <1>0, <1>2, <3>1, AbandonType
        <4>2. mempool[i] \in Tx
          BY <1>0
        <4>3. /\ mempool'[i].kind = mempool[i].kind
              /\ mempool[i].kind = "mint" =>
                    mempool'[i].ticket = mempool[i].ticket /\ mempool'[i].to = mempool[i].to
          BY <4>1, <4>2, AnonymousTx
        <4> QED  BY <4>3 DEF IsMint
      <3>2. CASE mempool[i].by \notin W
        BY <1>0, <1>2, <3>2, AbandonType
      <3> QED  BY <3>1, <3>2
    <2> QED  BY <2>1, <2>2
  <1>3. ASSUME NEW tx \in Tx, mempool' = Append(mempool, tx)
        PROVE  /\ DOMAIN mempool' = 1 .. Len(mempool) + 1
               /\ \A i \in 1 .. Len(mempool) : mempool'[i] = mempool[i]
               /\ mempool'[Len(mempool) + 1] = tx
    BY <1>0, <1>3, AppendProperties, LenProperties
  <1>4. CASE Mine
    <2>1. mempool # <<>> /\ mempool' = Tail(mempool)
      BY <1>4 DEF Mine
    <2>2. /\ DOMAIN mempool' = 1 .. Len(mempool) - 1
          /\ \A i \in 1 .. Len(mempool) - 1 : mempool'[i] = mempool[i + 1]
      BY <1>0, <2>1, MempoolHead, LenProperties
    <2>3. ASSUME NEW i \in DOMAIN mempool, i # 1
          PROVE  i - 1 \in DOMAIN mempool' /\ mempool'[i - 1] = mempool[i]
      BY <1>0, <2>2, <2>3
    <2>4. ASSUME NEW i \in DOMAIN mempool'
          PROVE  i + 1 \in DOMAIN mempool /\ mempool'[i] = mempool[i + 1]
      BY <1>0, <2>2
    <2> QED  BY <1>4, <2>3, <2>4
  <1>5. ASSUME NEW s \in Schedule, NEW w \in Sender, mempool' = Append(mempool, ScheduleTx(s, w))
        PROVE  /\ \A i \in DOMAIN mempool : mempool'[i] = mempool[i] /\ i \in DOMAIN mempool'
               /\ \A i \in DOMAIN mempool' : IsMint(mempool'[i], t, a) =>
                     i \in DOMAIN mempool /\ mempool'[i] = mempool[i]
    <2>1. ScheduleTx(s, w) \in Tx /\ ~IsMint(ScheduleTx(s, w), t, a)
      BY ScheduleTxType DEF IsMint, ScheduleTx
    <2> QED  BY <1>0, <1>3, <1>5, <2>1
  <1>6. CASE Backend \/ UNCHANGED vars
    BY <1>1, <1>6
    DEF Backend, ReserveTicket, LoadReservationToCancel, CancelMyReservation, RegisterWallet,
        BecomesDue, vars
  <1>7. CASE Chain
    <2>1. ASSUME NEW s \in Schedule, OperatorSchedules(s)
          PROVE  mempool' = Append(mempool, ScheduleTx(s, Nobody))
      BY <2>1 DEF OperatorSchedules
    <2> QED  BY <1>1, <1>4, <1>5, <1>7, <2>1 DEF Chain, TransferTicket, Sender
  <1>8. ASSUME NEW p \in Publisher, Publish(p) PROVE mempool' = mempool
    BY <1>8 DEF Publish, FetchConfirmed, ConsiderRow, Enqueue
  <1>9. ASSUME NEW w \in Worker, Work(w), ~TrySchedule(w), ~SendMintTx(w)
        PROVE  mempool' = mempool
    BY <1>9
    DEF Work, TakeTask, ReadCache, AskContract, BeginScheduling, ReadScheduleReceipt,
        IsTicketMinted, ValidateOwnership, ReadMintReceipt, MarkAsMinted
  <1>10. ASSUME NEW w \in Worker, TrySchedule(w) \/ QueryFailsWhileTrying(w)
         PROVE  \/ mempool' = mempool
                \/ \E s \in Schedule : mempool' = Append(mempool, ScheduleTx(s, w))
    <2>1. TargetSchedule(w) \in Schedule
      BY <1>10, TargetType DEF TrySchedule, QueryFailsWhileTrying
    <2> QED  BY <1>10, <2>1 DEF TrySchedule, QueryFailsWhileTrying, SendScheduleTx
  <1>11. ASSUME NEW w \in Worker, SendMintTx(w)
         PROVE  /\ \A i \in DOMAIN mempool : mempool'[i] = mempool[i] /\ i \in DOMAIN mempool'
                /\ \A i \in DOMAIN mempool' : IsMint(mempool'[i], t, a) =>
                      \/ i \in DOMAIN mempool /\ mempool'[i] = mempool[i]
                      \/ t = Target(w) /\ a = task[w].recipient
    <2>1. PICK tx \in Tx : tx = MintTx(Target(w), task[w].recipient, w)
      BY <1>11, TargetType, MintTxType DEF SendMintTx, Sender
    <2>2. mempool' = Append(mempool, tx)
      BY <1>11, <2>1 DEF SendMintTx
    <2>3. IsMint(tx, t, a) => t = Target(w) /\ a = task[w].recipient
      BY <2>1 DEF IsMint, MintTx
    <2> QED  BY <1>0, <1>3, <2>2, <2>3
  <1>12. CASE \E w \in Worker : Work(w)
    <2>1. PICK w \in Worker : Work(w)
      BY <1>12
    <2>2. CASE TrySchedule(w)
      BY <1>1, <1>5, <1>10, <2>2 DEF Sender
    <2>3. CASE SendMintTx(w)
      BY <1>11, <2>3
    <2> QED  BY <1>1, <1>9, <2>1, <2>2, <2>3
  <1>13. CASE Faults
    <2>1. ASSUME NEW w \in Worker, CallFails(w) PROVE mempool' = Abandon({w})
      BY <2>1 DEF CallFails
    <2>2. Restart => mempool' = Abandon(Worker)
      BY DEF Restart, NewMintHelper, NewTaskQueue
    <2>3. ASSUME NEW w \in Worker, QueryFailsWhileTrying(w)
          PROVE  \E s \in Schedule : mempool' = Append(mempool, ScheduleTx(s, w))
      <3>1. TargetSchedule(w) \in Schedule
        BY <2>3, TargetType DEF QueryFailsWhileTrying
      <3> QED  BY <2>3, <3>1 DEF QueryFailsWhileTrying, SendScheduleTx
    <2>4. CASE \E W \in SUBSET Worker : mempool' = Abandon(W)
      BY <1>2, <2>4
    <2>5. CASE \E w \in Worker, s \in Schedule : mempool' = Append(mempool, ScheduleTx(s, w))
      BY <1>5, <2>5 DEF Sender
    <2> QED  BY <1>13, <2>1, <2>2, <2>3, <2>4, <2>5 DEF Faults
  <1> QED  BY <1>1, <1>6, <1>7, <1>8, <1>12, <1>13 DEF Next

\* The record of mints changes only when the first transaction of the mempool mints a
\* ticket, and the ticket had no owner.
LEMMA IssuedByMine ==
    ASSUME TypeOK, [Next]_vars, NEW t \in Ticket, issuedTo'[t] # issuedTo[t]
    PROVE  /\ Mine
           /\ 1 \in DOMAIN mempool
           /\ IsMint(mempool[1], t, issuedTo'[t])
           /\ owner[t] = NoOne
           /\ issuedTo'[t] \in Address
  <1>1. Mine
    <2>1. CASE Backend
      BY <2>1
      DEF Backend, ReserveTicket, LoadReservationToCancel, CancelMyReservation,
          RegisterWallet, BecomesDue, ledger
    <2>2. ASSUME NEW p \in Publisher, Publish(p) PROVE issuedTo' = issuedTo
      BY <2>2 DEF Publish, FetchConfirmed, ConsiderRow, Enqueue, ledger
    <2>3. ASSUME NEW w \in Worker, Work(w) PROVE issuedTo' = issuedTo
      BY <2>3
      DEF Work, TakeTask, ReadCache, AskContract, BeginScheduling, TrySchedule,
          ReadScheduleReceipt, IsTicketMinted, ValidateOwnership, SendMintTx,
          ReadMintReceipt, MarkAsMinted, ledger
    <2>4. CASE Faults
      BY <2>4
        DEF Faults, CallFails, QueryFailsWhileTrying, Restart, NewMintHelper,
            NewTaskQueue, ledger
    <2>5. CASE UNCHANGED vars
      BY <2>5 DEF vars, ledger
    <2> QED
      BY <2>1, <2>2, <2>3, <2>4, <2>5 DEF Next, Chain, TransferTicket, OperatorSchedules, ledger
  <1> DEFINE tx == Head(mempool)
  <1>2. tx = mempool[1] /\ tx \in Tx /\ 1 \in DOMAIN mempool
    BY <1>1, MempoolHead, LenProperties, EmptySeq DEF Mine, TypeOK
  <1>3. Succeeds(tx) /\ tx.kind # "schedule"
    BY <1>1 DEF Mine, Execute, ledger
  <1>4. tx.kind = "mint" /\ Ledger!CanMint(tx.ticket, tx.to)
    BY <1>2, <1>3, TxCases DEF Succeeds
  <1>5. issuedTo' = [issuedTo EXCEPT ![tx.ticket] = tx.to]
    BY <1>1, <1>3 DEF Mine, Execute
  <1>6. t = tx.ticket /\ issuedTo'[t] = tx.to
    BY <1>5 DEF TypeOK
  <1> QED
    BY <1>1, <1>2, <1>4, <1>6 DEF IsMint, Ledger!CanMint, Ledger!Issued

-----------------------------------------------------------------------------
(* ReservedInv is inductive.                                                *)

LEMMA InitReserved == Init => ReservedInv
  BY MinterAssumption
  DEF Init, NewMintHelper, NewTaskQueue, ReservedInv, WalletIsHeld, TasksAreBacked,
      MintsAreClaimed,
      EveryTicketWasReserved

LEMMA WalletIsHeldKept ==
    ASSUME TypeOK, WalletIsHeld, [Next]_vars
    PROVE  WalletIsHeld'
  <1>1. ASSUME NEW u \in User, NEW a \in Address, RegisterWallet(u, a)
        PROVE  WalletIsHeld'
    BY <1>1 DEF RegisterWallet, WalletIsHeld, TypeOK
  <1>2. CASE UNCHANGED <<wallet, held>>
    BY <1>2 DEF WalletIsHeld
  <1>3. CASE Backend
    BY <1>1, <1>2, <1>3
    DEF Backend, ReserveTicket, LoadReservationToCancel, CancelMyReservation, BecomesDue
  <1>4. CASE Chain
    BY <1>2, <1>4 DEF Chain, Mine, TransferTicket, OperatorSchedules, dbVars
  <1>5. ASSUME NEW p \in Publisher, Publish(p) PROVE UNCHANGED <<wallet, held>>
    BY <1>5 DEF Publish, FetchConfirmed, ConsiderRow, Enqueue, dbVars
  <1>6. ASSUME NEW w \in Worker, Work(w) PROVE UNCHANGED <<wallet, held>>
    BY <1>6
    DEF Work, TakeTask, ReadCache, AskContract, BeginScheduling, TrySchedule,
        ReadScheduleReceipt, IsTicketMinted, ValidateOwnership, SendMintTx,
        ReadMintReceipt, MarkAsMinted, dbVars
  <1>7. CASE Faults
    BY <1>2, <1>7
      DEF Faults, CallFails, QueryFailsWhileTrying, Restart, NewMintHelper,
          NewTaskQueue, dbVars
  <1>8. CASE UNCHANGED vars
    BY <1>2, <1>8 DEF vars, dbVars
  <1> QED  BY <1>2, <1>3, <1>4, <1>5, <1>6, <1>7, <1>8 DEF Next

\* A task that is published is backed by the row it was made from.
LEMMA PublishedIsBacked ==
    ASSUME TypeOK, WalletIsHeld, NEW r \in Confirmed
    PROVE  Backed(TaskOf(r))
  BY MinterAssumption DEF Confirmed, TaskOf, Backed, WalletIsHeld, TypeOK

\* Every task of the new state is one of the old state, or was just made from a row.
LEMMA TasksComeFrom ==
    ASSUME TypeOK, [Next]_vars
    PROVE  /\ \A p \in Publisher : \A row \in rows'[p] :
                 row \in rows[p] \/ \E r \in Confirmed : row = TaskOf(r)
           /\ \A p \in Publisher : sending'[p] # NoTask =>
                 sending'[p] = sending[p] \/ sending'[p] \in rows[p]
           /\ \A i \in DOMAIN queue' :
                 \/ \E j \in DOMAIN queue : queue'[i] = queue[j]
                 \/ \E p \in Publisher : sending[p] # NoTask /\ queue'[i] = sending[p]
           /\ \A w \in Worker : pc'[w] # "idle" =>
                 \/ pc[w] # "idle" /\ task'[w] = task[w]
                 \/ \E j \in DOMAIN queue : task'[w] = queue[j]
  <1>0. /\ queue \in Seq(Task) /\ Len(queue) \in Nat /\ DOMAIN queue = 1 .. Len(queue)
        /\ rows \in [Publisher -> SUBSET Task] /\ sending \in [Publisher -> Task \union {NoTask}]
        /\ pc \in [Worker -> Label] /\ task \in [Worker -> Task \union {NoTask}]
    BY LenProperties DEF TypeOK
  <1>1. CASE UNCHANGED <<queue, rows, sending, pc, task>>
    BY <1>1
  <1>2. CASE Backend \/ Chain \/ UNCHANGED vars
    BY <1>1, <1>2
    DEF Backend, ReserveTicket, LoadReservationToCancel, CancelMyReservation, RegisterWallet,
        BecomesDue, Chain, Mine, TransferTicket, OperatorSchedules, vars, publisherVars,
        workerVars
  <1>3. ASSUME NEW p \in Publisher, FetchConfirmed(p) \/ ConsiderRow(p)
        PROVE  /\ UNCHANGED <<queue, pc, task>>
               /\ \A q \in Publisher : \A row \in rows'[q] :
                     row \in rows[q] \/ \E r \in Confirmed : row = TaskOf(r)
               /\ \A q \in Publisher : sending'[q] # NoTask =>
                     sending'[q] = sending[q] \/ sending'[q] \in rows[q]
    <2>1. CASE FetchConfirmed(p)
      BY <1>0, <2>1 DEF FetchConfirmed, workerVars
    <2>2. CASE ConsiderRow(p)
      BY <1>0, <2>2 DEF ConsiderRow, workerVars
    <2> QED  BY <1>3, <2>1, <2>2
  <1>4. ASSUME NEW p \in Publisher, Enqueue(p)
        PROVE  /\ UNCHANGED <<rows, pc, task>>
               /\ \A q \in Publisher : sending'[q] # NoTask => sending'[q] = sending[q]
               /\ \A i \in DOMAIN queue' :
                     \/ i \in DOMAIN queue /\ queue'[i] = queue[i]
                     \/ sending[p] # NoTask /\ queue'[i] = sending[p]
    <2>1. sending[p] \in Task /\ queue' = Append(queue, sending[p])
      BY <1>0, <1>4 DEF Enqueue
    <2>2. /\ DOMAIN queue' = 1 .. Len(queue) + 1
          /\ \A i \in 1 .. Len(queue) : queue'[i] = queue[i]
          /\ queue'[Len(queue) + 1] = sending[p]
      BY <1>0, <2>1, AppendProperties, LenProperties
    <2> QED  BY <1>0, <1>4, <2>2 DEF Enqueue, workerVars
  <1>5. ASSUME NEW w \in Worker, TakeTask(w)
        PROVE  /\ UNCHANGED <<rows, sending>>
               /\ \A i \in DOMAIN queue' : \E j \in DOMAIN queue : queue'[i] = queue[j]
               /\ 1 \in DOMAIN queue /\ task'[w] = queue[1]
               /\ \A v \in Worker \ {w} : pc'[v] = pc[v] /\ task'[v] = task[v]
    <2>1. queue # <<>> /\ queue' = Tail(queue) /\ task' = [task EXCEPT ![w] = Head(queue)]
      BY <1>5 DEF TakeTask
    <2>2. /\ Head(queue) = queue[1] /\ 1 \in DOMAIN queue
          /\ DOMAIN queue' = 1 .. Len(queue) - 1
          /\ \A i \in 1 .. Len(queue) - 1 : queue'[i] = queue[i + 1]
      BY <1>0, <2>1, HeadTailProperties, LenProperties, EmptySeq
    <2>3. \A i \in DOMAIN queue' : i + 1 \in DOMAIN queue /\ queue'[i] = queue[i + 1]
      BY <1>0, <2>2
    <2> QED  BY <1>0, <1>5, <2>1, <2>2, <2>3 DEF TakeTask, Goto, publisherVars
  <1>6. ASSUME NEW w \in Worker, Work(w), ~TakeTask(w)
        PROVE  /\ UNCHANGED <<queue, rows, sending>>
               /\ \A v \in Worker \ {w} : pc'[v] = pc[v] /\ task'[v] = task[v]
               /\ pc'[w] = "idle" \/ (pc[w] # "idle" /\ task'[w] = task[w])
    BY <1>0, <1>6
    DEF Work, ReadCache, AskContract, BeginScheduling, TrySchedule, SendScheduleTx,
        ReadScheduleReceipt, IsTicketMinted, ValidateOwnership, SendMintTx, ReadMintReceipt,
        MarkAsMinted, Goto, DropTask, publisherVars
  <1>7. ASSUME NEW w \in Worker, CallFails(w) \/ QueryFailsWhileTrying(w)
        PROVE  /\ UNCHANGED <<queue, rows, sending>>
               /\ \A v \in Worker \ {w} : pc'[v] = pc[v] /\ task'[v] = task[v]
               /\ pc'[w] = "idle" \/ (pc[w] # "idle" /\ task'[w] = task[w])
    BY <1>0, <1>7
    DEF CallFails, QueryFailsWhileTrying, SendScheduleTx, Goto, DropTask, publisherVars
  <1>8. ASSUME Restart
        PROVE  /\ DOMAIN queue' = {}
               /\ \A p \in Publisher : rows'[p] = {} /\ sending'[p] = NoTask
               /\ \A w \in Worker : pc'[w] = "idle"
    BY <1>8 DEF Restart, NewMintHelper, NewTaskQueue
  <1>9. CASE \E p \in Publisher : Publish(p)
    BY <1>3, <1>4, <1>9 DEF Publish
  <1>10. CASE \E w \in Worker : Work(w)
    BY <1>5, <1>6, <1>10
  <1>11. CASE Faults
    BY <1>7, <1>8, <1>11 DEF Faults
  <1> QED  BY <1>2, <1>9, <1>10, <1>11 DEF Next

LEMMA NextReserved == TypeOK /\ ReservedInv /\ [Next]_vars => ReservedInv'
  <1> SUFFICES ASSUME TypeOK, ReservedInv, [Next]_vars PROVE ReservedInv'
    OBVIOUS
  <1>1. WalletIsHeld'
    BY WalletIsHeldKept DEF ReservedInv
  <1>2. TasksAreBacked'
    <2>0. /\ \A p \in Publisher : rows[p] \subseteq Task
          /\ \A p \in Publisher : sending[p] # NoTask => sending[p] \in Task
          /\ \A i \in DOMAIN queue : queue[i] \in Task
          /\ \A w \in Worker : pc[w] # "idle" => task[w] \in Task
      BY LenProperties, ElementOfSeq, TargetType DEF TypeOK
    <2>1. ASSUME NEW tk, tk \in Task, Backed(tk) PROVE Backed(tk)'
      BY <2>1, BackedStays
    <2>2. ASSUME NEW r \in Confirmed PROVE TaskOf(r) \in Task /\ Backed(TaskOf(r))
      BY PublishedIsBacked, TaskOfType DEF ReservedInv, Confirmed
    <2>3. \A p \in Publisher : \A row \in rows'[p] : row \in Task /\ Backed(row)
      BY <2>0, <2>2, TasksComeFrom DEF ReservedInv, TasksAreBacked
    <2>4. \A p \in Publisher : sending'[p] # NoTask => sending'[p] \in Task /\ Backed(sending'[p])
      BY <2>0, TasksComeFrom DEF ReservedInv, TasksAreBacked
    <2>5. \A i \in DOMAIN queue' : queue'[i] \in Task /\ Backed(queue'[i])
      BY <2>0, TasksComeFrom DEF ReservedInv, TasksAreBacked
    <2>6. \A w \in Worker : pc'[w] # "idle" => task'[w] \in Task /\ Backed(task'[w])
      BY <2>0, TasksComeFrom DEF ReservedInv, TasksAreBacked
    <2>7. \A p \in Publisher : \A row \in rows'[p] : Backed(row)'
      BY <2>1, <2>3
    <2>8. \A p \in Publisher : sending'[p] # NoTask => Backed(sending[p])'
      <3> SUFFICES ASSUME NEW p \in Publisher, sending'[p] # NoTask PROVE Backed(sending[p])'
        OBVIOUS
      <3>1. PICK tk \in Task : tk = sending'[p] /\ Backed(tk)
        BY <2>4
      <3> QED  BY <2>1, <3>1 DEF Backed
    <2>9. \A i \in DOMAIN queue' : Backed(queue[i])'
      <3> SUFFICES ASSUME NEW i \in DOMAIN queue' PROVE Backed(queue[i])'
        OBVIOUS
      <3>1. PICK tk \in Task : tk = queue'[i] /\ Backed(tk)
        BY <2>5
      <3> QED  BY <2>1, <3>1 DEF Backed
    <2>10. \A w \in Worker : pc'[w] # "idle" => Backed(task[w])'
      <3> SUFFICES ASSUME NEW w \in Worker, pc'[w] # "idle" PROVE Backed(task[w])'
        OBVIOUS
      <3>1. PICK tk \in Task : tk = task'[w] /\ Backed(tk)
        BY <2>6
      <3> QED  BY <2>1, <3>1 DEF Backed
    <2> QED  BY <2>7, <2>8, <2>9, <2>10 DEF TasksAreBacked
  <1>3. MintsAreClaimed'
    <2> SUFFICES ASSUME NEW i \in DOMAIN mempool', mempool'[i].kind = "mint"
                 PROVE  Claim(mempool[i].ticket, mempool[i].to)'
      BY DEF MintsAreClaimed
    <2>1. PICK t, a : t = mempool'[i].ticket /\ a = mempool'[i].to
      OBVIOUS
    <2>2. IsMint(mempool'[i], t, a)
      BY <2>1 DEF IsMint
    <2>3. Claim(t, a)
      <3>1. CASE \E j \in DOMAIN mempool : IsMint(mempool[j], t, a)
        BY <3>1 DEF ReservedInv, MintsAreClaimed, IsMint
      <3>2. ASSUME NEW w \in Worker, SendMintTx(w), t = Target(w), a = task[w].recipient
            PROVE  Claim(t, a)
        <4>1. Backed(task[w]) /\ task[w].reservation \in Reservation
          BY <3>2, TargetType DEF SendMintTx, ReservedInv, TasksAreBacked
        <4> QED  BY <3>2, <4>1 DEF Claim, Backed, Target
      <3> QED  BY <2>2, <3>1, <3>2, MempoolMints
    <2>4. Claim(t, a)'
      BY <2>3, ClaimStays
    <2> QED  BY <2>1, <2>4 DEF Claim
  <1>4. EveryTicketWasReserved'
    <2> SUFFICES ASSUME NEW t \in Ticket, issuedTo'[t] # NoOne
                 PROVE  Claim(t, issuedTo[t])'
      BY DEF EveryTicketWasReserved
    <2>1. PICK a : a = issuedTo'[t]
      OBVIOUS
    <2>2. Claim(t, a)
      <3>1. CASE issuedTo'[t] = issuedTo[t]
        BY <2>1, <3>1 DEF ReservedInv, EveryTicketWasReserved
      <3>2. CASE issuedTo'[t] # issuedTo[t]
        BY <2>1, <3>2, IssuedByMine DEF ReservedInv, MintsAreClaimed, IsMint
      <3> QED  BY <3>1, <3>2
    <2>3. Claim(t, a)'
      BY <2>2, ClaimStays
    <2> QED  BY <2>1, <2>3 DEF Claim
  <1> QED  BY <1>1, <1>2, <1>3, <1>4 DEF ReservedInv

THEOREM ReservedInvariant == Spec => []ReservedInv
  BY InitReserved, NextReserved, TypeCorrect, PTL DEF Spec

\* Every ticket on the chain was minted to a wallet of somebody who reserved that seat,
\* for a performance about to start.
THEOREM TicketsWereReserved == Spec => []EveryTicketWasReserved
  <1>1. ReservedInv => EveryTicketWasReserved
    BY DEF ReservedInv
  <1> QED  BY <1>1, ReservedInvariant, PTL

-----------------------------------------------------------------------------
(* MintedInv is inductive.                                                  *)

LEMMA InitMinted == Init => MintedInv
  BY MinterAssumption
  DEF Init, NewMintHelper, NewTaskQueue, MintedInv, OwnedIsIssued, MintsAreScheduled,
      SoleTaskIsMinted, Minted,
      SoleClaimIsMinted

\* What is not a sole claim never becomes one.
LEMMA SoleClaimWas ==
    ASSUME TypeOK, [Next]_vars, NEW r \in Reservation, SoleClaim(r)'
    PROVE  SoleClaim(r)
  <1>1. Reserver[r] \in User
    BY MinterAssumption
  <1> QED  BY <1>1, HistoryGrows DEF SoleClaim, OnlyReservation

\* Whoever has a claim on the ticket of a sole claim is its reserver.
LEMMA SoleClaimant ==
    ASSUME NEW r \in Reservation, SoleClaim(r), NEW a, Claim(ReservedTicket[r], a)
    PROVE  a \in held[Reserver[r]] \ {NoOne}
  BY DEF SoleClaim, OnlyReservation, Claim

\* A ticket that was issued stays issued.
LEMMA IssuedStays ==
    ASSUME TypeOK, OwnedIsIssued, [Next]_vars, NEW t \in Ticket, issuedTo[t] # NoOne
    PROVE  issuedTo'[t] = issuedTo[t]
  BY IssuedByMine DEF OwnedIsIssued

\* The ticket of a sole claim, once minted to the reserver or on its way, remains so.
LEMMA OwnedStays ==
    ASSUME TypeOK, ReservedInv, MintedInv, [Next]_vars,
           NEW r \in Reservation, SoleClaim(r), OwnedByReserver(r)
    PROVE  OwnedByReserver(r)'
  <1> DEFINE wallets == held[Reserver[r]] \ {NoOne}
  <1>1. PICK t \in Ticket : t = ReservedTicket[r]
    BY MinterAssumption
  <1>2. wallets \subseteq held'[Reserver[r]] \ {NoOne}
    BY HistoryGrows, MinterAssumption
  <1>3. CASE issuedTo[t] \in wallets
    <2>1. issuedTo'[t] = issuedTo[t]
      BY <1>3, IssuedStays DEF MintedInv
    <2> QED  BY <1>1, <1>2, <1>3, <2>1 DEF OwnedByReserver
  <1>4. CASE issuedTo[t] = NoOne /\ \E i \in PendingMints(t) : mempool[i].to \in wallets
    <2>1. PICK i \in DOMAIN mempool : /\ IsMint(mempool[i], t, mempool[i].to)
                                      /\ mempool[i].to \in wallets
      BY <1>4 DEF PendingMints, IsMint
    <2>2. CASE issuedTo'[t] # NoOne
      <3>1. Claim(t, issuedTo'[t])
        BY <1>4, <2>2, IssuedByMine DEF ReservedInv, MintsAreClaimed, IsMint
      <3>2. issuedTo'[t] \in wallets
        BY <1>1, <3>1, SoleClaimant
      <3> QED  BY <1>1, <1>2, <3>2 DEF OwnedByReserver
    <2>3. CASE issuedTo'[t] = NoOne
      <3>1. CASE Mine /\ i = 1
        <4>1. mempool[1] = Head(mempool) /\ mempool[1] \in Tx
          BY <3>1, MempoolHead DEF Mine
        <4>2. /\ Head(mempool).kind = "mint" /\ Head(mempool).ticket = t
              /\ Head(mempool).to \in Address /\ t[1] \in scheduled
          BY <2>1, <3>1, <4>1, TxCases DEF IsMint, MintedInv, MintsAreScheduled
        <4>3. owner[t] = NoOne
          BY <1>4 DEF MintedInv, OwnedIsIssued
        <4>4. Succeeds(Head(mempool))
          BY <4>2, <4>3 DEF Succeeds, Ledger!CanMint, Ledger!Issued
        <4>5. issuedTo' = [issuedTo EXCEPT ![t] = Head(mempool).to]
          BY <3>1, <4>2, <4>4 DEF Mine, Execute
        <4> QED  BY <2>3, <4>2, <4>5, MinterAssumption DEF TypeOK
      <3>2. CASE ~(Mine /\ i = 1)
        <4>1. PICK a : a = mempool[i].to /\ a \in wallets
          BY <2>1
        <4>2. \E j \in DOMAIN mempool' : IsMint(mempool'[j], t, a)
          BY <2>1, <3>2, <4>1, MempoolMints
        <4>3. PICK j \in DOMAIN mempool' : IsMint(mempool'[j], t, a)
          BY <4>2
        <4>4. j \in PendingMints(t)' /\ mempool'[j].to = a
          BY <4>1, <4>3 DEF PendingMints, IsMint
        <4> QED  BY <1>1, <1>2, <2>3, <4>1, <4>4 DEF OwnedByReserver
      <3> QED  BY <3>1, <3>2
    <2> QED  BY <2>2, <2>3
  <1> QED  BY <1>1, <1>3, <1>4 DEF OwnedByReserver

\* There are two ways to be done with minting: the ticket was found to be the recipient's,
\* or the transaction that mints it was mined.
LEMMA BecomesMinted ==
    ASSUME SchedulingInv, [Next]_vars, NEW w \in Worker, Minted(w)'
    PROVE  /\ pc[w] # "idle" /\ task'[w] = task[w]
           /\ \/ Minted(w)
              \/ ValidateOwnership(w) /\ pc'[w] = "mark"
              \/ /\ Mine
                 /\ pc[w] = "awaitMint"
                 /\ 1 \in DOMAIN mempool
                 /\ mempool[1] = MintTx(Target(w), task[w].recipient, w)
  <1>0. /\ pc \in [Worker -> Label] /\ task \in [Worker -> Task \union {NoTask}]
        /\ receipt \in [Worker -> Receipt] /\ TypeOK
    BY DEF SchedulingInv, TypeOK
  <1>1. CASE pc'[w] = pc[w] /\ task'[w] = task[w] /\ receipt'[w] = receipt[w]
    BY <1>1 DEF Minted
  <1>2. CASE Mine
    <2>1. /\ pc' = pc /\ task' = task /\ mempool # <<>>
          /\ mempool[1] = Head(mempool) /\ 1 \in DOMAIN mempool
      BY <1>0, <1>2, MempoolHead, LenProperties, EmptySeq DEF Mine, TypeOK
    <2>2. CASE Head(mempool).by = w
      <3>1. Awaits(w, 1)
        BY <2>1, <2>2 DEF SchedulingInv, SendersWait
      <3> QED  BY <1>2, <2>1, <3>1 DEF Awaits, Minted
    <2>3. CASE Head(mempool).by # w
      BY <1>0, <1>1, <2>1, <1>2, <2>3, MineLedger
    <2> QED  BY <2>2, <2>3
  <1>3. CASE Backend \/ UNCHANGED vars
    BY <1>1, <1>3
    DEF Backend, ReserveTicket, LoadReservationToCancel, CancelMyReservation, RegisterWallet,
        BecomesDue, vars, workerVars
  <1>4. CASE Chain
    BY <1>1, <1>2, <1>4 DEF Chain, TransferTicket, OperatorSchedules, workerVars
  <1>5. ASSUME NEW p \in Publisher, Publish(p) PROVE UNCHANGED <<pc, task, receipt>>
    BY <1>5 DEF Publish, FetchConfirmed, ConsiderRow, Enqueue, workerVars
  <1>6. ASSUME NEW v \in Worker, Work(v), v # w
        PROVE  pc'[w] = pc[w] /\ task'[w] = task[w] /\ receipt'[w] = receipt[w]
    BY <1>0, <1>6
    DEF Work, TakeTask, ReadCache, AskContract, BeginScheduling, TrySchedule, SendScheduleTx,
        ReadScheduleReceipt, IsTicketMinted, ValidateOwnership, SendMintTx, ReadMintReceipt,
        MarkAsMinted, Goto, DropTask
  <1>7. CASE Work(w)
    <2>1. ~(pc[w] \notin {"awaitSchedule", "awaitMint"} /\ receipt[w] # "none")
      BY DEF SchedulingInv, ReceiptIsAwaited
    <2>2. CASE ValidateOwnership(w)
      BY <1>0, <2>1, <2>2 DEF ValidateOwnership, Goto, DropTask, Minted
    <2>3. CASE ReadMintReceipt(w)
      BY <1>0, <2>3 DEF ReadMintReceipt, Goto, Minted
    <2>4. CASE SendMintTx(w)
      BY <1>0, <2>1, <2>4 DEF SendMintTx, Goto, Minted
    <2>5. ASSUME TakeTask(w) \/ ReadCache(w) \/ AskContract(w) \/ BeginScheduling(w)
                 \/ TrySchedule(w) \/ ReadScheduleReceipt(w) \/ IsTicketMinted(w)
                 \/ MarkAsMinted(w)
          PROVE  pc'[w] \notin {"mark", "awaitMint"}
      BY <1>0, <2>5
      DEF TakeTask, ReadCache, AskContract, BeginScheduling, TrySchedule, SendScheduleTx,
          ReadScheduleReceipt, IsTicketMinted, MarkAsMinted, Goto, DropTask
    <2> QED  BY <1>7, <2>2, <2>3, <2>4, <2>5 DEF Work, Minted
  <1>8. CASE Faults
    <2>1. ASSUME NEW v \in Worker, CallFails(v) \/ QueryFailsWhileTrying(v)
          PROVE  \/ pc'[w] = pc[w] /\ task'[w] = task[w] /\ receipt'[w] = receipt[w]
                 \/ pc'[w] \notin {"mark", "awaitMint"}
      BY <1>0, <2>1 DEF CallFails, QueryFailsWhileTrying, SendScheduleTx, Goto, DropTask
    <2>2. Restart => pc'[w] \notin {"mark", "awaitMint"}
      BY DEF Restart, NewMintHelper, NewTaskQueue
    <2> QED  BY <1>1, <1>8, <2>1, <2>2 DEF Faults, Minted
  <1> QED  BY <1>1, <1>3, <1>4, <1>5, <1>6, <1>7, <1>8 DEF Next

\* Whoever found the ticket to be the recipient's was right.
LEMMA ValidatedIsOwned ==
    ASSUME TypeOK, ReservedInv, MintedInv, NEW w \in Worker,
           ValidateOwnership(w), pc'[w] = "mark",
           SoleClaim(task[w].reservation)
    PROVE  OwnedByReserver(task[w].reservation)
  <1>1. PICK r \in Reservation, t \in Ticket :
            r = task[w].reservation /\ t = ReservedTicket[r] /\ t = Target(w)
    BY TargetType DEF ValidateOwnership, Target
  <1>2. PICK a \in PendingOwners(t) : a # NoOne
    BY <1>1 DEF ValidateOwnership, DropTask, Goto, TypeOK
  <1>3. CASE issuedTo[t] # NoOne
    BY <1>1, <1>3, SoleClaimant
    DEF ReservedInv, EveryTicketWasReserved, OwnedByReserver
  <1>4. CASE issuedTo[t] = NoOne
    <2>1. owner[t] = NoOne
      BY <1>4 DEF MintedInv, OwnedIsIssued
    <2>2. PendingMints(t) # {}
      BY <1>2, <2>1 DEF PendingOwners
    <2>3. PICK i \in PendingMints(t) : Claim(t, mempool[i].to)
      BY <2>2 DEF PendingMints, ReservedInv, MintsAreClaimed
    <2>4. mempool[i].to \in held[Reserver[r]] \ {NoOne}
      BY <1>1, <2>3, SoleClaimant
    <2> QED  BY <1>1, <1>4, <2>4 DEF OwnedByReserver
  <1> QED  BY <1>3, <1>4

\* Whoever has the receipt of a mint for a sole claim has the ticket, even if the
\* transaction failed: then an earlier one had minted it.
LEMMA MinedIsOwned ==
    ASSUME SchedulingInv, ReservedInv, MintedInv, [Next]_vars, NEW w \in Worker,
           Mine, pc[w] = "awaitMint", 1 \in DOMAIN mempool,
           mempool[1] = MintTx(Target(w), task[w].recipient, w),
           SoleClaim(task[w].reservation)
    PROVE  OwnedByReserver(task[w].reservation) \/ issuedTo'[Target(w)] = task[w].recipient
  <1>0. TypeOK
    BY DEF SchedulingInv
  <1>1. PICK r \in Reservation, t \in Ticket :
            r = task[w].reservation /\ t = ReservedTicket[r] /\ t = Target(w)
    BY <1>0, TargetType DEF Target
  <1>2. task[w].recipient \in Address
    <2>1. task[w].recipient \in held[Reserver[r]]
      BY <1>1 DEF ReservedInv, TasksAreBacked, Backed
    <2> QED  BY <1>0, <1>1, <2>1, TargetType DEF SoleClaim, OnlyReservation
  <1>3. t[1] \in scheduled
    BY <1>1 DEF SchedulingInv, PastSchedulingIsScheduled, PastScheduling, TargetSchedule
  <1>4. CASE issuedTo[t] # NoOne
    BY <1>1, <1>4, SoleClaimant
    DEF ReservedInv, EveryTicketWasReserved, OwnedByReserver
  <1>5. CASE issuedTo[t] = NoOne
    <2>1. Head(mempool) = MintTx(t, task[w].recipient, w)
      BY <1>0, <1>1, MempoolHead DEF Mine
    <2>2. owner[t] = NoOne
      BY <1>5 DEF MintedInv, OwnedIsIssued
    <2>3. Succeeds(Head(mempool)) /\ Head(mempool).kind # "schedule"
      BY <1>2, <1>3, <2>1, <2>2 DEF Succeeds, MintTx, Ledger!CanMint, Ledger!Issued
    <2>4. issuedTo' = [issuedTo EXCEPT ![t] = task[w].recipient]
      BY <2>1, <2>3 DEF Mine, Execute, MintTx
    <2> QED  BY <1>0, <1>1, <2>4 DEF TypeOK
  <1> QED  BY <1>4, <1>5

LEMMA OwnedIsIssuedKept ==
    ASSUME TypeOK, OwnedIsIssued, [Next]_vars
    PROVE  OwnedIsIssued'
  <1>1. CASE UNCHANGED <<owner, issuedTo>>
    BY <1>1 DEF OwnedIsIssued
  <1>2. CASE Mine
    <2> DEFINE tx == Head(mempool)
    <2>1. tx \in Tx
      BY <1>2, MempoolHead DEF Mine
    <2>2. CASE Succeeds(tx) /\ tx.kind = "mint"
      <3>1. tx.to # NoOne /\ tx.ticket \in Ticket
        BY <2>1, <2>2, TxCases, MinterAssumption DEF Succeeds, Ledger!CanMint
      <3>2. /\ owner' = [owner EXCEPT ![tx.ticket] = tx.to]
            /\ issuedTo' = [issuedTo EXCEPT ![tx.ticket] = tx.to]
        BY <1>2, <2>2 DEF Mine, Execute
      <3> QED  BY <3>1, <3>2 DEF OwnedIsIssued, TypeOK
    <2>3. CASE ~(Succeeds(tx) /\ tx.kind = "mint")
      <3>1. UNCHANGED <<owner, issuedTo>>
        BY <1>2, <2>1, <2>3, TxCases DEF Mine, Execute, ledger
      <3> QED  BY <1>1, <3>1
    <2> QED  BY <2>2, <2>3
  <1>3. ASSUME NEW t \in Ticket, NEW a \in Address, TransferTicket(t, a)
        PROVE  OwnedIsIssued'
    BY <1>3, MinterAssumption DEF TransferTicket, OwnedIsIssued, TypeOK
  <1>4. CASE Backend
    BY <1>1, <1>4
    DEF Backend, ReserveTicket, LoadReservationToCancel, CancelMyReservation,
        RegisterWallet, BecomesDue, ledger
  <1>5. CASE Chain
    BY <1>1, <1>2, <1>3, <1>5 DEF Chain, OperatorSchedules, ledger
  <1>6. ASSUME NEW p \in Publisher, Publish(p) PROVE UNCHANGED <<owner, issuedTo>>
    BY <1>6 DEF Publish, FetchConfirmed, ConsiderRow, Enqueue, ledger
  <1>7. ASSUME NEW w \in Worker, Work(w) PROVE UNCHANGED <<owner, issuedTo>>
    BY <1>7
    DEF Work, TakeTask, ReadCache, AskContract, BeginScheduling, TrySchedule,
        ReadScheduleReceipt, IsTicketMinted, ValidateOwnership, SendMintTx,
        ReadMintReceipt, MarkAsMinted, ledger
  <1>8. CASE Faults
    BY <1>1, <1>8
      DEF Faults, CallFails, QueryFailsWhileTrying, Restart, NewMintHelper,
          NewTaskQueue, ledger
  <1>9. CASE UNCHANGED vars
    BY <1>1, <1>9 DEF vars, ledger
  <1> QED  BY <1>1, <1>4, <1>5, <1>6, <1>7, <1>8, <1>9 DEF Next

\* Only MarkAsMinted says that a reservation is MINTED.
LEMMA MarkedByWorker ==
    ASSUME TypeOK, [Next]_vars, NEW r \in Reservation, status'[r] = "MINTED", status[r] # "MINTED"
    PROVE  \E w \in Worker : MarkAsMinted(w) /\ task[w].reservation = r
  <1>1. ASSUME NEW w \in Worker, MarkAsMinted(w) PROVE task[w].reservation = r
    BY <1>1 DEF MarkAsMinted, TypeOK
  <1>2. CASE Backend
    BY <1>2
    DEF Backend, ReserveTicket, LoadReservationToCancel, CancelMyReservation,
        RegisterWallet, BecomesDue, TypeOK
  <1>3. CASE Chain
    BY <1>3 DEF Chain, Mine, TransferTicket, OperatorSchedules, dbVars
  <1>4. ASSUME NEW p \in Publisher, Publish(p) PROVE status' = status
    BY <1>4 DEF Publish, FetchConfirmed, ConsiderRow, Enqueue, dbVars
  <1>5. ASSUME NEW w \in Worker, Work(w), ~MarkAsMinted(w) PROVE status' = status
    BY <1>5
    DEF Work, TakeTask, ReadCache, AskContract, BeginScheduling, TrySchedule,
        ReadScheduleReceipt, IsTicketMinted, ValidateOwnership, SendMintTx,
        ReadMintReceipt, dbVars
  <1>6. CASE Faults
    BY <1>6
      DEF Faults, CallFails, QueryFailsWhileTrying, Restart, NewMintHelper,
          NewTaskQueue, dbVars
  <1>7. CASE UNCHANGED vars
    BY <1>7 DEF vars, dbVars
  <1> QED  BY <1>1, <1>2, <1>3, <1>4, <1>5, <1>6, <1>7 DEF Next

LEMMA NextMinted ==
    ASSUME SchedulingInv, ReservedInv, MintedInv, [Next]_vars
    PROVE  MintedInv'
  <1>0. TypeOK
    BY DEF SchedulingInv
  <1>1. OwnedIsIssued'
    BY <1>0, OwnedIsIssuedKept DEF MintedInv
  <1>2. MintsAreScheduled'
    <2> SUFFICES ASSUME NEW i \in DOMAIN mempool', mempool'[i].kind = "mint"
                 PROVE  mempool'[i].ticket[1] \in scheduled'
      BY DEF MintsAreScheduled
    <2>1. PICK t, a : IsMint(mempool'[i], t, a)
      BY DEF IsMint
    <2>2. CASE \E j \in DOMAIN mempool : IsMint(mempool[j], t, a)
      BY <1>0, <2>1, <2>2, HistoryGrows DEF MintedInv, MintsAreScheduled, IsMint
    <2>3. ASSUME NEW w \in Worker, SendMintTx(w), t = Target(w)
          PROVE  t[1] \in scheduled
      BY <2>3
      DEF SendMintTx, SchedulingInv, PastSchedulingIsScheduled, PastScheduling, TargetSchedule
    <2> QED  BY <1>0, <2>1, <2>2, <2>3, MempoolMints, HistoryGrows DEF IsMint
  <1>3. SoleTaskIsMinted'
    <2> SUFFICES ASSUME NEW w \in Worker, Minted(w)', SoleClaim(task[w].reservation)'
                 PROVE  OwnedByReserver(task[w].reservation)'
      BY DEF SoleTaskIsMinted
    <2>1. pc[w] # "idle" /\ task'[w] = task[w]
      BY BecomesMinted
    <2>2. PICK r \in Reservation : r = task[w].reservation
      BY <1>0, <2>1, TargetType
    <2>3. SoleClaim(r)' /\ SoleClaim(r)
      <3>1. SoleClaim(r)'
        BY <2>1, <2>2 DEF SoleClaim, OnlyReservation
      <3> QED  BY <1>0, <3>1, SoleClaimWas
    <2>4. CASE OwnedByReserver(r)
      <3>1. OwnedByReserver(r)'
        BY <1>0, <2>3, <2>4, OwnedStays
      <3> QED  BY <2>1, <2>2, <3>1 DEF OwnedByReserver
    <2>5. CASE issuedTo'[Target(w)] = task[w].recipient
      <3>1. Target(w) = ReservedTicket[r]
        BY <2>2 DEF Target
      <3>2. task[w].recipient \in held[Reserver[r]] /\ Reserver[r] \in User
        BY <2>1, <2>2, MinterAssumption DEF ReservedInv, TasksAreBacked, Backed
      <3>3. task[w].recipient \in held'[Reserver[r]] \ {NoOne}
        BY <1>0, <2>3, <3>2, HistoryGrows DEF SoleClaim
      <3>4. OwnedByReserver(r)'
        BY <2>5, <3>1, <3>3 DEF OwnedByReserver
      <3> QED  BY <2>1, <2>2, <3>4 DEF OwnedByReserver
    <2>6. CASE Minted(w)
      <3>1. OwnedByReserver(r)
        BY <2>2, <2>3, <2>6 DEF MintedInv, SoleTaskIsMinted
      <3> QED  BY <2>4, <3>1
    <2> QED
      BY <1>0, <2>2, <2>3, <2>4, <2>5, <2>6, BecomesMinted, ValidatedIsOwned, MinedIsOwned
  <1>4. SoleClaimIsMinted'
    <2> SUFFICES ASSUME NEW r \in Reservation, status'[r] = "MINTED", SoleClaim(r)'
                 PROVE  OwnedByReserver(r)'
      BY DEF SoleClaimIsMinted
    <2>1. SoleClaim(r)
      BY <1>0, SoleClaimWas
    <2>2. CASE status[r] = "MINTED"
      BY <1>0, <2>1, <2>2, OwnedStays DEF MintedInv, SoleClaimIsMinted
    <2>3. CASE status[r] # "MINTED"
      <3>1. PICK w \in Worker : MarkAsMinted(w) /\ task[w].reservation = r
        BY <1>0, <2>3, MarkedByWorker
      <3>2. OwnedByReserver(r)
        BY <2>1, <3>1 DEF MintedInv, SoleTaskIsMinted, Minted, MarkAsMinted
      <3> QED  BY <1>0, <2>1, <3>2, OwnedStays
    <2> QED  BY <2>2, <2>3
  <1> QED  BY <1>1, <1>2, <1>3, <1>4 DEF MintedInv

THEOREM MintedInvariant == Spec => []MintedInv
  <1>1. SchedulingInv /\ ReservedInv /\ MintedInv /\ [Next]_vars => MintedInv'
    BY NextMinted
  <1> QED  BY <1>1, InitMinted, SchedulingInvariant, ReservedInvariant, PTL DEF Spec

\* Where nobody competes for the seat and the user has a wallet, MINTED tells the truth.
THEOREM SoleClaimMinted == Spec => []SoleClaimIsMinted
  <1>1. MintedInv => SoleClaimIsMinted
    BY DEF MintedInv
  <1> QED  BY <1>1, MintedInvariant, PTL

-----------------------------------------------------------------------------
(* The seat of a reservation that is MINTED is taken, by whomever.           *)

HadWallet(r) == NoOne \notin held[Reserver[r]]

TaskIsTaken ==
    \A w \in Worker : Minted(w) /\ HadWallet(task[w].reservation) => SeatIsTaken(Target(w))

TakenInv == TaskIsTaken /\ MintedIsTaken

LEMMA InitTaken == Init => TakenInv
  BY MinterAssumption
  DEF Init, NewMintHelper, NewTaskQueue, TakenInv, TaskIsTaken, MintedIsTaken, Minted

LEMMA HadWalletWas ==
    ASSUME TypeOK, [Next]_vars, NEW r \in Reservation, HadWallet(r)'
    PROVE  HadWallet(r)
  <1>1. Reserver[r] \in User
    BY MinterAssumption
  <1> QED  BY <1>1, HistoryGrows DEF HadWallet

\* The first transaction of the mempool, if it mints a ticket to somebody, leaves the
\* ticket issued: only a ticket that was issued before makes it fail.
LEMMA MineTakes ==
    ASSUME TypeOK, MintedInv, [Next]_vars, Mine, NEW t \in Ticket,
           1 \in DOMAIN mempool, mempool[1].kind = "mint", mempool[1].ticket = t,
           mempool[1].to # NoOne
    PROVE  issuedTo'[t] # NoOne
  <1>1. mempool[1] = Head(mempool) /\ mempool[1] \in Tx
    BY MempoolHead DEF Mine
  <1>2. /\ Head(mempool).kind = "mint" /\ Head(mempool).ticket = t
        /\ Head(mempool).to \in Address /\ t[1] \in scheduled
    BY <1>1, TxCases DEF MintedInv, MintsAreScheduled
  <1>3. CASE issuedTo[t] # NoOne
    BY <1>3, IssuedStays DEF MintedInv
  <1>4. CASE issuedTo[t] = NoOne
    <2>1. owner[t] = NoOne
      BY <1>4 DEF MintedInv, OwnedIsIssued
    <2>2. Succeeds(Head(mempool))
      BY <1>2, <2>1 DEF Succeeds, Ledger!CanMint, Ledger!Issued
    <2>3. issuedTo' = [issuedTo EXCEPT ![t] = Head(mempool).to]
      BY <1>2, <2>2 DEF Mine, Execute
    <2> QED  BY <1>2, <2>3, MinterAssumption DEF TypeOK
  <1> QED  BY <1>3, <1>4

\* A seat that is taken stays taken: a mint that leaves the mempool issues its ticket.
LEMMA TakenStays ==
    ASSUME TypeOK, MintedInv, [Next]_vars, NEW t \in Ticket, SeatIsTaken(t)
    PROVE  SeatIsTaken(t)'
  <1>1. CASE issuedTo[t] # NoOne
    BY <1>1, IssuedStays DEF MintedInv, SeatIsTaken
  <1>2. CASE PendingMints(t) # {}
    <2>0. PICK i \in PendingMints(t) : TRUE
      BY <1>2
    <2>1. PICK a : i \in DOMAIN mempool /\ IsMint(mempool[i], t, a) /\ a # NoOne
      BY <2>0 DEF PendingMints, IsMint
    <2>2. CASE Mine /\ i = 1
      BY <2>1, <2>2, MineTakes DEF IsMint, SeatIsTaken
    <2>3. CASE ~(Mine /\ i = 1)
      <3>1. PICK j \in DOMAIN mempool' : IsMint(mempool'[j], t, a)
        BY <2>1, <2>3, MempoolMints
      <3>2. j \in PendingMints(t)'
        BY <2>1, <3>1 DEF PendingMints, IsMint
      <3> QED  BY <3>2 DEF SeatIsTaken
    <2> QED  BY <2>2, <2>3
  <1> QED  BY <1>1, <1>2 DEF SeatIsTaken

\* A ticket that the node says has an owner is taken.
LEMMA ValidatedIsTaken ==
    ASSUME TypeOK, MintedInv, NEW w \in Worker, ValidateOwnership(w), pc'[w] = "mark"
    PROVE  SeatIsTaken(Target(w))
  <1>1. PICK t \in Ticket : t = Target(w)
    BY TargetType DEF ValidateOwnership, Target
  <1>2. PICK a \in PendingOwners(t) : a # NoOne
    BY <1>1 DEF ValidateOwnership, DropTask, Goto, TypeOK
  <1>3. CASE owner[t] # NoOne
    BY <1>1, <1>3 DEF MintedInv, OwnedIsIssued, SeatIsTaken
  <1>4. CASE owner[t] = NoOne
    BY <1>1, <1>2, <1>4 DEF PendingOwners, SeatIsTaken
  <1> QED  BY <1>3, <1>4

LEMMA NextTaken ==
    ASSUME SchedulingInv, ReservedInv, MintedInv, TakenInv, [Next]_vars
    PROVE  TakenInv'
  <1>0. TypeOK
    BY DEF SchedulingInv
  <1>1. TaskIsTaken'
    <2> SUFFICES ASSUME NEW w \in Worker, Minted(w)', HadWallet(task[w].reservation)'
                 PROVE  SeatIsTaken(Target(w))'
      BY DEF TaskIsTaken
    <2>1. pc[w] # "idle" /\ task'[w] = task[w]
      BY BecomesMinted
    <2>2. PICK r \in Reservation, t \in Ticket :
              r = task[w].reservation /\ t = ReservedTicket[r] /\ t = Target(w)
      BY <1>0, <2>1, TargetType DEF Target
    <2>3. HadWallet(r)
      <3>1. HadWallet(r)'
        BY <2>1, <2>2 DEF HadWallet
      <3> QED  BY <1>0, <3>1, HadWalletWas
    <2>4. Target(w)' = t
      BY <2>1, <2>2 DEF Target
    <2>5. CASE SeatIsTaken(t)
      <3>1. SeatIsTaken(t)'
        BY <1>0, <2>5, TakenStays
      <3> QED  BY <2>4, <3>1 DEF SeatIsTaken, PendingMints
    <2>6. CASE Minted(w)
      BY <2>2, <2>3, <2>5, <2>6 DEF TakenInv, TaskIsTaken
    <2>7. CASE ValidateOwnership(w) /\ pc'[w] = "mark"
      BY <1>0, <2>2, <2>5, <2>7, ValidatedIsTaken
    <2>8. CASE /\ Mine
               /\ pc[w] = "awaitMint"
               /\ 1 \in DOMAIN mempool
               /\ mempool[1] = MintTx(Target(w), task[w].recipient, w)
      <3>1. task[w].recipient \in held[Reserver[r]]
        BY <2>1, <2>2 DEF ReservedInv, TasksAreBacked, Backed
      <3>2. mempool[1].kind = "mint" /\ mempool[1].ticket = t /\ mempool[1].to # NoOne
        BY <2>2, <2>3, <2>8, <3>1 DEF MintTx, HadWallet
      <3>3. issuedTo'[t] # NoOne
        BY <1>0, <2>8, <3>2, MineTakes
      <3> QED  BY <2>4, <3>3 DEF SeatIsTaken
    <2> QED  BY <2>6, <2>7, <2>8, BecomesMinted
  <1>2. MintedIsTaken'
    <2> SUFFICES ASSUME NEW r \in Reservation, status'[r] = "MINTED", HadWallet(r)'
                 PROVE  SeatIsTaken(ReservedTicket[r])'
      BY DEF MintedIsTaken, HadWallet
    <2>1. HadWallet(r)
      BY <1>0, HadWalletWas
    <2>2. PICK t \in Ticket : t = ReservedTicket[r]
      BY MinterAssumption
    <2>3. SeatIsTaken(t)
      <3>1. CASE status[r] = "MINTED"
        BY <2>1, <2>2, <3>1 DEF TakenInv, MintedIsTaken, HadWallet
      <3>2. CASE status[r] # "MINTED"
        <4>1. PICK w \in Worker : MarkAsMinted(w) /\ task[w].reservation = r
          BY <1>0, <3>2, MarkedByWorker
        <4> QED
          BY <2>1, <2>2, <4>1 DEF TakenInv, TaskIsTaken, Minted, MarkAsMinted, Target
      <3> QED  BY <3>1, <3>2
    <2>4. SeatIsTaken(t)'
      BY <1>0, <2>3, TakenStays
    <2> QED  BY <2>2, <2>4 DEF SeatIsTaken, PendingMints
  <1> QED  BY <1>1, <1>2 DEF TakenInv

\* MINTED means of a user with a wallet that the seat is taken, for any number of rivals.
THEOREM MintedTaken == Spec => []MintedIsTaken
  <1>1. SchedulingInv /\ ReservedInv /\ MintedInv /\ TakenInv /\ [Next]_vars => TakenInv'
    BY NextTaken
  <1>2. TakenInv => MintedIsTaken
    BY DEF TakenInv
  <1> QED
    BY <1>1, <1>2, InitTaken, SchedulingInvariant, ReservedInvariant, MintedInvariant,
       PTL DEF Spec

-----------------------------------------------------------------------------
(* A cancel in time is final.  As long as a schedule is not due, nothing is *)
(* under way for its reservations, and a reservation that is cancelled then *)
(* is not polled when it becomes due.                                       *)

NoTaskOf(r) ==
    /\ \A p \in Publisher : \A row \in rows[p] : row.reservation # r
    /\ \A p \in Publisher : sending[p] # NoTask => sending[p].reservation # r
    /\ \A i \in DOMAIN queue : queue[i].reservation # r
    /\ \A w \in Worker : pc[w] # "idle" => task[w].reservation # r

NoMintOf(t) ==
    /\ \A i \in DOMAIN mempool : mempool[i].kind = "mint" => mempool[i].ticket # t
    /\ issuedTo[t] = NoOne

Shelved(r) ==
    /\ status[r] = "CANCEL"
    /\ NoTaskOf(r)
    /\ OnlyReservation(r) => NoMintOf(ReservedTicket[r])

\* What is under way is due, hence nothing is for a reservation cancelled in time.
LEMMA InTimeIsShelved ==
    ASSUME TypeOK, ReservedInv, NEW r \in Reservation, CancelledInTime(r)
    PROVE  Shelved(r)
  <1>1. ReservedTicket[r] \in Ticket
    BY MinterAssumption
  <1>2. NoTaskOf(r)
    BY DEF ReservedInv, TasksAreBacked, Backed, NoTaskOf, CancelledInTime
  <1>3. NoMintOf(ReservedTicket[r])
    BY <1>1
    DEF ReservedInv, MintsAreClaimed, EveryTicketWasReserved, Claim, NoMintOf, CancelledInTime
  <1> QED  BY <1>2, <1>3 DEF Shelved, CancelledInTime

\* A cancelled reservation stays so, but for a worker that marks it.
LEMMA CancelledOrMinted ==
    ASSUME TypeOK, [Next]_vars, NEW r \in Reservation, status[r] = "CANCEL"
    PROVE  status'[r] \in {"CANCEL", "MINTED"}
  <1>1. CASE Backend
    BY <1>1
    DEF Backend, ReserveTicket, LoadReservationToCancel, CancelMyReservation,
        RegisterWallet, BecomesDue, TypeOK
  <1>2. CASE Chain
    BY <1>2 DEF Chain, Mine, TransferTicket, OperatorSchedules, dbVars
  <1>3. ASSUME NEW p \in Publisher, Publish(p) PROVE status' = status
    BY <1>3 DEF Publish, FetchConfirmed, ConsiderRow, Enqueue, dbVars
  <1>4. ASSUME NEW w \in Worker, Work(w)
        PROVE  status'[r] \in {"CANCEL", "MINTED"}
    BY <1>4
    DEF Work, TakeTask, ReadCache, AskContract, BeginScheduling, TrySchedule,
        ReadScheduleReceipt, IsTicketMinted, ValidateOwnership, SendMintTx,
        ReadMintReceipt, MarkAsMinted, dbVars, TypeOK
  <1>5. CASE Faults
    BY <1>5
      DEF Faults, CallFails, QueryFailsWhileTrying, Restart, NewMintHelper,
          NewTaskQueue, dbVars
  <1>6. CASE UNCHANGED vars
    BY <1>6 DEF vars, dbVars
  <1> QED  BY <1>1, <1>2, <1>3, <1>4, <1>5, <1>6 DEF Next

\* No step takes a shelved reservation up again.
LEMMA ShelvedStays ==
    ASSUME TypeOK, ReservedInv, [Next]_vars, NEW r \in Reservation, Shelved(r)
    PROVE  Shelved(r)'
  <1>1. status'[r] = "CANCEL"
    <2>1. status'[r] \in {"CANCEL", "MINTED"}
      BY CancelledOrMinted DEF Shelved
    <2>2. ASSUME status'[r] = "MINTED" PROVE FALSE
      <3>1. PICK w \in Worker : MarkAsMinted(w) /\ task[w].reservation = r
        BY <2>2, MarkedByWorker DEF Shelved
      <3> QED  BY <3>1 DEF MarkAsMinted, Shelved, NoTaskOf
    <2> QED  BY <2>1, <2>2
  <1>2. NoTaskOf(r)'
    <2>1. \A q \in Confirmed : TaskOf(q).reservation # r
      BY DEF Confirmed, TaskOf, Shelved
    <2>2. /\ \A p \in Publisher : \A row \in rows'[p] : row.reservation # r
          /\ \A p \in Publisher : sending'[p] # NoTask => sending'[p].reservation # r
      BY <2>1, TasksComeFrom DEF Shelved, NoTaskOf
    <2>3. /\ \A i \in DOMAIN queue' : queue'[i].reservation # r
          /\ \A w \in Worker : pc'[w] # "idle" => task'[w].reservation # r
      BY TasksComeFrom DEF Shelved, NoTaskOf
    <2> QED  BY <2>2, <2>3 DEF NoTaskOf
  <1>3. ASSUME OnlyReservation(r)' PROVE NoMintOf(ReservedTicket[r])'
    <2>1. OnlyReservation(r)
      BY <1>3, HistoryGrows DEF OnlyReservation
    <2>2. PICK t \in Ticket : t = ReservedTicket[r]
      BY MinterAssumption
    <2>3. NoMintOf(t)
      BY <2>1, <2>2 DEF Shelved
    <2>4. ASSUME NEW i \in DOMAIN mempool', mempool'[i].kind = "mint", mempool'[i].ticket = t
          PROVE  FALSE
      <3>1. PICK a : IsMint(mempool'[i], t, a)
        BY <2>4 DEF IsMint
      <3>2. ~\E j \in DOMAIN mempool : IsMint(mempool[j], t, a)
        BY <2>3 DEF NoMintOf, IsMint
      <3>3. PICK w \in Worker : SendMintTx(w) /\ t = Target(w)
        BY <3>1, <3>2, MempoolMints
      <3>4. pc[w] # "idle" /\ task[w].reservation \in Reservation
        BY <3>3, TargetType DEF SendMintTx
      <3>5. /\ status[task[w].reservation] # "NONE"
            /\ ReservedTicket[task[w].reservation] = ReservedTicket[r]
        BY <2>2, <3>3, <3>4 DEF ReservedInv, TasksAreBacked, Backed, Target
      <3>6. task[w].reservation # r
        BY <3>4 DEF Shelved, NoTaskOf
      <3> QED  BY <2>1, <3>4, <3>5, <3>6 DEF OnlyReservation
    <2>5. issuedTo'[t] = NoOne
      <3>1. ~(1 \in DOMAIN mempool /\ IsMint(mempool[1], t, issuedTo'[t]))
        BY <2>3 DEF NoMintOf, IsMint
      <3> QED  BY <2>3, <3>1, IssuedByMine DEF NoMintOf
    <2> QED  BY <2>2, <2>4, <2>5 DEF NoMintOf
  <1> QED  BY <1>1, <1>2, <1>3 DEF Shelved

\* A cancel before the performance is due is final: the reservation stays cancelled, and
\* without a rival its seat has no ticket, for ever.
THEOREM CancelInTimeFinal == Spec => CancelInTimeIsFinal
  <1>1. SUFFICES ASSUME NEW r \in Reservation
                 PROVE  Spec =>
                   [](CancelledInTime(r) =>
                        [](/\ status[r] = "CANCEL"
                           /\ OnlyReservation(r) => issuedTo[ReservedTicket[r]] = NoOne))
    BY DEF CancelInTimeIsFinal
  <1>2. TypeOK /\ ReservedInv /\ CancelledInTime(r) => Shelved(r)
    BY InTimeIsShelved
  <1>3. TypeOK /\ ReservedInv /\ Shelved(r) /\ [Next]_vars => Shelved(r)'
    BY ShelvedStays
  <1>4. Shelved(r) => /\ status[r] = "CANCEL"
                      /\ OnlyReservation(r) => issuedTo[ReservedTicket[r]] = NoOne
    BY DEF Shelved, NoMintOf
  <1> QED  BY <1>2, <1>3, <1>4, TypeCorrect, ReservedInvariant, PTL DEF Spec

-----------------------------------------------------------------------------
(* Minter implements BoxOffice.                                             *)

\* What the box office sees of a state.
claimed == {c \in Ticket \X Address : Claim(c[1], c[2])}

LEMMA InitOffice == Init => BoxOffice!Init
  BY DEF Init, Claim, BoxOffice!Init

\* A mint that is mined is an issue on a claim.
LEMMA IssueOffice ==
    ASSUME TypeOK, ReservedInv, OwnedIsIssued, [Next]_vars,
           NEW t \in Ticket, issuedTo'[t] # issuedTo[t]
    PROVE  BoxOffice!Issue(t)
  <1>1. /\ Mine
        /\ 1 \in DOMAIN mempool /\ IsMint(mempool[1], t, issuedTo'[t])
        /\ owner[t] = NoOne
        /\ issuedTo'[t] \in Address
    BY IssuedByMine
  <1>2. issuedTo[t] = NoOne
    BY <1>1 DEF OwnedIsIssued
  <1>3. Claim(t, issuedTo'[t])
    BY <1>1 DEF ReservedInv, MintsAreClaimed, IsMint
  <1>4. issuedTo' = [issuedTo EXCEPT ![t] = issuedTo'[t]]
    <2>1. \A u \in Ticket \ {t} : issuedTo'[u] = issuedTo[u]
      BY <1>1, IssuedByMine DEF IsMint
    <2>2. issuedTo \in [Ticket -> Address \union {NoOne}]
          /\ issuedTo' \in [Ticket -> Address \union {NoOne}]
      BY NextType DEF TypeOK
    <2> QED  BY <2>1, <2>2
  <1>5. UNCHANGED claimed
    BY <1>1 DEF Mine, dbVars, claimed, Claim
  <1>6. <<t, issuedTo'[t]>> \in claimed
    BY <1>1, <1>3 DEF claimed
  <1> QED  BY <1>2, <1>4, <1>5, <1>6 DEF BoxOffice!Issue, claimed

LEMMA StepOffice ==
    ASSUME TypeOK, ReservedInv, OwnedIsIssued, [Next]_vars
    PROVE  BoxOffice!Next
  <1>1. CASE \E t \in Ticket : issuedTo'[t] # issuedTo[t]
    BY <1>1, IssueOffice DEF BoxOffice!Next
  <1>2. CASE \A t \in Ticket : issuedTo'[t] = issuedTo[t]
    <2>1. issuedTo' = issuedTo
      <3>1. issuedTo \in [Ticket -> Address \union {NoOne}]
            /\ issuedTo' \in [Ticket -> Address \union {NoOne}]
        BY NextType DEF TypeOK
      <3> QED  BY <1>2, <3>1
    <2>2. \A c \in Ticket \X Address : Claim(c[1], c[2]) => Claim(c[1], c[2])'
      <3> SUFFICES ASSUME NEW c \in Ticket \X Address, Claim(c[1], c[2])
                   PROVE  Claim(c[1], c[2])'
        OBVIOUS
      <3>1. PICK t, a : t = c[1] /\ a = c[2]
        OBVIOUS
      <3>2. Claim(t, a)'
        BY <3>1, ClaimStays
      <3> QED  BY <3>1, <3>2
    <2>3. claimed \subseteq claimed' /\ claimed' \subseteq Ticket \X Address
      BY <2>2 DEF claimed
    <2>4. BoxOffice!ComeUp
      BY <2>1, <2>3 DEF BoxOffice!ComeUp, claimed
    <2> QED  BY <2>4 DEF BoxOffice!Next
  <1> QED  BY <1>1, <1>2

\* The platform issues every ticket once, on a claim that was there before.
THEOREM MinterImplementsBoxOffice == Spec => ImplementsBoxOffice
  <1>1. MintedInv => OwnedIsIssued
    BY DEF MintedInv
  <1>2. Spec => [][BoxOffice!Next]_(BoxOffice!office)
    BY <1>1, StepOffice, TypeCorrect, ReservedInvariant, MintedInvariant, PTL DEF Spec
  <1> QED  BY <1>2, InitOffice, PTL DEF Spec, ImplementsBoxOffice, BoxOffice!Spec

=============================================================================
