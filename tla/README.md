# A verification development for the NFT ticket platform

The platform sells seats of performances, and shortly before a performance
issues every seat sold as an NFT: the goal the repository's README states is
to "prevent forgery and prove ownership". This directory holds TLA+ models of
the parts that must work together for that, TLC configurations that check them
on small instances, and proofs, checked by TLAPS, of what holds for instances of
every size. Paths below are relative to `src/workspace/` unless they start with
`src/`.

## 1. The system

| component | state | operations |
|---|---|---|
| ticket contract, `blockchain-contract/contracts/Eticket.sol` | per schedule: registered or not, expiration, two content URLs, index of each seat, array of tickets with an "is used" flag; per token id: owner (ERC721 base) | `schedulePerformance`, `mintTicket`, `markTicketAsUsed`, two URL setters, views, ERC721 transfers |
| minter service, `eticket-minter/internal/minter` | bounded task queue, schedule cache `NOT_SCHEDULED`/`TRY_SCHEDULING`/`SCHEDULED`, goroutines | `publish` (poll the table, enqueue), `startWorker` (take, schedule, mint, mark), `Start`, `Stop` |
| operator's tool, `eticket-minter/cmd/eticketctl` | none (a process per command) | `default` and `special`: upload images and documents, register the schedule or change its content URL |
| IPFS uploader, `eticket-ipfs-uploader` | none of its own; what the IPFS node holds | `upload`, `upload/json`, `upload/zip` |
| reservations, `backend` and `src/docker-compose/services/data/mysql` | row per reservation with `status` | reserve, cancel, list |
| wallets, `backend` | `user.wallet_address`, unique or NULL | register a wallet with a personal signature |
| vacancies, `backend` with Redis | a seat table per (schedule, section), stored whole | fill, look up, preempt a seat |
| waiting room, `backend-waiting` with Redis | per performance a sorted set of waiting users and one of users buying | join, scheduled move of users from one to the other, leave after buying |
| tracker, `blockchain-tracker` | `nft_ticket` and `block_sync_log` tables | fetch Transfer events of a range of blocks, apply them in a transaction |
| authentication, `backend` | challenge words (180 s) and token metadata in Redis | create a challenge, log in by password or personal signature, verify a token |
| performances, seats, users, rankings, `backend` | tables | queries, insertion of a user |
| frontend, deployment | none of interest | |

### How they interact

A user joins the waiting room, is let in, preempts a seat in the vacancy table,
and reserves it: a row with status `SOLDOUT`. The minter polls the rows whose
performance starts within a day, and for each makes a task (reservation, wallet
of its user, schedule, seat). A worker takes the task, sees to it that the
contract knows the schedule, mints the ticket unless it exists, and writes
`MINTED`. Meanwhile the user can cancel (write `CANCEL`) or register another
wallet, the operator's tool can register the schedule through the same account,
and owners of tickets can transfer them. The tracker follows the contract's
events to show users their tickets. What a ticket shows is prepared by the
operator's tool: it uploads images and one document per seat through the IPFS
uploader, and puts the URL of the documents on the contract.

The components share state but no lock: the table (backend and minter), the
contract (minter, operator, owners), Redis hashes (requests of the backend).

### What is hard

* Concurrency: workers share the schedule cache, in which `TRY_SCHEDULING` is a
  lock made of a compare-and-swap and unconditional stores; publishers overlap,
  because each poll is a goroutine of its own; the cancel and the vacancy table
  are read-then-write.
* Failure: any call to the node or the database may fail between any two steps;
  the process may stop with transactions in the mempool.
* Ordering: the contract hands control to the recipient between its two
  records of a ticket; the node answers queries about its "pending" state; users
  leave and come back while a round of the waiting room is under way, and their
  requests overtake each other between the clock and Redis.
* Partial failure: an answer that is cut off, a `log.Fatal` that ends the requests of
  all clients, an iterator that stops early, a commit whose answer is lost.
* Progress: a queue that drops what does not fit, a lock that must be released
  on every error path.

### What makes each component correct

* Contract: a seat is issued at most once; a schedule is registered at most once;
  the array of tickets and the index agree with the owners; the flag and the
  content shown are those of the seat asked for.
* Minter: only reserved seats are minted, to the reserver, once; what the table
  calls `MINTED` is minted; the cache never claims too much and its lock is
  exclusive and always released; every confirmed reservation is settled.
* Vacancies: the table tells who has which seat, as long as nobody overwrites
  another's change; nobody is refused a seat that nobody has.
* Waiting room: at most ten users buy at a time; nobody is lost without a
  failure; the first to come is the first served, if the request is not slower than a
  whole round; everybody in the queue gets a turn.
* Tracker: the table equals the owners on the chain at the last block
  logged, whatever the restarts.
* Operator and uploader: a URL on the contract has the hash of documents that exist, for
  every seat of that schedule, at the address the tool reports, and content is never taken
  away; success is not reported for nothing.

## 2. The modules

| module | what it is |
|---|---|
| `TicketLedger` | abstract: what the contract promises to everybody else, and what follows from it |
| `BoxOffice` | abstract: what the platform promises to its users about tickets |
| `Turnstile` | abstract: what the waiting room promises |
| `Eticket` | the contract, implements `TicketLedger` |
| `Minter` | the minter service with the tables and the chain around it, implements `BoxOffice`; its transactions have the preconditions of `TicketLedger` |
| `Vacancies` | the seat tables in Redis, the requests and the fillers |
| `WaitingRoom` | queue, ticketing set, scheduled task and pages of one performance, implements `Turnstile` |
| `Tracker` | chain, iterator, transaction and tables of the ticket tracker |
| `Uploader` | the IPFS uploader with the node behind it and clients in front |
| `Operator` | commands of the operator's tool, composed with `Uploader` (its clients are the commands), the contract's URLs and the minter's registrations |
| `MCEticket`, `MCMinter`, `MCVacancies`, `MCWaitingRoom`, `MCTracker`, `MCOperator` | instances for TLC |
| `EticketProofs`, `MinterProofs`, `VacanciesProofs`, `WaitingRoomProofs`, `TrackerProofs`, `OperatorProofs` | theorems about the module each is named after |
| `LedgerProofs` | theorems about `TicketLedger`, which `EticketProofs` instantiates |

`PROJECT.json` maps the definitions to the lines they model. A definition under
"Variant" is a plausible mistake in the one below it; each property is known to fail
with one of them.

### TicketLedger

Four variables: the schedules registered, the owner of every ticket, the first
owner of every ticket (the event that announces the mint: it tells a second
mint from a transfer), the tickets used. Four operations with their preconditions; in particular a ticket
is issued once, for a registered schedule, to somebody. `RecordsAgree` and
`IssuedForGood` state what everybody who relies on the ledger gets from that.

### BoxOffice and Turnstile

`BoxOffice` has two variables: the claims (pairs of a ticket and an account) and the account
each ticket was issued to. Claims only come up, and a ticket is issued once, on a claim. In
`Minter` a claim is a reservation of the ticket, made at some time, whose user has or had the
wallet, of a performance that is due. That claims are never withdrawn is the truth about the
code: a cancel that comes too late does not stop a task already queued.

`Turnstile` has the numbers drawn by users on their way to the line, the numbers of those in
line, and the set of those inside. Numbers never get lower, but whoever is slow on the way may
join ahead of others, or find that higher numbers are inside already. Some of those in
line with the lowest numbers get inside in one step, up to the limit; all other ways lead out,
or into the line with another number. `WaitingRoom` implements it with `inside` being the users who
buy and those the round has in hand: a number is drawn when a request reads the clock, the turn is the
`popQueue`, and what the round does afterwards, user by user, is invisible, unless it fails, and
its users leave.

### Eticket

* Ids are below `Width`; a token id is `schedule * Width + seat`, which is the
  code's shift and bitwise or because the halves do not overlap.
* `tickets[ps]` is the Solidity array (TLA+ sequences start at 1, so the code's
  `index - 1` is the model's index), `ticketIndices` the mapping in which 0 says
  "not minted", `ownerOf` the base contract's mapping, `issuedTo` its mint events.
* `MintTicket` runs to the recipient's callback inside `_safeMint`, `RecordTicket`
  is the rest of the function. While the callback runs (`minting`), the recipient
  may transfer tokens, and no transaction of the contract's owner can run.
* A transaction that reverts changes nothing and is no step. For a recipient
  that refuses the ticket the whole mint reverts; since the two halves are two steps,
  the model keeps to recipients that accept.
* `tokenURI` is modelled by which content it shows (default or special) and its
  base URL, not by the text of the URL.

### Minter

| in the model | in the code |
|---|---|
| `status`, `wallet` | columns of `reservation` and `user` |
| `cancelling` | cancel requests between `loadById` and `save` |
| `due` | `DATE(start_date_time) <= NOW() + INTERVAL 1 DAY` |
| `scheduled`, `owner`, `mempool` | the contract's state, and transactions sent and not mined |
| `held`, `issuedTo` | history: wallets a user ever had, recipient of each mint |
| `rows`, `sending` | the slice a `publish` iterates over, and the element it sends to the channel |
| `queue` | the channel |
| `pc`, `task`, `receipt` | where a worker is in `MintHelper.MintTicket`, its options, the receipt it polls for |
| `cache` | `cachedPerformanceSchedules` |

The labels of `pc` are the points between accesses to shared state:
`idle` - `isScheduled` (cache) - `askContract` - `schedule` (compare-and-swap) -
`trySchedule` - `awaitSchedule` - `isMinted` - `validate` or `mint` - `awaitMint` -
`mark`. One step of a goroutine that touches shared state is one action.

Choices that deserve a word:

* Transactions of the one account that may call the contract are mined in nonce
  order. A transaction that would revert is mined with a failed receipt.
* `IsTicketMinted` and `ValidateOwnership` ask the node's pending state. Whether the
  node counts its mempool in that state is not the minter's business, so the
  answer is either (`PendingOwners`).
* `ReadMintReceipt` goes on whatever the receipt says, as `doMintTicket` does.
* An error of a call sends the worker back for the next task, and stores
  `NOT_SCHEDULED` if it was registering a schedule (`CallFails`). Its transaction, if
  it sent one, stays in the mempool (`Abandon`). `QueryFailsWhileTrying` is the one
  error that does not end the task.
* `Restart` covers a crash and a stop: `Stop` cancels the context first, after
  which no worker reaches the node or the table. Redelivery is by polling again.
* A mint that the contract's conditions allow succeeds: gas limits and
  recipients that are contracts refusing a token are left out.
* The mempool loses nothing, and nonces are not modelled: two workers that take
  the same nonce make one send fail, which is a `CallFails`.

### Vacancies

| in the model | in the code |
|---|---|
| `table` | the fields of the Redis hash `SeatTable`, one per section (of one schedule: fields of others are independent) |
| `stage`, `copy` | a request between `getData` and its answer, and the table it has deserialised |
| `todo`, `missing` | a run of `saveVacanciesToRedis` in its loop, between `hasKey` and `put` |
| `raced` | history: sections whose table was put although it was no longer the one it was made from |

A read and a write of the hash are one step each, and nothing makes two of them
one. `getData` asks for the key and then for the value: since no
table is ever removed, the two are one step. `Crash` ends what is under way.

### WaitingRoom

| in the model | in the code |
|---|---|
| `joined`, `ticketing` | the sorted set of who waits (score: time of joining) and the set of who buys |
| `step`, `available`, `popped`, `called` | the round: the loop's variables, and the user between `addTicketing` and `convertAndSend` |
| `page` | what the browsers show |
| `posting`, `adding`, `leaving` | requests under way: to join, before and after `System.currentTimeMillis()` is evaluated, and to give a place back |
| `missed`, `dropped` | history: users who wait and whose turn was announced before their page had subscribed; users who wait and whom a failure took out of the queue |
| `lastScore`, `overtaken` | history: the highest score popped; requests on their way to Redis, or users in the queue by such a request, that had an earlier time when it was popped |

`zAdd` evaluates the clock in the thread of the request and sends `ZADD` afterwards, so
that reading (`ReadClock`) and adding (`AddQueue`) are two steps, with any others between them:
scores arrive in any order. The clock is taken to be the same for all requests and not to run
backwards; two requests may read the same millisecond.

A performance has a round only while somebody waits for it (the keys of the queues
are what the task iterates over). Equal scores are ordered in any way, so
that the ids of the users do not matter. A page may be opened again while its user
waits or buys: the score is overwritten, the place in the ticketing set kept.
`RoundFails` is an exception of any Redis or broker call in the round, which
Spring's scheduler logs and survives. `PostFails` and `DeleteFails` are requests that get
lost or end in an error: both pages log it (`Waiting.tsx` 30-32, `Success.tsx` 25-27) and do not
try again. `Restart` ends the round, loses the requests that were being handled and any of those that
were under way, and cuts the websockets, which connect again.

### Tracker

| in the model | in the code |
|---|---|
| `chain` | one transfer per block, with the owners after it |
| `table`, `logged` | `nft_ticket`, and the upper block of the latest `block_sync_log` |
| `lowerBlock` | `ETICKET_BLOCKCHAIN_LOWER_BLOCK`, or -1 |
| `upper`, `read`, `fail`, `events` | the range, the iterator, and the map handed to `SyncNfts` |
| `draft`, `todo`, `refused` | the transaction: its view of the table, the entries of the map not yet written, INSERTs refused as duplicates |
| `warned` | history: tokens whose latest change was refused |

The iterator returns false at the end of the range and after an error;
only `Error` tells the two apart. What is assumed of the missing package are five external
definitions: `FirstBlock` and `RangeEnd` (where ranges begin and end), `Collect` (first
sender and last recipient of each token), `IsWholeRange` (it asks for the error before it calls
`SyncNfts`) and `GiveUp` (it tries again). The properties are about what `SyncNfts`
makes of that. `SyncFails` is an error return with its rollback, also
one in which the commit took place and only its answer was lost.

### Uploader and Operator

A content is its own hash, as in IPFS. `stored` is what the IPFS node holds; it grows, also
by uploads whose answer never arrives. An answer is a JSON document with
a hash, one without (`Json(NoHash)`: the messages of the error paths), something that does not parse
(`NotJson`: an empty body after a panic, or two documents one after the
other), or a broken connection. The tool looks at bodies only, and ignores the error of
parsing the answers about images, but not that about the documents.

| in the model | in the code |
|---|---|
| `request`, `reply` | a request in its handler; what curl printed |
| `job`, `pc`, `cover`, `special`, `metadata` | arguments of a command, where it is, the hashes it has parsed |
| `scheduled`, `url`, `call`, `receipt` | the contract, the transaction of a command and its receipt |
| `overtaken` | history: commands that found the schedule registered only in `SchedulePerformance` |

Image and document texts are records that say what they name: the cover or
an entry of the zip for every seat. A transaction that was sent is mined or
reverts whatever becomes of its sender; transactions of different processes are mined in any order.

## 3. The runs

| run | instance | properties | shows |
|---|---|---|---|
| `eticket` | 2 x 2 seats, 2 holders, 2 URLs, times 0 and 1, no default URL | `TypeOK`, `SeatsShareOutTickets`, `IndexAgreesWithOwner`, `ImplementsLedger`, `SpecialContentStays`, `MarksOneTicket` | the contract keeps its two records in step around the callback and implements the ledger; a ticket is marked alone, and its special content stays |
| `minter_rivals` | 2 users after the same seat, 2 workers, 1 publisher, queue of 1, 1 fault | `TypeOK`, `CacheIsSound`, `SchedulingIsExclusive`, `EveryTicketWasReserved`, `MintedIsTaken` | the race for a seat and for the schedule, with the operator's tool and a failure |
| `minter_retries` | 1 user, 1 seat, 2 wallets, 2 workers, 2 publishers, 1 fault | `SoleClaimIsMinted`, `EveryTicketWasReserved`, `ImplementsBoxOffice` | the same reservation queued twice, retried and abandoned, while the wallet changes; all of it is a box office |
| `minter_liveness` | 1 user, 2 workers, 2 faults, fairness | `ConfirmedIsSettled`, `CancelInTimeIsFinal` | a reservation is settled in spite of failures, and stays cancelled if it was cancelled before the last day |
| `waiting_room` | 3 users, 2 places, 3 visits, 1 fault, fairness | `TypeOK`, `LimitHolds`, `FirstComeFirstServed`, `NobodyIsForgotten`, `EverybodyGetsATurn`, `ImplementsTurnstile` | rounds interleaved with joins that overtake each other, reloads and departures; a round, a request or the process fails |
| `vacancies` | 2 sections of 2 seats, 4 requests (2 rivals, a neighbour, another section), 2 fillers | `TypeOK`, `TableIsExact`, `RefusalIsHonest`, `DoubleGrantsAreRaces` | what holds of tables that overwrite each other |
| `tracker` | 2 tokens, 2 owners, 5 blocks, 2 faults, lower block unset or 1 | `TypeOK`, `DuplicatesAreRepeats`, `TableMatchesChain`, `TableIsComplete`, `RowsAreCurrent` | ranges read once or again, written in any order, or not |
| `operator` | 2 commands of either kind, 2 schedules, 2 seats, 1 cover | `TypeOK`, `PublishedIsComplete`, `SuccessIsPublished`, `NeverUnpublished` | commands racing through an uploader that breaks off anywhere |
| `vacancies_conflict` | 2 requests for one seat | `GrantedOnce` (violated) | finding 3 |
| `minter_receipt` | 2 users, 1 seat, no faults | `MintedIsOwned` (violated) | finding 1 |
| `operator_report` | 1 command | `ReportedIsPublished` (violated) | finding 4 |
| `minter_starvation` | 2 users, 1 seat, queue of 1, 1 fault, fairness | `ConfirmedIsSettled` (violated) | finding 2 |

### Why these bounds

* Two workers are what the cache needs to go wrong: its steps read or write one
  entry, and a third worker repeats what one of the two does. One schedule is
  enough since the cache's entries are independent; the proofs lift both.
* A queue of one is full after one task, so the early return and the blocked send
  both happen; two publishers let one fill the queue between the other's check and send.
* One fault (two in the liveness run) at any step; a second restart finds the
  state a first one leaves. The faults are bounded (`MaxFaults`) because an
  endless series of failures excuses everything.
* Two wallets per user (`MaxWallets`) let a wallet change, and change back, between any two
  steps of a mint.
* `eticket`: two seats per schedule are needed to tell an index from another,
  two schedules to tell a token id's halves apart. The constraint `NoDefaultContent` leaves out the
  states in which a schedule has a default URL: such a URL is shown where the special content is not,
  no function decides anything by it, and it would multiply the states by more than three.
* `vacancies`: a lost change takes two requests of one section, a wrong refusal a
  request of another one; two fillers race with each other and with a request
  that came between the look and the write.
* `waiting_room`: with two places and three users, a round pops several users at a time, one
  has to wait, and a place is given back in the middle of a round. The visits
  (`MaxVisits`) let every user come once, or one of them again and again; every visit may
  advance the clock, so all orders of three times at Redis occur.
* `tracker`: five blocks give a token a mint, two transfers and a way
  back, split over up to three ranges, with another token's events between them; two
  faults are a lost answer followed by an error in the repeated range.
* `operator`: two commands are what it takes to be overtaken; two seats and
  archives of every set of them tell a seat with an image of its own from one
  without. The uploader may fail any number of times.

Exceptions that properties make, with history variables, and why:

* `raced` (`TableIsExact`): a table overwritten in a race is wrong, which is
  finding 3. The property says that nothing else makes it wrong.
* `overtaken` (`FirstComeFirstServed`): a request that had read the clock and not reached Redis when
  a later time was popped comes too late to be first. The property says that nobody else is
  passed over: not by reloads, ties, rounds that fail, or requests that overtake each other while
  nobody is popped.
* `dropped` (`NobodyIsForgotten`): users a failed round held are lost, for the pop and the
  add are two calls; and so are those whose POST fails, or dies with the server, since the page
  ignores it and waits on. `missed`: the message went out before the page had subscribed. The
  property says that there is no fourth way, and it names each user lost, not just a time at which
  something failed.
* `warned` (`TableMatchesChain`): a range committed though the answer was lost is read
  again together with later blocks; the INSERT of a token it mints is refused as a duplicate
  and the later owner ignored, until the token moves again. `TableIsComplete` says what is left.
* `overtaken` of `Operator` (`SuccessIsPublished`): the tool asks twice whether the schedule is
  registered, and takes a yes to the second question for its own work.
* Images may have empty names in `PublishedIsComplete`, since the tool ignores
  that an image was not uploaded. The property is about hashes: it says that the documents are
  there, not that the URL's address leads to them, which it does not (finding 4).

`waiting_room` and `tracker` run with `CHECK_DEADLOCK FALSE`: their users stop
coming, and their chain ends at `MaxBlock`, which leaves nothing to do. All other runs check for deadlock.

In the runs that check only safety, workers and addresses, holders, tokens and owners,
commands, schedules and seats are interchangeable; the runs with liveness properties use no symmetry.

### Fairness

`FairSpec` assumes that each publisher, each worker and the chain take steps they
could take for ever: the timer fires every 30 s for as long as the process
lives, goroutines are scheduled, and a transaction accepted by the node is
mined. Nothing is assumed of users, of the operator, or of the calendar.

`FairSpec` of `WaitingRoom` assumes only that the scheduled task goes on (`fixedDelay`, and
docker restarts the process). Requests may be slow for ever or get lost, and users need not
do anything: that places are given back is an assumption of
`EverybodyGetsATurn` itself, and a real one, since the code never takes a place from a user
who leaves without paying. It also rests on `MaxVisits`: a user who reloads the waiting
page for ever goes to the end of the queue for ever.

### Findings

1. `MintedIsOwned`: `doMintTicket` returns nil when the transaction failed
   (`mint_helper.go` 211-212). Shortest run: a user without a wallet reserves, the mint
   to the zero address reverts, the reservation becomes `MINTED` and is never polled
   again. The slower of two rivals for a seat ends the same way.
   `SoleClaimIsMinted` says where `MINTED` can be trusted: nobody else reserved the
   seat, and the user had a wallet all along. `MintedIsTaken` says what is left with rivals: the
   seat has its ticket or will have it, although perhaps a rival's.
2. `ConfirmedIsSettled` with two reservations of one seat: the one that lost the seat
   stays `SOLDOUT`, and since the query takes `cap(taskQueue)` rows in no particular
   order, it can fill every poll. `task_publisher.go` 28 says that dropped
   reservations are polled again later; they need not be.
3. `GrantedOnce`: two requests for a seat read the table before either puts it back, and
   both are answered with 200 (`VacanciesRedisRepository.java` 63-74), where
   `PreemptVacancyController.java` 52 documents a 409. `DoubleGrantsAreRaces` says, and
   `OnlyRacesGrantTwice` proves, that such races are the only way.
4. `ReportedIsPublished`: the commands put `env.BlockchainRpcUrl` before the hash
   they register (`eticketctl.go` 149 and 253), that is the blockchain node's address, where they
   report `env.IPFSGatewayUrl` for the same documents (164 and 261), which is what images
   get as well (157). The documents are in IPFS (`PublishedIsComplete`), but the
   URL on the contract does not lead to them.

Not a finding, for no doc or test decides it, but near one: a cancel and a worker that mints
at the same time overwrite each other's status (`CancelMyReservationService.java` 44, `minter.go` 72-79).
`CancelInTimeIsFinal` confines that race to the time after the performance has become due. Its part
about the ticket says nothing where the seat was reserved by others as well; the run has one
reservation, the theorem any number.

## 4. The proofs

`MinterProofs` proves, for every finite set of reservations, all sets of users,
workers and publishers, every capacity and every bound on faults:

| theorem | says |
|---|---|
| `TypeCorrect` | `Spec => []TypeOK` |
| `CacheSound`, `SchedulingExclusive` | `Spec => []CacheIsSound`, `Spec => []SchedulingIsExclusive` |
| `TicketsWereReserved` | `Spec => []EveryTicketWasReserved` |
| `SoleClaimMinted`, `MintedTaken` | `Spec => []SoleClaimIsMinted`, `Spec => []MintedIsTaken` |
| `CancelInTimeFinal` | `Spec => CancelInTimeIsFinal` |
| `MinterImplementsBoxOffice` | `Spec => ImplementsBoxOffice` |

They rest on `MinterAssumption` alone (the zero address is no address, `Nobody` is no
worker, reservations are finitely many, the two functions that describe them are functions,
the bounds are natural numbers). That the minter takes no ticket back and no ledger's record
apart is not among them: the contract's own guards see to that, whatever the minter does.

`EticketProofs` proves, for every positive width of the ids and all sets of holders,
URLs and times:

| theorem | says |
|---|---|
| `TokenIdDetermines`, `DecodeTokenId` | token ids name tickets one to one, and are decoded to what they were made of |
| `TypeCorrect`, `SeatsShareOut`, `IndexAgrees` | `Spec =>` always `TypeOK`, `SeatsShareOutTickets`, `IndexAgreesWithOwner` |
| `MarkingIsExact`, `SpecialContentRemains` | `Spec => MarksOneTicket`, `Spec => SpecialContentStays` |
| `ContractImplementsLedger` | `Spec => ImplementsLedger` |
| `ContractRecordsAgree`, `ContractIssuesForGood` | `Spec => []Ledger!RecordsAgree`, `Spec => Ledger!IssuedForGood` |

They rest on the four named assumptions of `Eticket`: the width is positive, the zero
address is no address, the empty URL is a URL, times are natural numbers with 0.

The invariants, and why each is needed:

* `SchedulingInv` (theorem `SchedulingInvariant`). The cache is written from receipts, so
  it is sound only if a receipt that says "succeeded" to a worker is that of its
  own registration. That takes: a transaction in the mempool under a worker's name is
  the one the worker waits for (`SendersWait`), there is one at most (`OneTxEach`), and an
  unread receipt is of the kind awaited and true (`ReceiptIsAwaited`). Faults matter
  here: a worker that gave up must not take the receipt of its old transaction for
  that of a new one. `PastSchedulingIsScheduled` carries the conclusion to the mint.
* `ReservedInv`. A mint is justified by the state of the table when the row was read.
  The invariant says that whatever travels from there (rows, channel, task,
  transaction) is backed by a reservation that was made, a wallet its user has
  or had, and a performance that is due; all three only grow (`HistoryGrows`).
* `MintedInv`. For a reservation without competitors, whoever is done with the
  mint (`Minted`) has the ticket, or its transaction is in the mempool. The case
  that needs care is the failed receipt, which the code ignores: under
  `OwnedIsIssued` and `MintsAreScheduled` a mint can only fail because the ticket was
  issued before, and then to the same user, because of `ReservedInv`.
* `TakenInv`, for `MintedIsTaken`: the same for the seat instead of the reserver, and without a
  condition on rivals. It needs that a mint to somebody, when its turn comes, leaves the ticket
  issued whether it succeeds or not (`MineTakes`), so that a seat once taken stays so (`TakenStays`).
* `Shelved`, for `CancelInTimeIsFinal`. A temporal property of the form "once so, for ever so": what
  has to be kept is that the reservation is cancelled, that nothing travels for it and that its
  ticket, if it is the only reservation of its seat, is not issued. At the moment of the cancel
  that follows from `ReservedInv`: everything that travels is of performances that are due, and
  this one is not (`InTimeIsShelved`). Later the query passes over it, since its status is not
  `SOLDOUT`, and no worker has it to write `MINTED` (`ShelvedStays`), due or not.
* The refinement of `BoxOffice` needs two facts of a step that mines a mint: the ticket was not
  issued before (`MintedInv`: who has no owner was never issued), and the recipient had a claim
  (`ReservedInv`). That all other steps only add claims is `ClaimStays`.

* `ContractInv` (theorem `ContractInvariant`), the three invariants of `Eticket`
  together. None is inductive alone: a flag is written at an index, so the
  array keeps its type only if indices are in range; a new index is new only if
  the others are; and the seat that gets it has none yet because it is the one
  whose recipient was called back. That a transfer during the callback disturbs
  nothing comes from token ids being one to one.

`LedgerProofs` proves of `TicketLedger`, for all schedules, seats and accounts among which the
zero address is not, that its records agree and that nothing is ever taken back
(`RecordsAlwaysAgree`, `TicketsAreForGood`). The contract inherits both through
its refinement, without another look at its own steps: that is what the abstract
specification is for. (`SameLedger` is needed because an instance of `LedgerProofs` has
definitions of its own, which the provers do not identify with those of `Ledger`.)

The other four, each with the invariant that carries it:

| module | theorem | says |
|---|---|---|
| `WaitingRoomProofs` | `TypeCorrect`, `LimitIsHeld`, `QueueIsFair`, `NobodyForgotten`; `WaitingRoomImplementsTurnstile` | `Spec =>` always `TypeOK`, `LimitHolds`, `FirstComeFirstServed`, `NobodyIsForgotten`; `Spec => ImplementsTurnstile` |
| `VacanciesProofs` | `TypeCorrect`, `TablesAreExact`, `RefusalsAreHonest`, `OnlyRacesGrantTwice` | `Spec =>` always `TypeOK`, `TableIsExact`, `RefusalIsHonest`, `DoubleGrantsAreRaces` |
| `TrackerProofs` | `TypeCorrect`, `DuplicatesRepeat`, `TableMatches`, `TableComplete`; `RowsStayCurrent` | `Spec =>` always `TypeOK`, `DuplicatesAreRepeats`, `TableMatchesChain`, `TableIsComplete`; `Spec => RowsAreCurrent` |
| `OperatorProofs` | `TypeCorrect`, `PublishedAreComplete`, `SuccessPublishes`, `ContentStays` | `Spec =>` always `TypeOK`, `PublishedIsComplete`, `SuccessIsPublished`; `Spec => NeverUnpublished` |

* `WaitingRoom`, for every finite set of users and every limit. `RoundInv`: the places
  counted are still free when users are popped, because nobody but the task fills
  any; the pop takes no more than that many. `QueueInv`: scores and times on their way to Redis
  are times of the past, and a time on its way below the last score popped is that of a request
  known to be overtaken. A request that reads the clock now is therefore behind all who were popped,
  and one that arrives late is either so, too, or exempt. The refinement of `Turnstile` needs
  `RoundInv` for the limit at the pop. A number is drawn when the clock is read and taken into
  the line when Redis has it, two actions of `Turnstile` as well, so numbers may come into line in
  any order.
* `Vacancies`, for all sections, seats and requests, also infinitely many. For `TableIsExact`, a request
  that writes in a section without races still holds the table it read,
  in which its seat was free; `OnlyRacesGrantTwice` follows, since whoever was granted a seat has
  marked it (`GrantsAreMarked`). For `RefusalIsHonest`, `HonestInv` says of every table
  and every copy, stale ones included, that a seat that is taken in it was taken by somebody.
* `Tracker`, for chains of any length, all tokens and owners, and any number of faults. `ChainInv`:
  a token that has an owner keeps having one. `ReadInv`: the events collected are the
  difference between two points of the chain. `DraftInv`: the transaction has
  written exactly the entries done, each once, in whatever order. `TableInv` then follows at the
  commit, for ranges that overlap the one logged last as well: `TypeOK` says
  they never begin behind a gap. `DuplicatesAreRepeats` follows from both: a refused
  INSERT means that the row was there, so the token had an owner at the block logged; it had none before
  the range, for only mints are inserted, and so the range begins at or before that block. `RowsAreCurrent` is about steps: only a commit changes rows, and
  by `DraftInv` each row it changes got the last recipient of the range.
* `Operator`, for all commands, schedules, seats and covers. `IInv` follows a hash from the node
  (what is stored stays) into a reply, a command's variables, the document and the
  contract: whatever has a name is stored, at each of these places.

The assumptions are those of the modules: `WaitingAssumption` (users are finitely many, the
bounds natural numbers), `VacanciesAssumption` (no table is `NoTable`; every request wants a
seat of a section), `TrackerAssumption` (the zero address is no owner; the lower block is
unset or 1: a tracker told to begin later skips what came before), `OperatorAssumption`
(the empty hash names nothing).

The proof of each invariant of `Minter` has a lemma per group of actions; what a step can do
to the mempool, to the tasks and to the record of mints is stated once
(`MempoolMints`, `TasksComeFrom`, `IssuedByMine`) and used for several invariants.

Only checked by TLC: liveness (`ConfirmedIsSettled`, `EverybodyGetsATurn`).
`MintedIsOwned`, `GrantedOnce` and `ReportedIsPublished` are false.

## 5. The plan

Done: `Eticket`, `TicketLedger`, `Minter`, `Vacancies`, `WaitingRoom`, `Tracker`, `Uploader`,
`Operator`, proofs of all their safety and action properties, and the refinements of
`TicketLedger`, `BoxOffice` and `Turnstile`, also proved.

What is left, in this order:

1. `Vacancies` together with the reservation table of `Minter`: which of two granted
   requests ends up with the ticket.
2. Rounds of several performances in one thread of `WaitingRoom`: an exception in the first one
   delays the others.

Given up: an abstract registry of contents implemented by both `Eticket` and `Operator`. A schedule
registered twice looks to it like a change of URL, so that the refinement told a correct contract
from a wrong one less well than `NeverUnpublished` and `SpecialContentStays` do.

## 6. Not modelled

* Authentication: each operation is a single atomic Redis command (SET with a
  lifetime, GETDEL for a challenge word, MULTI for the tokens) around library
  cryptography; no order of steps in the code could go wrong.
* The package `blockchain/tracker` that `blockchain-tracker` imports is not in the
  repository. `Tracker` assumes that it hands over the first sender and last recipient of every
  token, asks for the iterator's error, and repeats a range that failed. Reorganisations of the chain are
  left out: nothing in the code reacts to them.
* The 400 for a seat id that is not in the table of vacancies: it changes nothing.
* Queries without side effects (performances, seats, rankings), the insertion of users,
  the pages of the frontend other than those that call the waiting room, `BulkMarkAsMinted`
  (called by nobody).
* Waiting order messages, texts of documents, of URLs and of logs.
* Deployment but for its restart policies, and of the generated bindings everything but
  the calls the services make; they are most of the Go code, and none of it decides anything.
* Of the ERC721 base contract approvals and enumeration. Nonces, gas and dropped
  transactions.
* Progress with a queue of capacity 0 (`minter.go` 41 accepts it): it is always full, and
  nothing is ever minted. The safety theorems hold for it; `ConfirmedIsSettled` is checked with a queue of one.
