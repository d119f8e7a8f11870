------------------------------ MODULE Tracker ------------------------------
(***************************************************************************)
(* The ticket tracker (blockchain-tracker) keeps the table nft_ticket, the *)
(* owner of every token, in step with the contract's Transfer events.  It  *)
(* reads the events of a range of blocks through the iterator of the       *)
(* contract binding, and writes what they come to, together with a log of  *)
(* the range, in one transaction.                                          *)
(*                                                                         *)
(* The package that chooses the ranges and collects the events is not in   *)
(* the repository: it is taken to do what SyncNfts expects of it, that is, *)
(* to hand over for each token the sender of its first and the recipient   *)
(* of its last transfer in the range, to check the iterator's error, and   *)
(* to try a range again that failed.  FirstBlock, RangeEnd, Collect,       *)
(* IsWholeRange and GiveUp are these assumptions, and no property is about *)
(* them.                                                                   *)
(*                                                                         *)
(* A block holds one transfer: blocks with none or with several only       *)
(* restrict where ranges end.  The chain is not reorganised.               *)
(***************************************************************************)
EXTENDS Integers, Sequences

CONSTANTS
    Token, Address,
    NoOne,           \* the zero address, the owner of a token not minted
    LowerBlock,      \* the values ETICKET_BLOCKCHAIN_LOWER_BLOCK may have
    MaxBlock,        \* bound on the number of blocks
    MaxFaults        \* bound on the number of failures

Unset == -1          \* the default of the lower block

ASSUME TrackerAssumption ==
    /\ NoOne \notin Address
    /\ LowerBlock \subseteq {Unset, 1}
    /\ MaxBlock \in Nat
    /\ MaxFaults \in Nat

VARIABLES
    chain,       \* the token each block transfers, and the owners after it
    \* the database
    table,       \* nft_ticket.owner, NoOne where there is no row
    logged,      \* upper_block of the latest row of block_sync_log, 0 if there is none
    \* the tracker
    lowerBlock,  \* its configuration
    stage,       \* where it is
    lower,       \* the first block of its range ...
    upper,       \* ... and the last
    read,        \* the last block whose event the iterator has delivered
    fail,        \* the iterator's error
    events,      \* first sender and last recipient of each token it has seen moving
    draft,       \* nft_ticket as its transaction sees it
    todo,        \* tokens the transaction has still to write
    refused,     \* tokens whose row it found to be there already
    \* history
    warned,      \* tokens whose latest change was refused as a duplicate
    faults

iterator == <<upper, read, fail, events>>
tx == <<draft, todo, refused>>
vars == <<chain, table, logged, lowerBlock, stage, lower, iterator, tx, warned, faults>>

Owners == [Token -> Address \union {NoOne}]
Event == [from : Address \union {NoOne}, to : Address]
Stage == {"down", "idle", "filtering", "filtered", "syncing", "committing"}

NoEvents == [t \in {} |-> NoOne]

OwnersAt(n) == IF n = 0 THEN [t \in Token |-> NoOne] ELSE chain[n].owners

Init ==
    /\ chain = <<>>
    /\ table = [t \in Token |-> NoOne]
    /\ logged = 0
    /\ lowerBlock \in LowerBlock
    /\ stage = "down"
    /\ lower = 1 /\ upper = 0 /\ read = 0 /\ fail = FALSE /\ events = NoEvents
    /\ draft = table /\ todo = {} /\ refused = {}
    /\ warned = {} /\ faults = 0

-----------------------------------------------------------------------------
\* A ticket is minted or changes hands.
NewBlock(t, a) ==
    /\ Len(chain) < MaxBlock
    /\ chain' = Append(chain, [token |-> t, owners |-> [OwnersAt(Len(chain)) EXCEPT ![t] = a]])
    /\ UNCHANGED <<table, logged, lowerBlock, stage, lower, iterator, tx, warned, faults>>

-----------------------------------------------------------------------------
(* Reading a range of blocks.                                               *)

\* The upper block of the row of block_sync_log with the highest id.
LatestSyncLog == logged

\* Assumed: it starts behind the range logged last, or where it is configured to, and a
\* range reaches up to the head of the chain.
FirstBlock == IF lowerBlock = Unset THEN LatestSyncLog + 1 ELSE lowerBlock
RangeEnd == Len(chain)

\* The process starts.
Start ==
    /\ stage = "down"
    /\ stage' = "idle"
    /\ lower' = FirstBlock
    /\ UNCHANGED <<chain, table, logged, lowerBlock, iterator, tx, warned, faults>>

\* An iterator over the blocks of a range.
FilterTransfer ==
    /\ stage = "idle"
    /\ lower <= RangeEnd
    /\ stage' = "filtering"
    /\ upper' = RangeEnd
    /\ read' = lower - 1
    /\ fail' = FALSE
    /\ events' = NoEvents
    /\ UNCHANGED <<chain, table, logged, lowerBlock, lower, tx, warned, faults>>

\* Assumed: what has become known of a token's moves, and one more of them.
Collect(n) ==
    LET t == chain[n].token
        from == IF t \in DOMAIN events THEN events[t].from ELSE OwnersAt(n - 1)[t]
    IN  [u \in DOMAIN events \union {t} |->
            IF u = t THEN [from |-> from, to |-> OwnersAt(n)[t]] ELSE events[u]]

\* Next returns true with the event of the next block.
NextTrue ==
    /\ stage = "filtering"
    /\ read < upper
    /\ read' = read + 1
    /\ events' = Collect(read + 1)
    /\ UNCHANGED <<chain, table, logged, lowerBlock, stage, lower, upper, fail, tx, warned,
                   faults>>

\* Next returns false: the subscription ended, which it does after its last log, or a
\* log could not be unpacked.
NextFalse ==
    /\ stage = "filtering"
    /\ \/ read = upper /\ UNCHANGED <<fail, faults>>
       \/ /\ read < upper /\ faults < MaxFaults
          /\ fail' = TRUE
          /\ faults' = faults + 1
    /\ stage' = "filtered"
    /\ UNCHANGED <<chain, table, logged, lowerBlock, lower, upper, read, events, tx, warned>>

Error == fail

\* Assumed: the error is asked for, and SyncNfts is called with whole ranges only ...
IsWholeRange == stage = "filtered" /\ ~Error

\* ... and a range that failed is given up, and read again.
GiveUp ==
    /\ stage = "filtered" /\ Error
    /\ stage' = "idle"
    /\ UNCHANGED <<chain, table, logged, lowerBlock, lower, iterator, tx, warned, faults>>

-----------------------------------------------------------------------------
(* SyncNftsService.SyncNfts.                                                *)

BeginTx ==
    /\ IsWholeRange
    /\ stage' = "syncing"
    /\ draft' = table
    /\ todo' = DOMAIN events
    /\ refused' = {}
    /\ UNCHANGED <<chain, table, logged, lowerBlock, lower, iterator, warned, faults>>

\* Variant: the wrong end of the event is looked at.
IsNewTokenByRecipient(e) == e.to = NoOne

IsNewToken(e) == e.from = NoOne

\* INSERT; a row that is there already stays as it is, with a warning in the log.
CreateNftTicket(t) ==
    IF draft[t] = NoOne
    THEN draft' = [draft EXCEPT ![t] = events[t].to] /\ UNCHANGED refused
    ELSE refused' = refused \union {t} /\ UNCHANGED draft

\* Variant: the row gets the sender.
UpdateToSender(t) ==
    /\ draft' = IF draft[t] = NoOne THEN draft ELSE [draft EXCEPT ![t] = events[t].from]
    /\ UNCHANGED refused

\* UPDATE, which does nothing if there is no row.
UpdateNftTicket(t) ==
    /\ draft' = IF draft[t] = NoOne THEN draft ELSE [draft EXCEPT ![t] = events[t].to]
    /\ UNCHANGED refused

\* Variant: the queries are not those of the transaction, and commit by themselves.
WriteTokenAtOnce(t) ==
    /\ stage = "syncing"
    /\ t \in todo
    /\ todo' = todo \ {t}
    /\ IF IsNewToken(events[t]) THEN CreateNftTicket(t) ELSE UpdateNftTicket(t)
    /\ table' = draft'
    /\ UNCHANGED <<chain, logged, lowerBlock, stage, lower, iterator, warned, faults>>

\* The entries of the map come in any order.
WriteToken(t) ==
    /\ stage = "syncing"
    /\ t \in todo
    /\ todo' = todo \ {t}
    /\ IF IsNewToken(events[t]) THEN CreateNftTicket(t) ELSE UpdateNftTicket(t)
    /\ UNCHANGED <<chain, table, logged, lowerBlock, stage, lower, iterator, warned, faults>>

\* Variant: the row is written by itself.
CreateSyncLogAtOnce ==
    /\ stage = "syncing" /\ todo = {}
    /\ stage' = "committing"
    /\ logged' = upper
    /\ UNCHANGED <<chain, table, lowerBlock, lower, iterator, tx, warned, faults>>

\* The row becomes visible when the transaction commits.
CreateSyncLog ==
    /\ stage = "syncing" /\ todo = {}
    /\ stage' = "committing"
    /\ UNCHANGED <<chain, table, logged, lowerBlock, lower, iterator, tx, warned, faults>>

\* Variant: the log is forgotten.
CommittedWithoutLog ==
    /\ table' = draft
    /\ UNCHANGED logged
    /\ warned' = (warned \ DOMAIN events) \union refused

Committed ==
    /\ table' = draft
    /\ logged' = upper
    /\ warned' = (warned \ DOMAIN events) \union refused

Commit ==
    /\ stage = "committing"
    /\ Committed
    /\ lower' = upper + 1
    /\ stage' = "idle"
    /\ UNCHANGED <<chain, lowerBlock, iterator, tx, faults>>

-----------------------------------------------------------------------------
(* Failures.                                                                *)

\* An error is returned, and the deferred Rollback undoes what was written; if it is the
\* answer to the commit that got lost, there is nothing left to undo.
SyncFails ==
    /\ stage \in {"syncing", "committing"}
    /\ faults < MaxFaults
    /\ faults' = faults + 1
    /\ stage' = "idle"
    /\ \/ UNCHANGED <<table, logged, warned>>
       \/ stage = "committing" /\ Committed
    /\ UNCHANGED <<chain, lowerBlock, lower, iterator, tx>>

\* The process stops; the database undoes its transaction.
Crash ==
    /\ stage # "down"
    /\ faults < MaxFaults
    /\ faults' = faults + 1
    /\ stage' = "down"
    /\ UNCHANGED <<chain, table, logged, lowerBlock, lower, iterator, tx, warned>>

-----------------------------------------------------------------------------
Next ==
    \/ \E t \in Token : \E a \in Address : NewBlock(t, a)
    \/ Start \/ FilterTransfer \/ NextTrue \/ NextFalse
    \/ GiveUp
    \/ BeginTx
    \/ \E t \in Token : WriteToken(t)
    \/ CreateSyncLog
    \/ Commit
    \/ SyncFails
    \/ Crash

Spec == Init /\ [][Next]_vars
-----------------------------------------------------------------------------
TypeOK ==
    /\ chain \in Seq([token : Token, owners : Owners])
    /\ table \in Owners
    /\ logged \in 0..Len(chain)
    /\ lowerBlock \in LowerBlock
    /\ stage \in Stage
    /\ lower \in 1..logged + 1
    /\ upper \in 0..Len(chain)
    /\ read \in 0..Len(chain)
    /\ fail \in BOOLEAN
    /\ \E seen \in SUBSET Token : events \in [seen -> Event]
    /\ draft \in Owners
    /\ todo \subseteq Token
    /\ refused \subseteq Token
    /\ stage = "syncing" => todo \union refused \subseteq DOMAIN events
    /\ warned \subseteq Token
    /\ faults \in Nat

\* A row is refused as a duplicate only in a range that reaches back into what is logged:
\* rows and log come together or not at all, whatever failed, so a new range never meets
\* rows of its own (sync_nfts_service.go 27-33, 49, 68-76).
DuplicatesAreRepeats ==
    stage \in {"syncing", "committing"} /\ refused # {} => lower <= logged

\* The table has the owners as of the last block logged, whatever failed and however often
\* a range was read, but for tokens whose row was refused as a duplicate
\* (sync_nfts_service.go 26-76).
TableMatchesChain ==
    \A t \in Token \ warned : table[t] = OwnersAt(logged)[t]

\* Also with duplicates every token has its row and nothing else has one, and the row
\* names somebody who has owned the token.
TableIsComplete ==
    \A t \in Token :
        /\ table[t] = NoOne <=> OwnersAt(logged)[t] = NoOne
        /\ \E n \in 0..logged : table[t] = OwnersAt(n)[t]

\* No range that was read late or again overwrites a newer row: the log only advances, and
\* a row that changes, also one that missed changes before, gets the owner as of the block
\* then logged (sync_nfts_service.go 26-76).
RowsAreCurrent ==
    [][/\ logged <= logged'
       /\ \A t \in Token : table'[t] # table[t] => table'[t] = OwnersAt(logged')[t]]_vars
=============================================================================
