--------------------------- MODULE TrackerProofs ---------------------------
(***************************************************************************)
(* Proofs about Tracker, for all sets of tokens and owners, all bounds and *)
(* any number of failures within them.                                     *)
(***************************************************************************)
EXTENDS Tracker, TLAPS

\* A block changes the owner of its token, to somebody, and a token once minted stays so.
ChainInv ==
    /\ \A n \in 0..Len(chain) : OwnersAt(n) \in Owners
    /\ \A n \in 1..Len(chain) :
          /\ chain[n].token \in Token
          /\ OwnersAt(n)[chain[n].token] \in Address
          /\ \A t \in Token \ {chain[n].token} : OwnersAt(n)[t] = OwnersAt(n - 1)[t]
    /\ \A m, n \in 0..Len(chain), t \in Token :
          m <= n /\ OwnersAt(n)[t] = NoOne => OwnersAt(m)[t] = NoOne

HasRange == stage \in {"filtering", "filtered", "syncing", "committing"}

\* The events collected are the moves up to the block read.
ReadInv ==
    HasRange =>
        /\ lower - 1 <= read /\ read <= upper /\ logged <= upper
        /\ stage = "filtered" /\ ~fail => read = upper
        /\ stage \in {"syncing", "committing"} => read = upper
        /\ \A t \in Token :
              IF t \in DOMAIN events
              THEN events[t] = [from |-> OwnersAt(lower - 1)[t], to |-> OwnersAt(read)[t]]
              ELSE \A n \in lower - 1..read : OwnersAt(n)[t] = OwnersAt(lower - 1)[t]

\* What the transaction has written of a token.
Written(t) ==
    IF events[t].from = NoOne
    THEN IF table[t] = NoOne THEN draft[t] = events[t].to /\ t \notin refused
                             ELSE draft[t] = table[t] /\ t \in refused
    ELSE /\ draft[t] = IF table[t] = NoOne THEN NoOne ELSE events[t].to
         /\ t \notin refused

\* Inside the transaction, tokens are as written or as before.
DraftInv ==
    stage \in {"syncing", "committing"} =>
        /\ refused \subseteq DOMAIN events
        /\ \A t \in Token :
              IF t \in DOMAIN events \ todo THEN Written(t)
                                            ELSE draft[t] = table[t] /\ t \notin refused
        /\ stage = "committing" => todo = {}

TableInv == TableMatchesChain /\ TableIsComplete

-----------------------------------------------------------------------------
(* The chain.                                                               *)

\* A new block leaves the past alone.
LEMMA PastStays ==
    ASSUME TypeOK, NEW t \in Token, NEW a \in Address, NewBlock(t, a),
           NEW last \in Nat, last = Len(chain)
    PROVE  /\ Len(chain') = last + 1
           /\ \A n \in 0..last : OwnersAt(n)' = OwnersAt(n)
           /\ \A n \in 1..last : chain'[n] = chain[n]
           /\ chain'[last + 1].token = t
           /\ OwnersAt(last + 1)' = [OwnersAt(last) EXCEPT ![t] = a]
<1>1. chain \in Seq([token : Token, owners : Owners])
  BY DEF TypeOK
<1> DEFINE block == [token |-> t, owners |-> [OwnersAt(last) EXCEPT ![t] = a]]
<1>2. chain' = Append(chain, block)
  BY DEF NewBlock
<1>3. /\ Len(Append(chain, block)) = last + 1
      /\ \A n \in 1..last : Append(chain, block)[n] = chain[n]
      /\ Append(chain, block)[last + 1] = block
  <2> HIDE DEF block
  <2> QED
    BY <1>1
<1>4. /\ block.token = t
      /\ block.owners = [OwnersAt(last) EXCEPT ![t] = a]
  OBVIOUS
<1> HIDE DEF block
<1>5. /\ Len(chain') = last + 1
      /\ \A n \in 1..last : chain'[n] = chain[n]
      /\ chain'[last + 1] = block
  BY <1>2, <1>3
<1>6. \A n \in 0..last : OwnersAt(n)' = OwnersAt(n)
  <2> TAKE n \in 0..last
  <2>1. CASE n = 0
    BY <2>1 DEF OwnersAt
  <2>2. CASE n \in 1..last
    BY <1>5, <2>2 DEF OwnersAt
  <2> QED
    BY <2>1, <2>2
<1>7. OwnersAt(last + 1)' = chain'[last + 1].owners
  BY DEF OwnersAt
<1> QED
  BY <1>4, <1>5, <1>6, <1>7

\* Every step keeps the chain consistent.
LEMMA StepKeepsChain ==
    ASSUME TypeOK, ChainInv, [Next]_vars
    PROVE  ChainInv'
<1>1. CASE UNCHANGED chain
  BY <1>1 DEF ChainInv, OwnersAt
<1>2. ASSUME NEW t \in Token, NEW a \in Address, NewBlock(t, a) PROVE ChainInv'
  <2>0. PICK last \in Nat : last = Len(chain)
    BY DEF TypeOK
  <2>1. /\ Len(chain') = last + 1
        /\ \A n \in 0..last : OwnersAt(n)' = OwnersAt(n)
        /\ \A n \in 1..last : chain'[n] = chain[n]
        /\ chain'[last + 1].token = t
        /\ OwnersAt(last + 1)' = [OwnersAt(last) EXCEPT ![t] = a]
    BY <1>2, <2>0, PastStays
  <2>2. OwnersAt(last) \in [Token -> Address \union {NoOne}]
    BY <2>0, <2>1 DEF ChainInv, Owners
  <2>3. OwnersAt(last + 1)' \in [Token -> Address \union {NoOne}]
    BY <2>1, <2>2
  <2>4. \A n \in 0..Len(chain') : OwnersAt(n)' \in Owners
    <3> SUFFICES ASSUME NEW n \in 0..Len(chain') PROVE OwnersAt(n)' \in Owners
      OBVIOUS
    <3>1. n \in 0..last \/ n = last + 1
      BY <2>1
    <3>2. CASE n \in 0..last
      BY <2>0, <2>1, <3>2 DEF ChainInv
    <3>3. CASE n = last + 1
      BY <2>3, <3>3 DEF Owners
    <3> QED
      BY <3>1, <3>2, <3>3
  <2>5. ASSUME NEW n \in 1..Len(chain')
        PROVE  /\ chain'[n].token \in Token
               /\ OwnersAt(n)'[chain'[n].token] \in Address
               /\ \A u \in Token \ {chain'[n].token} : OwnersAt(n)'[u] = OwnersAt(n - 1)'[u]
    <3>1. n \in 1..last \/ n = last + 1
      BY <2>1
    <3>2. CASE n \in 1..last
      <4>1. n \in 0..last /\ n - 1 \in 0..last
        BY <2>1, <3>2
      <4>2. OwnersAt(n)' = OwnersAt(n) /\ OwnersAt(n - 1)' = OwnersAt(n - 1)
        BY <2>1, <4>1
      <4> QED
        BY <2>0, <2>1, <3>2, <4>2 DEF ChainInv
    <3>3. CASE n = last + 1
      <4>1. n - 1 = last /\ last \in 0..last
        BY <2>1, <3>3
      <4>2. OwnersAt(n - 1)' = OwnersAt(last)
        BY <2>1, <4>1
      <4> QED
        BY <2>1, <2>2, <3>3, <4>2
    <3> QED
      BY <3>1, <3>2, <3>3
  <2>6. ASSUME NEW m \in 0..Len(chain'), NEW n \in 0..Len(chain'), NEW u \in Token,
               m <= n, OwnersAt(n)'[u] = NoOne
        PROVE  OwnersAt(m)'[u] = NoOne
    <3>1. CASE n \in 0..last
      <4>1. m \in 0..last
        BY <2>1, <2>6, <3>1
      <4> QED
        BY <2>0, <2>1, <2>6, <3>1, <4>1 DEF ChainInv
    <3>2. CASE n = last + 1
      <4>1. u # t /\ OwnersAt(last)[u] = NoOne
        BY <2>1, <2>2, <2>6, <3>2, TrackerAssumption
      <4>2. CASE m \in 0..last
        <5>1. last \in 0..last /\ m <= last
          BY <2>1, <4>2
        <5> QED
          BY <2>0, <2>1, <4>1, <4>2, <5>1 DEF ChainInv
      <4>3. CASE m = last + 1
        BY <2>6, <3>2, <4>3
      <4> QED
        BY <2>1, <4>2, <4>3
    <3> QED
      BY <2>1, <3>1, <3>2
  <2> QED
    BY <2>0, <2>4, <2>5, <2>6 DEF ChainInv
<1> QED
  BY <1>1, <1>2
     DEF Next, vars, Start, FilterTransfer, NextTrue, NextFalse, GiveUp, BeginTx,
         WriteToken, CreateSyncLog, Commit, SyncFails, Crash

-----------------------------------------------------------------------------
(* Reading a range.                                                         *)

\* The event of a block that is added to those collected.
LEMMA CollectedEvent ==
    ASSUME TypeOK, ChainInv, NEW n \in 1..Len(chain)
    PROVE  /\ n - 1 \in 0..Len(chain) /\ n \in 0..Len(chain)
           /\ chain[n].token \in Token
           /\ OwnersAt(n - 1) \in Owners /\ OwnersAt(n) \in Owners
           /\ OwnersAt(n)[chain[n].token] \in Address
           /\ \A t \in Token \ {chain[n].token} : OwnersAt(n)[t] = OwnersAt(n - 1)[t]
<1>1. Len(chain) \in Nat
  BY DEF TypeOK
<1>2. n - 1 \in 0..Len(chain) /\ n \in 0..Len(chain)
  BY <1>1
<1> QED
  BY <1>2 DEF ChainInv

\* What Collect makes of the events.
LEMMA CollectAdds ==
    ASSUME TypeOK, ChainInv, NEW n \in 1..Len(chain)
    PROVE  /\ DOMAIN Collect(n) = DOMAIN events \union {chain[n].token}
           /\ \A t \in DOMAIN events \ {chain[n].token} : Collect(n)[t] = events[t]
           /\ Collect(n)[chain[n].token] =
                [from |-> IF chain[n].token \in DOMAIN events
                          THEN events[chain[n].token].from
                          ELSE OwnersAt(n - 1)[chain[n].token],
                 to   |-> OwnersAt(n)[chain[n].token]]
           /\ \E seen \in SUBSET Token : Collect(n) \in [seen -> Event]
<1> DEFINE t == chain[n].token
           from == IF t \in DOMAIN events THEN events[t].from ELSE OwnersAt(n - 1)[t]
<1>1. Collect(n) = [u \in DOMAIN events \union {t} |->
                        IF u = t THEN [from |-> from, to |-> OwnersAt(n)[t]] ELSE events[u]]
  BY DEF Collect
<1>2. /\ t \in Token /\ OwnersAt(n)[t] \in Address
      /\ OwnersAt(n - 1) \in [Token -> Address \union {NoOne}]
  BY CollectedEvent DEF Owners
<1>3. PICK seen \in SUBSET Token : events \in [seen -> Event]
  BY DEF TypeOK
<1>4. from \in Address \union {NoOne}
  BY <1>2, <1>3 DEF Event
<1> HIDE DEF t, from
<1>5. [from |-> from, to |-> OwnersAt(n)[t]] \in Event
  BY <1>2, <1>4 DEF Event
<1>6. Collect(n) \in [seen \union {t} -> Event]
  BY <1>1, <1>3, <1>5
<1>7. seen \union {t} \in SUBSET Token
  BY <1>2
<1>8. \E all \in SUBSET Token : Collect(n) \in [all -> Event]
  BY <1>6, <1>7
<1>9. /\ DOMAIN Collect(n) = DOMAIN events \union {t}
      /\ \A u \in DOMAIN events \ {t} : Collect(n)[u] = events[u]
      /\ Collect(n)[t] = [from |-> from, to |-> OwnersAt(n)[t]]
  BY <1>1
<1> QED
  BY <1>8, <1>9 DEF t, from

\* Every step keeps the types; that the range ends on the chain and behind the last one
\* logged comes from how it was read.
LEMMA StepKeepsTypes ==
    ASSUME TypeOK, ChainInv, ReadInv, [Next]_vars
    PROVE  TypeOK'
<1>0. /\ Len(chain) \in Nat /\ logged \in 0..Len(chain) /\ lower \in 1..logged + 1
      /\ upper \in 0..Len(chain)
  BY DEF TypeOK
<1>1. CASE UNCHANGED vars
  BY <1>1 DEF TypeOK, vars, iterator, tx
<1>2. ASSUME NEW t \in Token, NEW a \in Address, NewBlock(t, a) PROVE TypeOK'
  <2>1. UNCHANGED <<table, logged, lowerBlock, stage, lower, upper, read, fail, events, draft,
                    todo, refused, warned, faults>>
    BY <1>2 DEF NewBlock, iterator, tx
  <2>2. OwnersAt(Len(chain)) \in Owners
    BY <1>0 DEF ChainInv
  <2>3. [OwnersAt(Len(chain)) EXCEPT ![t] = a] \in Owners
    BY <2>2 DEF Owners
  <2> DEFINE block == [token |-> t, owners |-> [OwnersAt(Len(chain)) EXCEPT ![t] = a]]
  <2>4. block \in [token : Token, owners : Owners]
    BY <2>3
  <2>5. chain' = Append(chain, block)
    BY <1>2 DEF NewBlock
  <2> HIDE DEF block
  <2>6. chain' \in Seq([token : Token, owners : Owners]) /\ Len(chain') = Len(chain) + 1
    BY <2>4, <2>5 DEF TypeOK
  <2> QED
    BY <1>0, <2>1, <2>6 DEF TypeOK
<1>3. CASE Start
  BY <1>0, <1>3, TrackerAssumption
     DEF TypeOK, Start, FirstBlock, LatestSyncLog, Stage, iterator, tx, Unset
<1>4. CASE FilterTransfer
  <2>1. NoEvents \in [{} -> Event]
    BY DEF NoEvents
  <2>2. \E seen \in SUBSET Token : NoEvents \in [seen -> Event]
    BY <2>1
  <2>3. /\ UNCHANGED <<chain, table, logged, lowerBlock, lower, draft, todo, refused, warned,
                       faults>>
        /\ lower <= Len(chain) /\ upper' = Len(chain) /\ read' = lower - 1
        /\ fail' = FALSE /\ stage' = "filtering" /\ events' = NoEvents
    BY <1>4 DEF FilterTransfer, RangeEnd, tx
  <2>4. \E seen \in SUBSET Token : events' \in [seen -> Event]
    BY <2>2, <2>3
  <2>5. upper' \in 0..Len(chain) /\ read' \in 0..Len(chain) /\ stage' \in Stage
    BY <1>0, <2>3 DEF Stage
  <2>6. stage' # "syncing" /\ fail' \in BOOLEAN
    BY <2>3
  <2>7. UNCHANGED <<chain, table, logged, lowerBlock, lower, draft, todo, refused, warned,
                    faults>>
    BY <2>3
  <2> QED
    BY <2>4, <2>5, <2>6, <2>7 DEF TypeOK
<1>5. CASE NextTrue
  <2>1. read + 1 \in 1..Len(chain) /\ read + 1 \in 0..Len(chain)
    BY <1>0, <1>5 DEF NextTrue, TypeOK
  <2>2. \E seen \in SUBSET Token : Collect(read + 1) \in [seen -> Event]
    BY <2>1, CollectAdds
  <2>3. /\ events' = Collect(read + 1) /\ read' = read + 1 /\ stage' = stage
        /\ stage = "filtering"
        /\ UNCHANGED <<chain, table, logged, lowerBlock, lower, upper, fail, draft, todo,
                       refused, warned, faults>>
    BY <1>5 DEF NextTrue, tx
  <2>4. \E seen \in SUBSET Token : events' \in [seen -> Event]
    BY <2>2, <2>3
  <2>5. read' \in 0..Len(chain) /\ stage' # "syncing"
    BY <2>1, <2>3
  <2>6. UNCHANGED <<chain, table, logged, lowerBlock, stage, lower, upper, fail, draft, todo,
                    refused, warned, faults>>
    BY <2>3
  <2> QED
    BY <2>4, <2>5, <2>6 DEF TypeOK
<1>6. CASE NextFalse
  <2>1. fail' \in BOOLEAN /\ faults' \in Nat
    <3>1. CASE UNCHANGED <<fail, faults>>
      BY <3>1 DEF TypeOK
    <3>2. CASE fail' = TRUE /\ faults' = faults + 1
      BY <3>2 DEF TypeOK
    <3> QED
      BY <1>6, <3>1, <3>2 DEF NextFalse
  <2>2. /\ UNCHANGED <<chain, table, logged, lowerBlock, lower, upper, read, events, draft, todo,
                       refused, warned>>
        /\ stage' = "filtered"
    BY <1>6 DEF NextFalse, tx
  <2> QED
    BY <2>1, <2>2 DEF TypeOK, Stage
<1>7. CASE BeginTx
  <2>1. DOMAIN events \subseteq Token
    BY DEF TypeOK
  <2> QED
    BY <1>7, <2>1 DEF TypeOK, BeginTx, IsWholeRange, Stage, iterator, tx
<1>8. ASSUME NEW t \in Token, WriteToken(t) PROVE TypeOK'
  <2>1. PICK seen \in SUBSET Token : events \in [seen -> Event]
    BY DEF TypeOK
  <2>2. stage = "syncing" /\ t \in todo /\ t \in DOMAIN events
    BY <1>8 DEF WriteToken, TypeOK
  <2>3. events[t].to \in Address
    BY <2>1, <2>2 DEF Event
  <2>4. /\ draft' \in Owners
        /\ refused' \subseteq refused \union {t}
    BY <1>8, <2>3 DEF WriteToken, CreateNftTicket, UpdateNftTicket, TypeOK, Owners
  <2> QED
    BY <1>8, <2>2, <2>4 DEF TypeOK, WriteToken, iterator
<1>9. CASE CreateSyncLog
  BY <1>9 DEF TypeOK, CreateSyncLog, Stage, iterator, tx
<1>10. ASSUME Committed, stage = "committing"
       PROVE  /\ table' \in Owners /\ logged' \in 0..Len(chain) /\ logged' = upper
              /\ logged <= logged' /\ warned' \subseteq Token
  BY <1>0, <1>10 DEF Committed, TypeOK, ReadInv, HasRange
<1>11. CASE Commit
  <2>1. Committed /\ stage = "committing"
    BY <1>11 DEF Commit
  <2> QED
    BY <1>0, <1>10, <1>11, <2>1 DEF TypeOK, Commit, Stage, iterator, tx
<1>12. CASE SyncFails
  <2>1. CASE UNCHANGED <<table, logged, warned>>
    BY <1>12, <2>1 DEF TypeOK, SyncFails, Stage, iterator, tx
  <2>2. CASE stage = "committing" /\ Committed
    BY <1>0, <1>10, <1>12, <2>2 DEF TypeOK, SyncFails, Stage, iterator, tx
  <2> QED
    BY <1>12, <2>1, <2>2 DEF SyncFails
<1>13. CASE Crash
  BY <1>13 DEF TypeOK, Crash, Stage, iterator, tx
<1>14. CASE GiveUp
  BY <1>14 DEF TypeOK, GiveUp, Stage, iterator, tx
<1> QED
  BY <1>1, <1>2, <1>3, <1>4, <1>5, <1>6, <1>7, <1>8, <1>9, <1>11, <1>12, <1>13, <1>14 DEF Next

\* Every step keeps the events collected in line with the chain.
LEMMA StepKeepsRead ==
    ASSUME TypeOK, ChainInv, ReadInv, [Next]_vars
    PROVE  ReadInv'
<1>0. /\ Len(chain) \in Nat /\ logged \in 0..Len(chain) /\ lower \in 1..logged + 1
      /\ upper \in 0..Len(chain) /\ read \in 0..Len(chain)
  BY DEF TypeOK
<1>1. CASE UNCHANGED vars
  BY <1>1 DEF ReadInv, HasRange, OwnersAt, vars, iterator
<1>2. ASSUME NEW t \in Token, NEW a \in Address, NewBlock(t, a) PROVE ReadInv'
  <2>1. UNCHANGED <<logged, stage, lower, upper, read, fail, events>>
    BY <1>2 DEF NewBlock, iterator
  <2>2. \A n \in 0..Len(chain) : OwnersAt(n)' = OwnersAt(n)
    BY <1>0, <1>2, PastStays
  <2>3. HasRange => lower - 1 <= read
    BY DEF ReadInv
  <2>4. HasRange => /\ OwnersAt(lower - 1)' = OwnersAt(lower - 1)
                    /\ OwnersAt(read)' = OwnersAt(read)
                    /\ \A n \in lower - 1..read : OwnersAt(n)' = OwnersAt(n)
    <3>1. /\ lower - 1 \in 0..Len(chain) /\ read \in 0..Len(chain)
          /\ \A n \in lower - 1..read : n \in 0..Len(chain)
      BY <1>0
    <3>2. \A n \in lower - 1..read : OwnersAt(n)' = OwnersAt(n)
      BY <2>2, <3>1
    <3>3. HasRange => lower - 1 \in lower - 1..read /\ read \in lower - 1..read
      BY <1>0, <2>3
    <3>4. OwnersAt(lower - 1)' = OwnersAt(lower - 1)
      BY <2>1, <2>2, <3>1 DEF OwnersAt
    <3>5. OwnersAt(read)' = OwnersAt(read)
      BY <2>1, <2>2, <3>1 DEF OwnersAt
    <3> QED
      BY <3>2, <3>4, <3>5
  <2> QED
    BY <2>1, <2>4 DEF ReadInv, HasRange
<1>3. CASE FilterTransfer
  <2>1. /\ upper' = Len(chain) /\ read' = lower - 1 /\ fail' = FALSE
        /\ events' = NoEvents /\ stage' = "filtering"
        /\ lower <= Len(chain)
        /\ UNCHANGED <<chain, lower, logged>>
    BY <1>3 DEF FilterTransfer, RangeEnd
  <2>2. DOMAIN events' = {}
    BY <2>1 DEF NoEvents
  <2>3. \A n \in lower - 1..lower - 1 : n = lower - 1
    BY <1>0
  <2> QED
    BY <1>0, <2>1, <2>2, <2>3 DEF ReadInv, HasRange, OwnersAt
<1>4. CASE NextTrue
  <2>1. /\ stage = "filtering" /\ read < upper
        /\ events' = Collect(read + 1) /\ read' = read + 1 /\ stage' = stage
        /\ UNCHANGED <<chain, logged, lower, upper>>
    BY <1>4 DEF NextTrue
  <2>2. PICK n \in Nat : n = read + 1
    BY <1>0
  <2>3. n \in 1..Len(chain) /\ n - 1 = read /\ read' = n
    BY <1>0, <2>1, <2>2
  <2>4. /\ chain[n].token \in Token
        /\ \A t \in Token \ {chain[n].token} : OwnersAt(n)[t] = OwnersAt(read)[t]
    BY <2>3, CollectedEvent
  <2>5. /\ DOMAIN events' = DOMAIN events \union {chain[n].token}
        /\ \A t \in DOMAIN events \ {chain[n].token} : events'[t] = events[t]
        /\ events'[chain[n].token] =
                [from |-> IF chain[n].token \in DOMAIN events
                          THEN events[chain[n].token].from
                          ELSE OwnersAt(read)[chain[n].token],
                 to   |-> OwnersAt(n)[chain[n].token]]
    BY <2>1, <2>2, <2>3, CollectAdds
  <2>6. /\ lower - 1 <= read /\ logged <= upper
        /\ \A t \in Token :
              IF t \in DOMAIN events
              THEN events[t] = [from |-> OwnersAt(lower - 1)[t], to |-> OwnersAt(read)[t]]
              ELSE \A m \in lower - 1..read : OwnersAt(m)[t] = OwnersAt(lower - 1)[t]
    BY <2>1 DEF ReadInv, HasRange
  <2>7. \A m \in Int : OwnersAt(m)' = OwnersAt(m)
    BY <2>1 DEF OwnersAt
  <2>8. OwnersAt(lower - 1)' = OwnersAt(lower - 1) /\ OwnersAt(read)' = OwnersAt(n)
    BY <2>1, <2>3 DEF OwnersAt
  <2>9. read \in lower - 1..read
    BY <1>0, <2>6
  <2>10. ASSUME NEW t \in Token
         PROVE  IF t \in DOMAIN events'
                THEN events'[t] = [from |-> OwnersAt(lower - 1)[t], to |-> OwnersAt(n)[t]]
                ELSE \A m \in lower - 1..n : OwnersAt(m)[t] = OwnersAt(lower - 1)[t]
    <3>1. CASE t = chain[n].token
      <4>1. CASE t \in DOMAIN events
        <5>1. events[t].from = OwnersAt(lower - 1)[t]
          BY <2>6, <4>1
        <5> QED
          BY <2>5, <3>1, <4>1, <5>1
      <4>2. CASE t \notin DOMAIN events
        <5>1. OwnersAt(read)[t] = OwnersAt(lower - 1)[t]
          BY <2>6, <2>9, <4>2
        <5> QED
          BY <2>5, <3>1, <4>2, <5>1
      <4> QED
        BY <4>1, <4>2
    <3>2. CASE t # chain[n].token /\ t \in DOMAIN events
      BY <2>4, <2>5, <2>6, <3>2
    <3>3. CASE t # chain[n].token /\ t \notin DOMAIN events
      <4>1. OwnersAt(n)[t] = OwnersAt(read)[t]
        BY <2>4, <3>3
      <4>2. \A m \in lower - 1..n : m \in lower - 1..read \/ m = n
        BY <1>0, <2>2
      <4> QED
        BY <2>5, <2>6, <2>9, <3>3, <4>1, <4>2
    <3> QED
      BY <3>1, <3>2, <3>3
  <2>11. \A m \in lower' - 1..read' : m \in Int /\ m \in lower - 1..n
    BY <1>0, <2>1, <2>3
  <2>12. \A t \in Token :
            IF t \in DOMAIN events'
            THEN events'[t] = [from |-> OwnersAt(lower - 1)'[t], to |-> OwnersAt(read)'[t]]
            ELSE \A m \in lower' - 1..read' : OwnersAt(m)'[t] = OwnersAt(lower - 1)'[t]
    BY <2>7, <2>8, <2>10, <2>11
  <2>13. lower' - 1 <= read' /\ read' <= upper' /\ logged' <= upper'
    BY <1>0, <2>1, <2>6
  <2>14. stage' = "filtering"
    BY <2>1
  <2> QED
    BY <2>12, <2>13, <2>14 DEF ReadInv
<1>5. CASE NextFalse
  <2>1. /\ UNCHANGED <<chain, logged, lower, upper, read, events>>
        /\ stage = "filtering" /\ stage' = "filtered"
        /\ fail' \/ read = upper
    BY <1>5 DEF NextFalse
  <2> QED
    BY <2>1 DEF ReadInv, HasRange, OwnersAt
<1>6. CASE BeginTx
  <2>1. /\ UNCHANGED <<chain, logged, lower, upper, read, fail, events>>
        /\ stage = "filtered" /\ ~fail
        /\ stage' = "syncing"
    BY <1>6 DEF BeginTx, IsWholeRange, Error, iterator
  <2> QED
    BY <2>1 DEF ReadInv, HasRange, OwnersAt
<1>7. ASSUME NEW t \in Token, WriteToken(t) PROVE ReadInv'
  BY <1>7 DEF ReadInv, HasRange, OwnersAt, WriteToken, iterator
<1>8. CASE CreateSyncLog
  BY <1>8 DEF ReadInv, HasRange, OwnersAt, CreateSyncLog, iterator
<1>9. CASE Start \/ GiveUp \/ Commit \/ SyncFails \/ Crash
  BY <1>9 DEF ReadInv, HasRange, Start, GiveUp, Commit, SyncFails, Crash
<1> QED
  BY <1>1, <1>2, <1>3, <1>4, <1>5, <1>6, <1>7, <1>8, <1>9 DEF Next

-----------------------------------------------------------------------------
(* The transaction.                                                         *)

\* Every step keeps account of what the transaction has written.
LEMMA StepKeepsDraft ==
    ASSUME TypeOK, DraftInv, [Next]_vars
    PROVE  DraftInv'
<1>1. CASE UNCHANGED <<stage, table, events, draft, todo, refused>>
  BY <1>1 DEF DraftInv, Written
<1>2. CASE BeginTx
  <2>1. stage' = "syncing" /\ draft' = table /\ todo' = DOMAIN events /\ refused' = {}
    BY <1>2 DEF BeginTx
  <2>2. table' = table /\ events' = events
    BY <1>2 DEF BeginTx, iterator
  <2> QED
    BY <2>1, <2>2 DEF DraftInv
<1>3. ASSUME NEW t \in Token, WriteToken(t) PROVE DraftInv'
  <2>1. /\ stage = "syncing" /\ stage' = stage /\ t \in todo /\ todo' = todo \ {t}
        /\ t \in DOMAIN events /\ UNCHANGED <<table, events>>
        /\ draft \in [Token -> Address \union {NoOne}]
    BY <1>3 DEF WriteToken, iterator, TypeOK, Owners
  <2>2. draft[t] = table[t] /\ t \notin refused
    BY <2>1 DEF DraftInv
  <2>3. /\ \A u \in Token \ {t} : draft'[u] = draft[u] /\ (u \in refused' <=> u \in refused)
        /\ refused' \subseteq refused \union {t}
    BY <1>3, <2>1 DEF WriteToken, CreateNftTicket, UpdateNftTicket
  <2>4. Written(t)'
    <3>1. CASE IsNewToken(events[t])
      BY <1>3, <2>1, <2>2, <3>1 DEF WriteToken, CreateNftTicket, IsNewToken, Written
    <3>2. CASE ~IsNewToken(events[t])
      BY <1>3, <2>1, <2>2, <3>2 DEF WriteToken, UpdateNftTicket, IsNewToken, Written
    <3> QED
      BY <3>1, <3>2
  <2>5. ASSUME NEW u \in Token \ {t}
        PROVE  IF u \in DOMAIN events' \ todo' THEN Written(u)'
                                               ELSE draft'[u] = table'[u] /\ u \notin refused'
    BY <2>1, <2>3 DEF DraftInv, Written
  <2>6. t \in DOMAIN events' \ todo'
    BY <2>1
  <2>7. refused' \subseteq DOMAIN events'
    BY <2>1, <2>3 DEF DraftInv
  <2>8. stage' # "committing"
    BY <2>1
  <2> QED
    BY <2>4, <2>5, <2>6, <2>7, <2>8 DEF DraftInv
<1>4. CASE CreateSyncLog
  <2>1. /\ stage = "syncing" /\ stage' = "committing" /\ todo = {}
        /\ UNCHANGED <<table, events, draft, todo, refused>>
    BY <1>4 DEF CreateSyncLog, iterator, tx
  <2> QED
    BY <2>1 DEF DraftInv, Written
<1>5. CASE stage' \in {"down", "idle", "filtering", "filtered"}
  BY <1>5 DEF DraftInv
<1>6. CASE \/ Start \/ FilterTransfer \/ NextTrue \/ NextFalse \/ GiveUp
           \/ Commit \/ SyncFails \/ Crash
  BY <1>5, <1>6
     DEF Start, FilterTransfer, NextTrue, NextFalse, GiveUp, Commit, SyncFails, Crash
<1>7. ASSUME NEW t \in Token, NEW a \in Address, NewBlock(t, a) PROVE DraftInv'
  BY <1>1, <1>7 DEF NewBlock, iterator, tx
<1>8. CASE UNCHANGED vars
  BY <1>1, <1>8 DEF vars, iterator, tx
<1> QED
  BY <1>2, <1>3, <1>4, <1>6, <1>7, <1>8 DEF Next

\* What a transaction leaves behind when it commits.
LEMMA CommitKeepsTable ==
    ASSUME TypeOK, ChainInv, ReadInv, DraftInv, TableInv,
           stage = "committing", Committed, chain' = chain
    PROVE  TableInv'
<1>1. /\ Len(chain) \in Nat /\ logged \in 0..Len(chain) /\ lower \in 1..logged + 1
      /\ upper \in 0..Len(chain)
  BY DEF TypeOK
<1>2. /\ read = upper /\ logged <= upper
      /\ \A t \in Token :
              IF t \in DOMAIN events
              THEN events[t] = [from |-> OwnersAt(lower - 1)[t], to |-> OwnersAt(upper)[t]]
              ELSE \A n \in lower - 1..upper : OwnersAt(n)[t] = OwnersAt(lower - 1)[t]
  BY DEF ReadInv, HasRange
<1>3. /\ table' = draft /\ logged' = upper
      /\ warned' = (warned \ DOMAIN events) \union refused
  BY DEF Committed
<1>4. /\ refused \subseteq DOMAIN events /\ todo = {}
      /\ \A t \in Token : IF t \in DOMAIN events
                          THEN Written(t)
                          ELSE draft[t] = table[t] /\ t \notin refused
  BY DEF DraftInv
<1>5. \A t \in Token : IF t \notin warned' THEN draft[t] = OwnersAt(upper)[t] ELSE TRUE
  <2> SUFFICES ASSUME NEW t \in Token, t \notin warned'
               PROVE  draft[t] = OwnersAt(upper)[t]
    OBVIOUS
  <2>1. CASE t \notin DOMAIN events
    <3>1. upper \in lower - 1..upper /\ logged \in lower - 1..upper
      BY <1>1, <1>2
    <3>2. OwnersAt(upper)[t] = OwnersAt(logged)[t]
      BY <1>2, <2>1, <3>1
    <3>3. t \notin warned
      BY <1>3, <2>1
    <3> QED
      BY <1>4, <2>1, <3>2, <3>3 DEF TableInv, TableMatchesChain
  <2>2. CASE t \in DOMAIN events
    <3>1. events[t] = [from |-> OwnersAt(lower - 1)[t], to |-> OwnersAt(upper)[t]]
      BY <1>2, <2>2
    <3>2. t \notin refused
      BY <1>3
    <3>3. CASE events[t].from = NoOne
      BY <1>4, <2>2, <3>1, <3>2, <3>3 DEF Written
    <3>4. CASE events[t].from # NoOne
      <4>1. OwnersAt(lower - 1)[t] # NoOne
        BY <3>1, <3>4
      <4>2. lower - 1 \in 0..Len(chain) /\ lower - 1 <= logged
        BY <1>1
      <4>3. OwnersAt(logged)[t] # NoOne
        BY <1>1, <4>1, <4>2 DEF ChainInv
      <4>4. table[t] # NoOne
        BY <4>3 DEF TableInv, TableIsComplete
      <4> QED
        BY <1>4, <2>2, <3>1, <3>4, <4>4 DEF Written
    <3> QED
      BY <3>3, <3>4
  <2> QED
    BY <2>1, <2>2
<1>6. ASSUME NEW t \in Token
      PROVE  /\ draft[t] = NoOne <=> OwnersAt(upper)[t] = NoOne
             /\ \E n \in 0..upper : draft[t] = OwnersAt(n)[t]
  <2>1. CASE draft[t] = OwnersAt(upper)[t]
    <3>1. upper \in 0..upper
      BY <1>1
    <3> QED
      BY <2>1, <3>1
  <2>2. CASE draft[t] # OwnersAt(upper)[t]
    <3>1. t \in warned'
      BY <1>5, <2>2
    <3>2. draft[t] = table[t]
      <4>1. CASE t \notin DOMAIN events
        BY <1>4, <4>1
      <4>2. CASE t \in DOMAIN events
        <5>1. t \in refused
          BY <1>3, <3>1, <4>2
        <5> QED
          BY <1>4, <4>2, <5>1 DEF Written
      <4> QED
        BY <4>1, <4>2
    <3>3. /\ table[t] = NoOne <=> OwnersAt(logged)[t] = NoOne
          /\ \E n \in 0..logged : table[t] = OwnersAt(n)[t]
      BY DEF TableInv, TableIsComplete
    <3>4. \A n \in 0..logged : n \in 0..upper
      BY <1>1, <1>2
    <3>5. table[t] = NoOne <=> OwnersAt(upper)[t] = NoOne
      <4>1. CASE t \notin DOMAIN events
        <5>1. upper \in lower - 1..upper /\ logged \in lower - 1..upper
          BY <1>1, <1>2
        <5> QED
          BY <1>2, <3>3, <4>1, <5>1
      <4>2. CASE t \in DOMAIN events
        <5>1. t \in refused
          BY <1>3, <3>1, <4>2
        <5>2. table[t] # NoOne
          BY <1>4, <4>2, <5>1 DEF Written
        <5>3. OwnersAt(logged)[t] # NoOne
          BY <3>3, <5>2
        <5>4. OwnersAt(upper)[t] # NoOne
          BY <1>1, <1>2, <5>3 DEF ChainInv
        <5> QED
          BY <5>2, <5>4
      <4> QED
        BY <4>1, <4>2
    <3> QED
      BY <3>2, <3>3, <3>4, <3>5
  <2> QED
    BY <2>1, <2>2
<1>7. \A n \in Int : OwnersAt(n)' = OwnersAt(n)
  BY DEF OwnersAt
<1>8. OwnersAt(logged)' = OwnersAt(upper)
  BY <1>3 DEF OwnersAt
<1>9. \A n \in 0..logged' : n \in Int
  OBVIOUS
<1>10. TableMatchesChain'
  BY <1>3, <1>5, <1>8 DEF TableMatchesChain
<1>11. TableIsComplete'
  BY <1>3, <1>6, <1>7, <1>8, <1>9 DEF TableIsComplete
<1> QED
  BY <1>10, <1>11 DEF TableInv

\* Every step keeps the table in line with the chain.
LEMMA StepKeepsTable ==
    ASSUME TypeOK, ChainInv, ReadInv, DraftInv, TableInv, [Next]_vars
    PROVE  TableInv'
<1>1. CASE UNCHANGED <<chain, table, logged, warned>>
  BY <1>1 DEF TableInv, TableMatchesChain, TableIsComplete, OwnersAt
<1>2. CASE stage = "committing" /\ Committed /\ chain' = chain
  BY <1>2, CommitKeepsTable
<1>3. ASSUME NEW t \in Token, NEW a \in Address, NewBlock(t, a) PROVE TableInv'
  <2>1. UNCHANGED <<table, logged, warned>>
    BY <1>3 DEF NewBlock
  <2>2. /\ Len(chain) \in Nat /\ logged \in 0..Len(chain)
        /\ \A n \in 0..Len(chain) : OwnersAt(n)' = OwnersAt(n)
    <3>1. Len(chain) \in Nat /\ logged \in 0..Len(chain)
      BY DEF TypeOK
    <3> QED
      BY <1>3, <3>1, PastStays
  <2>3. OwnersAt(logged)' = OwnersAt(logged)
    BY <2>1, <2>2 DEF OwnersAt
  <2>4. \A n \in 0..logged : n \in 0..Len(chain)
    BY <2>2
  <2>5. TableMatchesChain'
    BY <2>1, <2>3 DEF TableInv, TableMatchesChain
  <2>6. TableIsComplete'
    BY <2>1, <2>2, <2>3, <2>4 DEF TableInv, TableIsComplete
  <2> QED
    BY <2>5, <2>6 DEF TableInv
<1> QED
  BY <1>1, <1>2, <1>3
     DEF Next, vars, iterator, tx, Start, FilterTransfer, NextTrue, NextFalse, GiveUp,
         BeginTx, WriteToken, CreateSyncLog, Commit, SyncFails, Crash

-----------------------------------------------------------------------------
\* The inductive invariant: chain, iterator, transaction and table.
TrackerInv == TypeOK /\ ChainInv /\ ReadInv /\ DraftInv /\ TableInv

\* It holds at first.
LEMMA InitTrackerInv == Init => TrackerInv
<1> SUFFICES ASSUME Init PROVE TrackerInv
  OBVIOUS
<1>1. /\ chain = <<>> /\ Len(chain) = 0 /\ chain \in Seq([token : Token, owners : Owners])
  BY DEF Init
<1>2. NoEvents \in [{} -> Event] /\ DOMAIN NoEvents = {}
  BY DEF NoEvents
<1>3. \E seen \in SUBSET Token : events \in [seen -> Event]
  BY <1>2 DEF Init
<1>4. TypeOK
  <2>1. table \in Owners /\ draft \in Owners
    BY DEF Init, Owners
  <2>2. /\ logged \in 0..Len(chain) /\ lower \in 1..logged + 1
        /\ upper \in 0..Len(chain) /\ read \in 0..Len(chain)
    BY <1>1 DEF Init
  <2>3. /\ lowerBlock \in LowerBlock /\ stage \in Stage /\ stage # "syncing"
        /\ fail \in BOOLEAN /\ todo \subseteq Token /\ refused \subseteq Token
        /\ warned \subseteq Token /\ faults \in Nat
    BY DEF Init, Stage
  <2> QED
    BY <1>1, <1>3, <2>1, <2>2, <2>3 DEF TypeOK
<1>5. ChainInv
  BY <1>1 DEF ChainInv, OwnersAt, Owners
<1>6. ReadInv /\ DraftInv
  BY DEF Init, ReadInv, HasRange, DraftInv
<1>7. TableInv
  BY DEF Init, TableInv, TableMatchesChain, TableIsComplete, OwnersAt
<1> QED
  BY <1>4, <1>5, <1>6, <1>7 DEF TrackerInv

\* Chain, events collected, transaction and table agree in every state.
THEOREM TrackerInvariant == Spec => []TrackerInv
<1>1. TrackerInv /\ [Next]_vars => TrackerInv'
  BY StepKeepsTypes, StepKeepsChain, StepKeepsRead, StepKeepsDraft, StepKeepsTable
     DEF TrackerInv
<1> QED
  BY InitTrackerInv, <1>1, PTL DEF Spec

\* Every variable keeps its type; ranges stay on the chain, and none is skipped.
THEOREM TypeCorrect == Spec => []TypeOK
<1>1. TrackerInv => TypeOK
  BY DEF TrackerInv
<1> QED
  BY <1>1, TrackerInvariant, PTL

\* Only a range that reaches back into what is logged meets rows of the tokens minted in it,
\* whatever failed before.
THEOREM DuplicatesRepeat == Spec => []DuplicatesAreRepeats
<1>1. TrackerInv => DuplicatesAreRepeats
  <2> SUFFICES ASSUME TrackerInv, stage \in {"syncing", "committing"}, NEW t \in refused
               PROVE  lower <= logged
    BY DEF DuplicatesAreRepeats
  <2>1. t \in Token /\ t \in DOMAIN events
    BY DEF TrackerInv, TypeOK, DraftInv
  <2>2. events[t].from = NoOne /\ table[t] # NoOne
    BY <2>1 DEF TrackerInv, DraftInv, Written
  <2>3. OwnersAt(lower - 1)[t] = NoOne
    BY <2>1, <2>2 DEF TrackerInv, ReadInv, HasRange
  <2>4. OwnersAt(logged)[t] # NoOne
    BY <2>1, <2>2 DEF TrackerInv, TableInv, TableIsComplete
  <2>5. /\ logged \in 0..Len(chain) /\ lower \in 1..logged + 1 /\ Len(chain) \in Nat
        /\ lower - 1 \in 0..Len(chain)
    BY DEF TrackerInv, TypeOK
  <2>6. ~(logged <= lower - 1)
    BY <2>1, <2>3, <2>4, <2>5 DEF TrackerInv, ChainInv
  <2> QED
    BY <2>5, <2>6
<1> QED
  BY <1>1, TrackerInvariant, PTL

\* The table has the owners as of the last block logged, but for refused duplicates.
THEOREM TableMatches == Spec => []TableMatchesChain
<1>1. TrackerInv => TableMatchesChain
  BY DEF TrackerInv, TableInv
<1> QED
  BY <1>1, TrackerInvariant, PTL

\* Every token has a row, with somebody who has owned it.
THEOREM TableComplete == Spec => []TableIsComplete
<1>1. TrackerInv => TableIsComplete
  BY DEF TrackerInv, TableInv
<1> QED
  BY <1>1, TrackerInvariant, PTL

\* A row that a commit changes was written by the transaction, to the last recipient.
LEMMA CommitWritesCurrent ==
    ASSUME TypeOK, ReadInv, DraftInv, stage = "committing", Committed,
           NEW t \in Token, table'[t] # table[t]
    PROVE  table'[t] = OwnersAt(upper)[t]
<1>1. table' = draft /\ todo = {}
  BY DEF Committed, DraftInv
<1>2. t \in DOMAIN events /\ Written(t)
  BY <1>1 DEF DraftInv
<1>3. draft[t] = events[t].to
  BY <1>1, <1>2 DEF Written
<1>4. events[t] = [from |-> OwnersAt(lower - 1)[t], to |-> OwnersAt(read)[t]] /\ read = upper
  BY <1>2 DEF ReadInv, HasRange
<1> QED
  BY <1>1, <1>3, <1>4

\* What a step makes of the log and the rows.
LEMMA StepIsCurrent ==
    ASSUME TrackerInv, [Next]_vars
    PROVE  /\ logged <= logged'
           /\ \A t \in Token : table'[t] # table[t] => table'[t] = OwnersAt(logged')[t]
<1>1. logged \in Nat
  BY DEF TrackerInv, TypeOK
<1>2. CASE UNCHANGED <<table, logged>>
  BY <1>1, <1>2
<1>3. CASE stage = "committing" /\ Committed
  <2>1. logged' = upper /\ logged <= upper
    BY <1>3 DEF TrackerInv, ReadInv, HasRange, Committed
  <2> QED
    BY <1>3, <2>1, CommitWritesCurrent DEF TrackerInv
<1> QED
  BY <1>2, <1>3
     DEF Next, vars, iterator, tx, NewBlock, Start, FilterTransfer, NextTrue, NextFalse,
         GiveUp, BeginTx, WriteToken, CreateSyncLog, Commit, SyncFails, Crash

\* The log advances, and rows only change to what they are at the block logged, whatever
\* failed and wherever the tracker started again.
THEOREM RowsStayCurrent == Spec => RowsAreCurrent
<1> DEFINE Current ==
      /\ logged <= logged'
      /\ \A t \in Token : table'[t] # table[t] => table'[t] = OwnersAt(logged')[t]
<1>1. TrackerInv /\ [Next]_vars => [Current]_vars
  BY StepIsCurrent
<1> QED
  BY <1>1, TrackerInvariant, PTL DEF Spec, RowsAreCurrent
=============================================================================
