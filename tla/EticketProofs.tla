--------------------------- MODULE EticketProofs ---------------------------
(***************************************************************************)
(* Theorems about Eticket, for every width of the ids and every set of     *)
(* holders, URLs and times.  They rest on the fact that token ids name     *)
(* tickets one to one; all else is an invariant that says how the index,   *)
(* the array of tickets and the owners fit together.                       *)
(***************************************************************************)
EXTENDS Eticket, TLAPS

-----------------------------------------------------------------------------
(* Token ids.                                                               *)

\* Multiplication is monotonic: what the solver does not find by itself.
LEMMA ProductGrows ==
    ASSUME NEW i \in Nat, NEW j \in Nat, NEW w \in Nat, i < j
    PROVE  i * w + w <= j * w
  <1>1. PICK k \in Nat : j = i + 1 + k
    <2>1. j - i - 1 \in Nat /\ j = i + 1 + (j - i - 1)
      OBVIOUS
    <2> QED  BY <2>1
  <1>2. j * w = i * w + w + k * w
    BY <1>1
  <1>3. k * w \in Nat
    OBVIOUS
  <1> QED  BY <1>2, <1>3

\* A token id is in range (Eticket.sol 34-36: 64 bits are enough for it).
LEMMA TokenIdInRange ==
    ASSUME NEW ps \in Id, NEW seat \in Id
    PROVE  MakeTokenId(ps, seat) \in TokenId
  <1>1. ps * Width + Width <= Width * Width
    BY WidthIsPositive, ProductGrows DEF Id
  <1>2. ps * Width \in Nat /\ Width * Width \in Nat
    BY WidthIsPositive DEF Id
  <1> QED  BY <1>1, <1>2, WidthIsPositive DEF Id, TokenId, MakeTokenId

\* Different tickets have different token ids.
LEMMA TokenIdDetermines ==
    ASSUME NEW ps1 \in Id, NEW seat1 \in Id, NEW ps2 \in Id, NEW seat2 \in Id,
           MakeTokenId(ps1, seat1) = MakeTokenId(ps2, seat2)
    PROVE  ps1 = ps2 /\ seat1 = seat2
  <1>1. ps1 * Width \in Nat /\ ps2 * Width \in Nat
    BY WidthIsPositive DEF Id
  <1>2. ~(ps1 < ps2)
    <2>1. ps1 < ps2 => ps1 * Width + Width <= ps2 * Width
      BY WidthIsPositive, ProductGrows DEF Id
    <2> QED  BY <1>1, <2>1, WidthIsPositive DEF Id, MakeTokenId
  <1>3. ~(ps2 < ps1)
    <2>1. ps2 < ps1 => ps2 * Width + Width <= ps1 * Width
      BY WidthIsPositive, ProductGrows DEF Id
    <2> QED  BY <1>1, <2>1, WidthIsPositive DEF Id, MakeTokenId
  <1>4. ps1 = ps2
    BY <1>2, <1>3 DEF Id
  <1> QED  BY <1>1, <1>4 DEF Id, MakeTokenId

\* Every token id is that of a ticket, the one the contract decodes from it.
LEMMA TokenIdDecodes ==
    ASSUME NEW id \in TokenId
    PROVE  /\ ObtainPerformanceScheduleId(id) \in Id
           /\ ObtainSeatId(id) \in Id
           /\ id = MakeTokenId(ObtainPerformanceScheduleId(id), ObtainSeatId(id))
  <1> DEFINE q == id \div Width
             r == id % Width
  <1>1. q \in Nat /\ r \in Id /\ id = q * Width + r
    BY WidthIsPositive DEF Id, TokenId
  <1>2. q < Width
    <2>1. Width <= q => Width * Width <= q * Width
      <3>1. Width < q => Width * Width + Width <= q * Width
        BY <1>1, WidthIsPositive, ProductGrows
      <3>2. Width * Width \in Nat
        BY WidthIsPositive
      <3> QED  BY <1>1, <3>1, <3>2, WidthIsPositive
    <2>2. id < Width * Width
      BY WidthIsPositive DEF TokenId
    <2>3. q * Width \in Nat /\ Width * Width \in Nat
      BY <1>1, WidthIsPositive
    <2> QED  BY <1>1, <2>1, <2>2, <2>3, WidthIsPositive DEF Id, TokenId
  <1>3. q % Width = q
    BY <1>1, <1>2, WidthIsPositive
  <1> QED
    BY <1>1, <1>2, <1>3, WidthIsPositive
    DEF ObtainPerformanceScheduleId, ObtainSeatId, MakeTokenId, Id

\* Decoding undoes encoding, as tokenURI (Eticket.sol 193-210) needs.
LEMMA DecodeTokenId ==
    ASSUME NEW ps \in Id, NEW seat \in Id
    PROVE  /\ ObtainPerformanceScheduleId(MakeTokenId(ps, seat)) = ps
           /\ ObtainSeatId(MakeTokenId(ps, seat)) = seat
  <1> DEFINE id == MakeTokenId(ps, seat)
  <1>1. id \in TokenId
    BY TokenIdInRange
  <1>2. /\ ObtainPerformanceScheduleId(id) \in Id
        /\ ObtainSeatId(id) \in Id
        /\ id = MakeTokenId(ObtainPerformanceScheduleId(id), ObtainSeatId(id))
    BY <1>1, TokenIdDecodes
  <1> QED  BY <1>2, TokenIdDetermines

-----------------------------------------------------------------------------
(* The invariant.                                                           *)

\* The types need the rest: a flag is written at the index of its seat, which must be
\* in the array; and a new index is new only if the others are in range.
ContractInv == Types /\ SeatsShareOutTickets /\ IndexAgreesWithOwner

LEMMA InitInv == Init => ContractInv
  <1> SUFFICES ASSUME Init PROVE ContractInv
    OBVIOUS
  <1>1. \A t \in Ticket : ~Owned(t) /\ ~TicketMinted(t) /\ t # minting
    <2>1. ASSUME NEW ps \in Id, NEW seat \in Id
          PROVE  LET t == <<ps, seat>> IN ~Owned(t) /\ ~TicketMinted(t) /\ t # minting
      <3>1. MakeTokenId(ps, seat) \in TokenId
        BY TokenIdInRange
      <3>2. ownerOf[MakeTokenId(ps, seat)] = NoOne
        BY <3>1 DEF Init
      <3> QED  BY <3>2 DEF Init, Owned, TicketMinted, NotMinting
    <2> QED  BY <2>1 DEF Ticket
  <1>2. Types
    BY NoUrlIsAUrl, TimeIsNatural DEF Init, Types, Unscheduled, ScheduleRecord
  <1>3. SeatsShareOutTickets
    BY DEF Init, SeatsShareOutTickets, IndicesInRange, IndicesDistinct, EveryTicketHasASeat
  <1> QED  BY <1>1, <1>2, <1>3 DEF ContractInv, IndexAgreesWithOwner

\* What the callback's return adds (Eticket.sol 136-137): one unused ticket at the end of
\* the array, and its position as the index of the seat.
LEMMA RecordTicketEffect ==
    ASSUME Types, RecordTicket
    PROVE  \E ps, seat \in Id :
              /\ minting = <<ps, seat>>
              /\ minting' = NotMinting
              /\ UNCHANGED <<schedules, ownerOf, issuedTo, now>>
              /\ tickets' \in [Id -> Seq(BOOLEAN)]
              /\ ticketIndices' \in [Id -> [Id -> Nat]]
              /\ Len(tickets'[ps]) = Len(tickets[ps]) + 1
              /\ tickets'[ps][Len(tickets[ps]) + 1] = FALSE
              /\ \A i \in 1 .. Len(tickets[ps]) : tickets'[ps][i] = tickets[ps][i]
              /\ \A qs \in Id : qs # ps => tickets'[qs] = tickets[qs]
              /\ ticketIndices'[ps][seat] = Len(tickets[ps]) + 1
              /\ \A qs, other \in Id : <<qs, other>> # <<ps, seat>> =>
                    ticketIndices'[qs][other] = ticketIndices[qs][other]
  <1>1. PICK ps \in Id, seat \in Id : minting = <<ps, seat>>
    BY DEF RecordTicket, Types, Ticket
  <1>2. /\ tickets' = [tickets EXCEPT ![ps] = Append(@, FALSE)]
        /\ ticketIndices' = [ticketIndices EXCEPT ![ps][seat] = Len(tickets[ps]) + 1]
    BY <1>1 DEF RecordTicket, NextIndex
  <1>3. tickets \in [Id -> Seq(BOOLEAN)] /\ ticketIndices \in [Id -> [Id -> Nat]]
    BY DEF Types
  <1>4. /\ Append(tickets[ps], FALSE) \in Seq(BOOLEAN)
        /\ Len(tickets[ps]) \in Nat
        /\ Len(Append(tickets[ps], FALSE)) = Len(tickets[ps]) + 1
        /\ Append(tickets[ps], FALSE)[Len(tickets[ps]) + 1] = FALSE
        /\ \A i \in 1 .. Len(tickets[ps]) : Append(tickets[ps], FALSE)[i] = tickets[ps][i]
    BY <1>3
  <1>5. /\ tickets' \in [Id -> Seq(BOOLEAN)]
        /\ tickets'[ps] = Append(tickets[ps], FALSE)
        /\ \A qs \in Id : qs # ps => tickets'[qs] = tickets[qs]
    BY <1>2, <1>3, <1>4
  <1>6. /\ ticketIndices' \in [Id -> [Id -> Nat]]
        /\ ticketIndices'[ps][seat] = Len(tickets[ps]) + 1
        /\ \A qs, other \in Id : <<qs, other>> # <<ps, seat>> =>
              ticketIndices'[qs][other] = ticketIndices[qs][other]
    BY <1>2, <1>3, <1>4
  <1>7. minting' = NotMinting /\ UNCHANGED <<schedules, ownerOf, issuedTo, now>>
    BY DEF RecordTicket
  <1>8. /\ Len(tickets'[ps]) = Len(tickets[ps]) + 1
        /\ tickets'[ps][Len(tickets[ps]) + 1] = FALSE
        /\ \A i \in 1 .. Len(tickets[ps]) : tickets'[ps][i] = tickets[ps][i]
    BY <1>4, <1>5
  <1> QED  BY <1>1, <1>5, <1>6, <1>7, <1>8

\* What markTicketAsUsed (Eticket.sol 104-110) writes: one flag, in the array.
LEMMA MarkTicketEffect ==
    ASSUME Types, IndicesInRange, NEW ps \in Id, NEW seat \in Id, MarkTicketAsUsed(ps, seat)
    PROVE  LET i == ticketIndices[ps][seat]
           IN  /\ i \in 1 .. Len(tickets[ps])
               /\ tickets' \in [Id -> Seq(BOOLEAN)]
               /\ tickets'[ps] = [tickets[ps] EXCEPT ![i] = TRUE]
               /\ \A qs \in Id : qs # ps => tickets'[qs] = tickets[qs]
               /\ \A qs \in Id : Len(tickets'[qs]) = Len(tickets[qs])
  <1> DEFINE i == ticketIndices[ps][seat]
             s == tickets[ps]
             flags == [s EXCEPT ![i] = TRUE]
  <1>1. tickets \in [Id -> Seq(BOOLEAN)] /\ ticketIndices \in [Id -> [Id -> Nat]]
    BY DEF Types
  <1>2. s \in Seq(BOOLEAN) /\ Len(s) \in Nat /\ i \in 1 .. Len(s)
    BY <1>1 DEF IndicesInRange, MarkTicketAsUsed
  <1>3. flags \in Seq(BOOLEAN) /\ Len(flags) = Len(s)
    <2> HIDE DEF s, i
    <2> QED  BY <1>2
  <1>4. tickets' = [tickets EXCEPT ![ps] = flags]
    BY DEF MarkTicketAsUsed
  <1> HIDE DEF flags
  <1>5. /\ tickets' \in [Id -> Seq(BOOLEAN)]
        /\ tickets'[ps] = flags
        /\ \A qs \in Id : qs # ps => tickets'[qs] = tickets[qs]
    BY <1>1, <1>3, <1>4
  <1> QED  BY <1>2, <1>3, <1>5 DEF flags

\* What _safeMint has done when the recipient is called (Eticket.sol 134): the ticket and
\* no other one gets its owner.
LEMMA MintTicketEffect ==
    ASSUME Types, NEW recipient \in Address, NEW ps \in Id, NEW seat \in Id,
           MintTicket(recipient, ps, seat)
    PROVE  /\ ownerOf' \in [TokenId -> Address \union {NoOne}]
           /\ issuedTo' \in [TokenId -> Address \union {NoOne}]
           /\ \A t \in Ticket :
                 LET id == MakeTokenId(t[1], t[2])
                 IN  /\ ownerOf'[id] = IF t = <<ps, seat>> THEN recipient ELSE ownerOf[id]
                     /\ issuedTo'[id] = IF t = <<ps, seat>> THEN recipient ELSE issuedTo[id]
  <1> DEFINE id == MakeTokenId(ps, seat)
  <1>1. id \in TokenId
    BY TokenIdInRange
  <1>2. /\ ownerOf' = [ownerOf EXCEPT ![id] = recipient]
        /\ issuedTo' = [issuedTo EXCEPT ![id] = recipient]
    BY DEF MintTicket
  <1>3. \A t \in Ticket :
           /\ MakeTokenId(t[1], t[2]) \in TokenId
           /\ MakeTokenId(t[1], t[2]) = id => t = <<ps, seat>>
    BY TokenIdInRange, TokenIdDetermines DEF Ticket
  <1> HIDE DEF id
  <1> QED  BY <1>1, <1>2, <1>3 DEF Types, id

\* The setters (Eticket.sol 175-191) change a URL of a schedule and nothing else.
LEMMA SetUrlEffect ==
    ASSUME Types, NEW ps \in Id, NEW url \in Url,
           \/ SetTicketDefaultContentBaseUrl(ps, url)
           \/ SetTicketSpecialContentBaseUrl(ps, url)
    PROVE  /\ schedules' \in [Id -> ScheduleRecord]
           /\ \A qs \in Id :
                 /\ schedules'[qs].isScheduled = schedules[qs].isScheduled
                 /\ schedules'[qs].ticketExpirationTime = schedules[qs].ticketExpirationTime
           /\ UNCHANGED <<ticketIndices, tickets, ownerOf, issuedTo, minting, now>>
  <1>1. schedules \in [Id -> ScheduleRecord]
    BY DEF Types
  <1>2. PICK record \in ScheduleRecord :
           /\ schedules' = [schedules EXCEPT ![ps] = record]
           /\ record.isScheduled = schedules[ps].isScheduled
           /\ record.ticketExpirationTime = schedules[ps].ticketExpirationTime
    <2>1. CASE SetTicketDefaultContentBaseUrl(ps, url)
      <3> DEFINE record == [schedules[ps] EXCEPT !.defaultUrl = url]
      <3>1. record \in ScheduleRecord
        BY <1>1 DEF ScheduleRecord
      <3>2. /\ schedules' = [schedules EXCEPT ![ps] = record]
            /\ record.isScheduled = schedules[ps].isScheduled
            /\ record.ticketExpirationTime = schedules[ps].ticketExpirationTime
        BY <1>1, <2>1 DEF SetTicketDefaultContentBaseUrl, ScheduleRecord
      <3> QED  BY <3>1, <3>2
    <2>2. CASE SetTicketSpecialContentBaseUrl(ps, url)
      <3> DEFINE record == [schedules[ps] EXCEPT !.specialUrl = url]
      <3>1. record \in ScheduleRecord
        BY <1>1 DEF ScheduleRecord
      <3>2. /\ schedules' = [schedules EXCEPT ![ps] = record]
            /\ record.isScheduled = schedules[ps].isScheduled
            /\ record.ticketExpirationTime = schedules[ps].ticketExpirationTime
        BY <1>1, <2>2 DEF SetTicketSpecialContentBaseUrl, ScheduleRecord
      <3> QED  BY <3>1, <3>2
    <2> QED  BY <2>1, <2>2
  <1>3. UNCHANGED <<ticketIndices, tickets, ownerOf, issuedTo, minting, now>>
    BY DEF SetTicketDefaultContentBaseUrl, SetTicketSpecialContentBaseUrl
  <1> QED  BY <1>1, <1>2, <1>3

-----------------------------------------------------------------------------
(* The invariant is kept, one conjunct at a time.                           *)

LEMMA TypeKept ==
    ASSUME ContractInv, [Next]_vars
    PROVE  Types'
  <1> USE DEF ContractInv
  <1>1. ASSUME NEW ps \in Id, NEW expiration \in Time, NEW default \in Url,
               NEW special \in Url, SchedulePerformance(ps, expiration, default, special)
        PROVE  Types'
    BY <1>1 DEF SchedulePerformance, ScheduleOf, Types, ScheduleRecord
  <1>2. ASSUME NEW recipient \in Address, NEW ps \in Id, NEW seat \in Id,
               MintTicket(recipient, ps, seat)
        PROVE  Types'
    <2>1. minting' \in Ticket
      BY <1>2 DEF MintTicket, Ticket
    <2>2. /\ ownerOf' \in [TokenId -> Address \union {NoOne}]
          /\ issuedTo' \in [TokenId -> Address \union {NoOne}]
      BY <1>2, MintTicketEffect
    <2>3. UNCHANGED <<schedules, ticketIndices, tickets, now>>
      BY <1>2 DEF MintTicket
    <2> QED  BY <2>1, <2>2, <2>3 DEF Types
  <1>3. CASE RecordTicket
    <2>1. /\ minting' = NotMinting
          /\ UNCHANGED <<schedules, ownerOf, issuedTo, now>>
          /\ tickets' \in [Id -> Seq(BOOLEAN)]
          /\ ticketIndices' \in [Id -> [Id -> Nat]]
      BY <1>3, RecordTicketEffect
    <2> QED  BY <2>1 DEF Types
  <1>4. ASSUME NEW ps \in Id, NEW seat \in Id, MarkTicketAsUsed(ps, seat) PROVE Types'
    <2>1. tickets' \in [Id -> Seq(BOOLEAN)]
      BY <1>4, MarkTicketEffect DEF SeatsShareOutTickets
    <2>2. UNCHANGED <<schedules, ticketIndices, ownerOf, issuedTo, minting, now>>
      BY <1>4 DEF MarkTicketAsUsed
    <2> QED  BY <2>1, <2>2 DEF Types
  <1>5. ASSUME NEW ps \in Id, NEW url \in Url,
               \/ SetTicketDefaultContentBaseUrl(ps, url)
               \/ SetTicketSpecialContentBaseUrl(ps, url)
        PROVE  Types'
    <2>1. /\ schedules' \in [Id -> ScheduleRecord]
          /\ UNCHANGED <<ticketIndices, tickets, ownerOf, issuedTo, minting, now>>
      BY <1>5, SetUrlEffect
    <2> QED  BY <2>1 DEF Types
  <1>6. ASSUME NEW id \in TokenId, NEW to \in Address, TransferFrom(id, to) PROVE Types'
    BY <1>6 DEF TransferFrom, Types
  <1>7. ASSUME NEW t \in Time, NextBlock(t) PROVE Types'
    BY <1>7 DEF NextBlock, Types
  <1>8. CASE UNCHANGED vars
    BY <1>8 DEF vars, Types
  <1> QED  BY <1>1, <1>2, <1>3, <1>4, <1>5, <1>6, <1>7, <1>8 DEF Next

\* Only the callback's return and a mark touch the array or the indices.
LEMMA ArrayKept ==
    ASSUME [Next]_vars, ~RecordTicket, \A ps, seat \in Id : ~MarkTicketAsUsed(ps, seat)
    PROVE  UNCHANGED <<tickets, ticketIndices>>
  BY DEF Next, SchedulePerformance, MintTicket, SetTicketDefaultContentBaseUrl,
         SetTicketSpecialContentBaseUrl, TransferFrom, NextBlock, vars

LEMMA SharingKept ==
    ASSUME ContractInv, [Next]_vars
    PROVE  SeatsShareOutTickets'
  <1>1. /\ ticketIndices \in [Id -> [Id -> Nat]]
        /\ tickets \in [Id -> Seq(BOOLEAN)]
        /\ \A ps \in Id : Len(tickets[ps]) \in Nat
    BY DEF ContractInv, Types
  <1>2. IndicesInRange /\ IndicesDistinct /\ EveryTicketHasASeat
    BY DEF ContractInv, SeatsShareOutTickets
  <1>3. CASE RecordTicket
    <2>1. PICK ps \in Id, seat \in Id :
             /\ minting = <<ps, seat>>
             /\ Len(tickets'[ps]) = Len(tickets[ps]) + 1
             /\ \A qs \in Id : qs # ps => tickets'[qs] = tickets[qs]
             /\ ticketIndices'[ps][seat] = Len(tickets[ps]) + 1
             /\ \A qs, other \in Id : <<qs, other>> # <<ps, seat>> =>
                   ticketIndices'[qs][other] = ticketIndices[qs][other]
      BY <1>3, RecordTicketEffect DEF ContractInv
    <2>2. ticketIndices[ps][seat] = 0
      <3>1. <<ps, seat>> \in Ticket /\ ~TicketMinted(<<ps, seat>>)
        BY <2>1 DEF ContractInv, IndexAgreesWithOwner, Ticket
      <3> QED  BY <3>1 DEF TicketMinted
    <2>3. IndicesInRange'
      <3>1. ASSUME NEW qs \in Id, NEW other \in Id
            PROVE  ticketIndices'[qs][other] <= Len(tickets'[qs])
        <4>1. ticketIndices[qs][other] \in Nat /\ Len(tickets[qs]) \in Nat
          BY <1>1
        <4>2. ticketIndices[qs][other] <= Len(tickets[qs])
          BY <1>2 DEF IndicesInRange
        <4>3. CASE <<qs, other>> = <<ps, seat>>
          BY <2>1, <4>1, <4>3
        <4>4. CASE <<qs, other>> # <<ps, seat>>
          <5>1. Len(tickets'[qs]) = Len(tickets[qs]) \/ Len(tickets'[qs]) = Len(tickets[qs]) + 1
            BY <2>1
          <5>2. ticketIndices'[qs][other] = ticketIndices[qs][other]
            BY <2>1, <4>4
          <5> QED  BY <4>1, <4>2, <5>1, <5>2
        <4> QED  BY <4>3, <4>4
      <3> QED  BY <3>1 DEF IndicesInRange
    <2>4. IndicesDistinct'
      <3>1. ASSUME NEW qs \in Id, NEW seat1 \in Id, NEW seat2 \in Id,
                   seat1 # seat2, ticketIndices'[qs][seat1] # 0
            PROVE  ticketIndices'[qs][seat1] # ticketIndices'[qs][seat2]
        <4>1. \A other \in Id :
                 /\ ticketIndices[qs][other] \in Nat
                 /\ ticketIndices[qs][other] <= Len(tickets[qs])
                 /\ Len(tickets[qs]) \in Nat
          BY <1>1, <1>2 DEF IndicesInRange
        <4>2. CASE <<qs, seat1>> = <<ps, seat>>
          <5>1. ticketIndices'[qs][seat2] = ticketIndices[qs][seat2]
            BY <2>1, <3>1, <4>2
          <5> QED  BY <2>1, <4>1, <4>2, <5>1
        <4>3. CASE <<qs, seat2>> = <<ps, seat>>
          <5>1. ticketIndices'[qs][seat1] = ticketIndices[qs][seat1]
            BY <2>1, <3>1, <4>3
          <5> QED  BY <2>1, <4>1, <4>3, <5>1
        <4>4. CASE <<qs, seat1>> # <<ps, seat>> /\ <<qs, seat2>> # <<ps, seat>>
          <5>1. /\ ticketIndices'[qs][seat1] = ticketIndices[qs][seat1]
                /\ ticketIndices'[qs][seat2] = ticketIndices[qs][seat2]
            BY <2>1, <4>4
          <5> QED  BY <1>2, <3>1, <5>1 DEF IndicesDistinct
        <4> QED  BY <4>2, <4>3, <4>4
      <3> QED  BY <3>1 DEF IndicesDistinct
    <2>5. ASSUME NEW qs \in Id, NEW i \in 1 .. Len(tickets'[qs])
          PROVE  \E other \in Id : ticketIndices'[qs][other] = i
      <3>1. CASE qs = ps /\ i = Len(tickets[ps]) + 1
        BY <2>1, <3>1
      <3>2. CASE ~(qs = ps /\ i = Len(tickets[ps]) + 1)
        <4>1. i \in 1 .. Len(tickets[qs])
          BY <1>1, <2>1, <2>5, <3>2
        <4>2. PICK other \in Id : ticketIndices[qs][other] = i
          BY <1>2, <4>1 DEF EveryTicketHasASeat
        <4>3. <<qs, other>> # <<ps, seat>>
          BY <2>2, <4>1, <4>2
        <4> QED  BY <2>1, <4>2, <4>3
      <3> QED  BY <3>1, <3>2
    <2> QED  BY <2>3, <2>4, <2>5 DEF SeatsShareOutTickets, EveryTicketHasASeat
  <1>4. CASE UNCHANGED ticketIndices /\ \A ps \in Id : Len(tickets'[ps]) = Len(tickets[ps])
    BY <1>2, <1>4
    DEF SeatsShareOutTickets, IndicesInRange, IndicesDistinct, EveryTicketHasASeat
  <1>5. ASSUME NEW ps \in Id, NEW seat \in Id, MarkTicketAsUsed(ps, seat)
        PROVE  /\ UNCHANGED ticketIndices
               /\ \A qs \in Id : Len(tickets'[qs]) = Len(tickets[qs])
    <2>1. UNCHANGED ticketIndices
      BY <1>5 DEF MarkTicketAsUsed
    <2>2. \A qs \in Id : Len(tickets'[qs]) = Len(tickets[qs])
      BY <1>2, <1>5, MarkTicketEffect DEF ContractInv
    <2> QED  BY <2>1, <2>2
  <1> QED  BY <1>3, <1>4, <1>5, ArrayKept

LEMMA AgreementKept ==
    ASSUME ContractInv, [Next]_vars
    PROVE  IndexAgreesWithOwner'
  <1>1. IndexAgreesWithOwner
    BY DEF ContractInv
  <1>2. \A t \in Ticket : t # NotMinting
    BY DEF Ticket, NotMinting
  <1>3. ASSUME NEW ps \in Id, NEW expiration \in Time, NEW default \in Url,
               NEW special \in Url, SchedulePerformance(ps, expiration, default, special)
        PROVE  IndexAgreesWithOwner'
    <2>1. \A qs \in Id : schedules[qs].isScheduled => schedules'[qs].isScheduled
      BY <1>3 DEF SchedulePerformance, ScheduleOf, ContractInv, Types
    <2>2. UNCHANGED <<ticketIndices, ownerOf, minting>>
      BY <1>3 DEF SchedulePerformance
    <2> QED  BY <1>1, <2>1, <2>2 DEF IndexAgreesWithOwner, TicketMinted, Owned, Ticket
  <1>4. ASSUME NEW recipient \in Address, NEW ps \in Id, NEW seat \in Id,
               MintTicket(recipient, ps, seat)
        PROVE  IndexAgreesWithOwner'
    <2>1. /\ minting = NotMinting
          /\ schedules[ps].isScheduled
          /\ ~TicketMinted(<<ps, seat>>)
          /\ minting' = <<ps, seat>>
          /\ UNCHANGED <<schedules, ticketIndices>>
      BY <1>4 DEF MintTicket, NewTransaction
    <2>2. \A t \in Ticket : TicketMinted(t)' = TicketMinted(t)
      BY <2>1 DEF TicketMinted
    <2>3. \A t \in Ticket : t # <<ps, seat>> => Owned(t)' = Owned(t)
      BY <1>4, MintTicketEffect DEF ContractInv, Owned
    <2>4. Owned(<<ps, seat>>)'
      <3>1. <<ps, seat>> \in Ticket
        BY DEF Ticket
      <3>2. ownerOf'[MakeTokenId(ps, seat)] = recipient
        BY <1>4, <3>1, MintTicketEffect DEF ContractInv
      <3> QED  BY <3>2, NoOneIsNotAnAddress DEF Owned
    <2> QED  BY <1>1, <1>2, <2>1, <2>2, <2>3, <2>4 DEF IndexAgreesWithOwner
  <1>5. CASE RecordTicket
    <2>1. PICK ps \in Id, seat \in Id :
             /\ minting = <<ps, seat>>
             /\ minting' = NotMinting
             /\ UNCHANGED <<schedules, ownerOf>>
             /\ ticketIndices'[ps][seat] = Len(tickets[ps]) + 1
             /\ \A qs, other \in Id : <<qs, other>> # <<ps, seat>> =>
                   ticketIndices'[qs][other] = ticketIndices[qs][other]
      BY <1>5, RecordTicketEffect DEF ContractInv
    <2>2. \A t \in Ticket : Owned(t)' = Owned(t)
      BY <2>1 DEF Owned
    <2>3. TicketMinted(<<ps, seat>>)'
      <3>1. Len(tickets[ps]) \in Nat
        BY DEF ContractInv, Types
      <3> QED  BY <2>1, <3>1 DEF TicketMinted
    <2>4. \A t \in Ticket : t # <<ps, seat>> => TicketMinted(t)' = TicketMinted(t)
      BY <2>1 DEF TicketMinted, Ticket
    <2> QED  BY <1>1, <1>2, <2>1, <2>2, <2>3, <2>4 DEF IndexAgreesWithOwner
  <1>6. ASSUME NEW ps \in Id, NEW url \in Url,
               \/ SetTicketDefaultContentBaseUrl(ps, url)
               \/ SetTicketSpecialContentBaseUrl(ps, url)
        PROVE  IndexAgreesWithOwner'
    <2>1. \A qs \in Id : schedules'[qs].isScheduled = schedules[qs].isScheduled
      BY <1>6, SetUrlEffect DEF ContractInv
    <2>2. UNCHANGED <<ticketIndices, ownerOf, minting>>
      BY <1>6, SetUrlEffect DEF ContractInv
    <2> QED  BY <1>1, <2>1, <2>2 DEF IndexAgreesWithOwner, TicketMinted, Owned, Ticket
  <1>7. ASSUME NEW id \in TokenId, NEW to \in Address, TransferFrom(id, to)
        PROVE  IndexAgreesWithOwner'
    <2>1. UNCHANGED <<schedules, ticketIndices, minting>>
      BY <1>7 DEF TransferFrom
    <2>2. \A x \in TokenId : ownerOf'[x] = NoOne <=> ownerOf[x] = NoOne
      BY <1>7, NoOneIsNotAnAddress DEF TransferFrom, ContractInv, Types
    <2>3. \A t \in Ticket : Owned(t)' = Owned(t)
      BY <2>2, TokenIdInRange DEF Owned, Ticket
    <2>4. \A t \in Ticket : TicketMinted(t)' = TicketMinted(t)
      BY <2>1 DEF TicketMinted
    <2> QED  BY <1>1, <2>1, <2>3, <2>4 DEF IndexAgreesWithOwner
  <1>8. CASE UNCHANGED <<schedules, ticketIndices, ownerOf, minting>>
    BY <1>1, <1>8 DEF IndexAgreesWithOwner, TicketMinted, Owned
  <1>9. ASSUME NEW ps \in Id, NEW seat \in Id, MarkTicketAsUsed(ps, seat)
        PROVE  UNCHANGED <<schedules, ticketIndices, ownerOf, minting>>
    BY <1>9 DEF MarkTicketAsUsed
  <1>10. ASSUME NEW t \in Time, NextBlock(t)
         PROVE  UNCHANGED <<schedules, ticketIndices, ownerOf, minting>>
    BY <1>10 DEF NextBlock
  <1>11. UNCHANGED vars => UNCHANGED <<schedules, ticketIndices, ownerOf, minting>>
    BY DEF vars
  <1> QED  BY <1>3, <1>4, <1>5, <1>6, <1>7, <1>8, <1>9, <1>10, <1>11 DEF Next

\* The inductive invariant of the contract.
THEOREM ContractInvariant == Spec => []ContractInv
  <1>1. ContractInv /\ [Next]_vars => ContractInv'
    BY TypeKept, SharingKept, AgreementKept DEF ContractInv
  <1> QED  BY <1>1, InitInv, PTL DEF Spec

-----------------------------------------------------------------------------
(* Properties of the states.                                                *)

\* The state of the contract always has its type (Eticket.sol 10-25).
THEOREM TypeCorrect == Spec => []TypeOK
  <1>1. ContractInv => TypeOK
    BY DEF ContractInv, SeatsShareOutTickets, TypeOK
  <1> QED  BY <1>1, ContractInvariant, PTL

\* In every schedule the minted seats share out the array of tickets, so that
\* _unsafe_ticketRef (Eticket.sol 67-71) never reads the flag of another seat.
THEOREM SeatsShareOut == Spec => []SeatsShareOutTickets
  <1>1. ContractInv => SeatsShareOutTickets
    BY DEF ContractInv
  <1> QED  BY <1>1, ContractInvariant, PTL

\* Index and owner of a ticket agree, except while its recipient is called back
\* (Eticket.sol 127-142).
THEOREM IndexAgrees == Spec => []IndexAgreesWithOwner
  <1>1. ContractInv => IndexAgreesWithOwner
    BY DEF ContractInv
  <1> QED  BY <1>1, ContractInvariant, PTL

-----------------------------------------------------------------------------
(* What a step does to the tickets that are used.                           *)

LEMMA RecordKeepsUsed ==
    ASSUME ContractInv, RecordTicket
    PROVE  UsedTickets' = UsedTickets
  <1>1. PICK ps \in Id, seat \in Id :
           /\ minting = <<ps, seat>>
           /\ tickets'[ps][Len(tickets[ps]) + 1] = FALSE
           /\ \A i \in 1 .. Len(tickets[ps]) : tickets'[ps][i] = tickets[ps][i]
           /\ \A qs \in Id : qs # ps => tickets'[qs] = tickets[qs]
           /\ ticketIndices'[ps][seat] = Len(tickets[ps]) + 1
           /\ \A qs, other \in Id : <<qs, other>> # <<ps, seat>> =>
                 ticketIndices'[qs][other] = ticketIndices[qs][other]
    BY RecordTicketEffect DEF ContractInv
  <1>2. ~TicketMinted(<<ps, seat>>)
    BY <1>1 DEF ContractInv, IndexAgreesWithOwner, Ticket
  <1>3. ~(TicketMinted(<<ps, seat>>) /\ TicketRef(<<ps, seat>>))'
    BY <1>1 DEF TicketRef
  <1>4. ASSUME NEW qs \in Id, NEW other \in Id, <<qs, other>> # <<ps, seat>>
        PROVE  LET t == <<qs, other>>
               IN  (TicketMinted(t) /\ TicketRef(t))' <=> TicketMinted(t) /\ TicketRef(t)
    <2>1. ticketIndices'[qs][other] = ticketIndices[qs][other]
      BY <1>1, <1>4
    <2>2. CASE ticketIndices[qs][other] = 0
      BY <2>1, <2>2 DEF TicketMinted
    <2>3. CASE ticketIndices[qs][other] # 0
      <3>1. ticketIndices[qs][other] \in 1 .. Len(tickets[qs])
        <4>1. ticketIndices[qs][other] \in Nat /\ Len(tickets[qs]) \in Nat
          BY DEF ContractInv, Types
        <4>2. ticketIndices[qs][other] <= Len(tickets[qs])
          BY DEF ContractInv, SeatsShareOutTickets, IndicesInRange
        <4> QED  BY <2>3, <4>1, <4>2
      <3>2. tickets'[qs][ticketIndices[qs][other]] = tickets[qs][ticketIndices[qs][other]]
        BY <1>1, <3>1
      <3> QED  BY <2>1, <3>2 DEF TicketMinted, TicketRef
    <2> QED  BY <2>2, <2>3
  <1>5. \A t \in Ticket : (TicketMinted(t) /\ TicketRef(t))' <=> TicketMinted(t) /\ TicketRef(t)
    BY <1>2, <1>3, <1>4 DEF Ticket
  <1> QED  BY <1>5 DEF UsedTickets

LEMMA MarkUsesOne ==
    ASSUME ContractInv, NEW ps \in Id, NEW seat \in Id, MarkTicketAsUsed(ps, seat)
    PROVE  UsedTickets' = UsedTickets \union {<<ps, seat>>}
  <1> DEFINE i == ticketIndices[ps][seat]
  <1>1. /\ i \in 1 .. Len(tickets[ps])
        /\ tickets'[ps] = [tickets[ps] EXCEPT ![i] = TRUE]
        /\ \A qs \in Id : qs # ps => tickets'[qs] = tickets[qs]
    BY MarkTicketEffect DEF ContractInv, SeatsShareOutTickets
  <1>2. tickets[ps] \in Seq(BOOLEAN)
    BY DEF ContractInv, Types
  <1>3. /\ tickets'[ps][i] = TRUE
        /\ \A j \in 1 .. Len(tickets[ps]) : j # i => tickets'[ps][j] = tickets[ps][j]
    <2> HIDE DEF i
    <2> QED  BY <1>1, <1>2
  <1>4. UNCHANGED ticketIndices
    BY DEF MarkTicketAsUsed
  <1>5. (TicketMinted(<<ps, seat>>) /\ TicketRef(<<ps, seat>>))'
    BY <1>3, <1>4 DEF MarkTicketAsUsed, TicketMinted, TicketRef
  <1>6. ASSUME NEW qs \in Id, NEW other \in Id, <<qs, other>> # <<ps, seat>>,
               TicketMinted(<<qs, other>>)
        PROVE  TicketRef(<<qs, other>>)' = TicketRef(<<qs, other>>)
    <2> DEFINE j == ticketIndices[qs][other]
    <2>1. CASE qs = ps
      <3>1. j # i
        BY <1>6, <2>1
        DEF TicketMinted, ContractInv, SeatsShareOutTickets, IndicesDistinct
      <3>2. j \in 1 .. Len(tickets[ps])
        <4>1. j \in Nat /\ Len(tickets[qs]) \in Nat /\ j # 0
          BY <1>6 DEF ContractInv, Types, TicketMinted
        <4>2. j <= Len(tickets[qs])
          BY DEF ContractInv, SeatsShareOutTickets, IndicesInRange
        <4> QED  BY <2>1, <4>1, <4>2
      <3> QED  BY <1>3, <1>4, <2>1, <3>1, <3>2 DEF TicketRef
    <2>2. CASE qs # ps
      BY <1>1, <1>4, <2>2 DEF TicketRef
    <2> QED  BY <2>1, <2>2
  <1>7. \A t \in Ticket : TicketMinted(t)' <=> TicketMinted(t)
    BY <1>4 DEF TicketMinted
  <1>8. \A t \in Ticket : t # <<ps, seat>> =>
           ((TicketMinted(t) /\ TicketRef(t))' <=> TicketMinted(t) /\ TicketRef(t))
    BY <1>6, <1>7 DEF Ticket
  <1>9. <<ps, seat>> \in Ticket
    BY DEF Ticket
  <1> QED  BY <1>5, <1>8, <1>9 DEF UsedTickets

\* No other step marks a ticket.
LEMMA OthersKeepUsed ==
    ASSUME ContractInv, [Next]_vars, \A ps, seat \in Id : ~MarkTicketAsUsed(ps, seat)
    PROVE  UsedTickets' = UsedTickets
  <1>1. CASE RecordTicket
    BY <1>1, RecordKeepsUsed
  <1>2. CASE ~RecordTicket
    BY <1>2, ArrayKept DEF UsedTickets, TicketMinted, TicketRef
  <1> QED  BY <1>1, <1>2

\* markTicketAsUsed (Eticket.sol 104-110) marks the ticket it names and no other one.
THEOREM MarkingIsExact == Spec => MarksOneTicket
  <1>1. ASSUME ContractInv
        PROVE  \A t \in Ticket :
                  MarkTicketAsUsed(t[1], t[2]) => UsedTickets' = UsedTickets \union {t}
    BY <1>1, MarkUsesOne DEF Ticket
  <1> QED  BY <1>1, ContractInvariant, PTL DEF MarksOneTicket

-----------------------------------------------------------------------------
(* The content a ticket shows.                                              *)

\* Special content is shown for a used ticket of a past performance with a special URL.
LEMMA ShowsSpecialWhen ==
    ASSUME NEW t \in Ticket
    PROVE  /\ ShowsSpecial(t) <=>
                 t \in UsedTickets /\ TicketExpired(t) /\ schedules[t[1]].specialUrl # NoUrl
           /\ (ShowsSpecial(t) <=>
                 t \in UsedTickets /\ TicketExpired(t) /\ schedules[t[1]].specialUrl # NoUrl)'
  <1>1. PICK ps \in Id, seat \in Id : t = <<ps, seat>>
    BY DEF Ticket
  <1> DEFINE id == MakeTokenId(ps, seat)
  <1>2. ObtainPerformanceScheduleId(id) = ps /\ ObtainSeatId(id) = seat
    BY DecodeTokenId
  <1>3. TokenURI(id).content = "special" <=>
           TicketExpired(t) /\ TicketRef(t) /\ schedules[ps].specialUrl # NoUrl
    BY <1>1, <1>2 DEF TokenURI
  <1>4. TokenURI(id)'.content = "special" <=>
           TicketExpired(t)' /\ TicketRef(t)' /\ schedules'[ps].specialUrl # NoUrl
    BY <1>1, <1>2 DEF TokenURI
  <1> QED  BY <1>1, <1>3, <1>4 DEF ShowsSpecial, UsedTickets

LEMMA UsedIsScheduled ==
    ASSUME ContractInv, NEW t \in UsedTickets
    PROVE  schedules[t[1]].isScheduled
  BY DEF UsedTickets, ContractInv, IndexAgreesWithOwner

\* A registered performance does not expire later than announced, nor does time go back.
LEMMA ExpiredStays ==
    ASSUME ContractInv, [Next]_vars, NEW t \in Ticket, schedules[t[1]].isScheduled,
           TicketExpired(t)
    PROVE  TicketExpired(t)'
  <1>1. t[1] \in Id
    BY DEF Ticket
  <1>2. schedules'[t[1]].ticketExpirationTime = schedules[t[1]].ticketExpirationTime
    <2>1. ASSUME NEW ps \in Id, NEW expiration \in Time, NEW default \in Url,
                 NEW special \in Url, SchedulePerformance(ps, expiration, default, special)
          PROVE  schedules'[t[1]] = schedules[t[1]]
      BY <1>1, <2>1 DEF SchedulePerformance, ContractInv, Types
    <2>2. ASSUME NEW ps \in Id, NEW url \in Url,
                 \/ SetTicketDefaultContentBaseUrl(ps, url)
                 \/ SetTicketSpecialContentBaseUrl(ps, url)
          PROVE  schedules'[t[1]].ticketExpirationTime = schedules[t[1]].ticketExpirationTime
      BY <1>1, <2>2, SetUrlEffect DEF ContractInv
    <2>3. CASE UNCHANGED schedules
      BY <2>3
    <2> QED
      BY <2>1, <2>2, <2>3
      DEF Next, MintTicket, RecordTicket, MarkTicketAsUsed, TransferFrom, NextBlock, vars
  <1>3. now \in Nat /\ now' \in Nat /\ now <= now'
    <2>1. now \in Nat
      BY TimeIsNatural DEF ContractInv, Types
    <2>2. CASE UNCHANGED now
      BY <2>1, <2>2
    <2>3. CASE \E time \in Time : NextBlock(time)
      BY <2>1, <2>3, TimeIsNatural DEF NextBlock
    <2>4. UNCHANGED now \/ \E time \in Time : NextBlock(time)
      BY DEF Next, SchedulePerformance, MintTicket, RecordTicket, MarkTicketAsUsed,
             SetTicketDefaultContentBaseUrl, SetTicketSpecialContentBaseUrl,
             TransferFrom, vars
    <2> QED  BY <2>2, <2>3, <2>4
  <1>4. schedules[t[1]].ticketExpirationTime \in Nat
    BY <1>1, TimeIsNatural DEF ContractInv, Types, ScheduleRecord
  <1> QED  BY <1>2, <1>3, <1>4 DEF TicketExpired

\* A ticket that shows its special content shows it until the URL is taken back
\* (tokenURI, Eticket.sol 193-210).
THEOREM SpecialContentRemains == Spec => SpecialContentStays
  <1>1. ASSUME ContractInv, [Next]_vars, NEW t \in Ticket,
               ShowsSpecial(t), schedules'[t[1]].specialUrl # NoUrl
        PROVE  ShowsSpecial(t)'
    <2>1. t \in UsedTickets /\ TicketExpired(t)
      BY <1>1, ShowsSpecialWhen
    <2>2. TicketExpired(t)'
      BY <1>1, <2>1, UsedIsScheduled, ExpiredStays
    <2>3. UsedTickets \subseteq UsedTickets'
      BY <1>1, MarkUsesOne, OthersKeepUsed
    <2>4. ShowsSpecial(t)' <=>
             t \in UsedTickets' /\ TicketExpired(t)' /\ schedules'[t[1]].specialUrl # NoUrl
      BY ShowsSpecialWhen
    <2> QED  BY <1>1, <2>1, <2>2, <2>3, <2>4
  <1>2. ContractInv /\ [Next]_vars =>
           [\A t \in Ticket :
               ShowsSpecial(t) /\ schedules'[t[1]].specialUrl # NoUrl
               => ShowsSpecial(t)']_vars
    BY <1>1
  <1> QED  BY <1>2, ContractInvariant, PTL DEF Spec, SpecialContentStays

-----------------------------------------------------------------------------
(* The contract implements the ledger.                                      *)

LEMMA InitLedger ==
    ASSUME Init
    PROVE  Ledger!Init
  <1>1. \A t \in Ticket : MakeTokenId(t[1], t[2]) \in TokenId
    BY TokenIdInRange DEF Ticket
  <1>2. UsedTickets = {}
    BY DEF Init, UsedTickets, TicketMinted, Ticket
  <1> QED  BY <1>1, <1>2 DEF Init, Unscheduled, Ledger!Init, Ledger!Ticket, Ticket

\* What the ledger sees of a state.
registered == {ps \in Id : schedules[ps].isScheduled}
holders == [t \in Ticket |-> ownerOf[MakeTokenId(t[1], t[2])]]
firstHolders == [t \in Ticket |-> issuedTo[MakeTokenId(t[1], t[2])]]

LEMMA ScheduleLedger ==
    ASSUME ContractInv, NEW ps \in Id, NEW expiration \in Time, NEW default \in Url,
           NEW special \in Url, SchedulePerformance(ps, expiration, default, special)
    PROVE  Ledger!Next
  <1>1. schedules \in [Id -> ScheduleRecord]
    BY DEF ContractInv, Types
  <1>2. ps \notin registered /\ registered' = registered \union {ps}
    BY <1>1 DEF SchedulePerformance, ScheduleOf, registered
  <1>3. UNCHANGED <<holders, firstHolders, UsedTickets>>
    BY DEF SchedulePerformance, holders, firstHolders, UsedTickets, TicketMinted, TicketRef
  <1>4. Ledger!SchedulePerformance(ps)
    BY <1>2, <1>3
    DEF Ledger!SchedulePerformance, Ledger!CanSchedule, registered, holders, firstHolders
  <1> QED  BY <1>4 DEF Ledger!Next

LEMMA MintLedger ==
    ASSUME ContractInv, NEW recipient \in Address, NEW ps \in Id, NEW seat \in Id,
           MintTicket(recipient, ps, seat)
    PROVE  Ledger!Next
  <1> DEFINE t == <<ps, seat>>
  <1>1. t \in Ticket
    BY DEF Ticket
  <1>2. /\ holders' = [holders EXCEPT ![t] = recipient]
        /\ firstHolders' = [firstHolders EXCEPT ![t] = recipient]
    <2>1. \A u \in Ticket :
             LET id == MakeTokenId(u[1], u[2])
             IN  /\ ownerOf'[id] = IF u = t THEN recipient ELSE ownerOf[id]
                 /\ issuedTo'[id] = IF u = t THEN recipient ELSE issuedTo[id]
      BY MintTicketEffect DEF ContractInv
    <2> QED  BY <1>1, <2>1 DEF holders, firstHolders
  <1>3. holders[t] = NoOne
    BY <1>1 DEF MintTicket, Owned, holders
  <1>4. t[1] \in registered /\ UNCHANGED registered /\ UNCHANGED UsedTickets
    BY DEF MintTicket, registered, UsedTickets, TicketMinted, TicketRef
  <1>5. Ledger!MintTicket(t, recipient)
    BY <1>2, <1>3, <1>4
    DEF Ledger!MintTicket, Ledger!CanMint, Ledger!Issued, registered, holders, firstHolders
  <1> QED  BY <1>1, <1>5 DEF Ledger!Next, Ledger!Ticket, Ticket

LEMMA TransferLedger ==
    ASSUME ContractInv, NEW id \in TokenId, NEW to \in Address, TransferFrom(id, to)
    PROVE  Ledger!Next
  <1>1. PICK ps \in Id, seat \in Id : id = MakeTokenId(ps, seat)
    BY TokenIdDecodes
  <1> DEFINE t == <<ps, seat>>
  <1>2. t \in Ticket
    BY DEF Ticket
  <1>3. \A u \in Ticket :
           /\ MakeTokenId(u[1], u[2]) \in TokenId
           /\ MakeTokenId(u[1], u[2]) = id => u = t
    BY <1>1, TokenIdInRange, TokenIdDetermines DEF Ticket
  <1>4. ownerOf' = [ownerOf EXCEPT ![id] = to] /\ ownerOf[id] # NoOne
    BY DEF TransferFrom
  <1>5. \A u \in Ticket :
           LET other == MakeTokenId(u[1], u[2])
           IN  ownerOf'[other] = IF u = t THEN to ELSE ownerOf[other]
    <2>1. ownerOf \in [TokenId -> Address \union {NoOne}]
      BY DEF ContractInv, Types
    <2> QED  BY <1>1, <1>3, <1>4, <2>1
  <1>6. holders' = [holders EXCEPT ![t] = to] /\ holders[t] # NoOne
    BY <1>1, <1>2, <1>4, <1>5 DEF holders
  <1>7. UNCHANGED <<registered, firstHolders, UsedTickets>>
    BY DEF TransferFrom, registered, firstHolders, UsedTickets, TicketMinted, TicketRef
  <1>8. Ledger!Transfer(t, to)
    BY <1>6, <1>7 DEF Ledger!Transfer, Ledger!Issued, registered, holders, firstHolders
  <1> QED  BY <1>2, <1>8 DEF Ledger!Next, Ledger!Ticket, Ticket

LEMMA MarkLedger ==
    ASSUME ContractInv, NEW ps \in Id, NEW seat \in Id, MarkTicketAsUsed(ps, seat)
    PROVE  Ledger!Next
  <1> DEFINE t == <<ps, seat>>
  <1>1. t \in Ticket /\ holders[t] # NoOne
    BY DEF Ticket, holders, MarkTicketAsUsed, Owned
  <1>2. UNCHANGED <<registered, holders, firstHolders>>
    BY DEF MarkTicketAsUsed, registered, holders, firstHolders
  <1>3. Ledger!MarkTicketAsUsed(t)
    BY <1>1, <1>2, MarkUsesOne
    DEF Ledger!MarkTicketAsUsed, Ledger!Issued, registered, holders, firstHolders
  <1> QED  BY <1>1, <1>3 DEF Ledger!Next, Ledger!Ticket, Ticket

\* The other steps are invisible to the ledger, the callback's return included.
LEMMA StepLedger ==
    ASSUME ContractInv, [Next]_vars
    PROVE  [Ledger!Next]_(Ledger!ledgerVars)
  <1>1. CASE UNCHANGED <<registered, holders, firstHolders, UsedTickets>>
    BY <1>1 DEF Ledger!ledgerVars, registered, holders, firstHolders
  <1>2. CASE RecordTicket
    <2>1. UNCHANGED <<schedules, ownerOf, issuedTo>>
      BY <1>2 DEF RecordTicket
    <2> QED  BY <1>1, <1>2, <2>1, RecordKeepsUsed DEF registered, holders, firstHolders
  <1>3. ASSUME NEW ps \in Id, NEW url \in Url,
               \/ SetTicketDefaultContentBaseUrl(ps, url)
               \/ SetTicketSpecialContentBaseUrl(ps, url)
        PROVE  UNCHANGED <<registered, holders, firstHolders, UsedTickets>>
    <2>1. \A qs \in Id : schedules'[qs].isScheduled = schedules[qs].isScheduled
      BY <1>3, SetUrlEffect DEF ContractInv
    <2>2. UNCHANGED <<ticketIndices, tickets, ownerOf, issuedTo>>
      BY <1>3, SetUrlEffect DEF ContractInv
    <2> QED
      BY <2>1, <2>2 DEF registered, holders, firstHolders, UsedTickets, TicketMinted, TicketRef
  <1>4. ASSUME \/ UNCHANGED vars
               \/ \E t \in Time : NextBlock(t)
        PROVE  UNCHANGED <<registered, holders, firstHolders, UsedTickets>>
    BY <1>4
    DEF NextBlock, vars, registered, holders, firstHolders, UsedTickets, TicketMinted, TicketRef
  <1> QED
    BY <1>1, <1>2, <1>3, <1>4, ScheduleLedger, MintLedger, TransferLedger, MarkLedger DEF Next

\* The contract is an implementation of the ledger, for every width of the ids.
THEOREM ContractImplementsLedger == Spec => ImplementsLedger
  <1>1. Spec => [][Ledger!Next]_(Ledger!ledgerVars)
    BY StepLedger, ContractInvariant, PTL DEF Spec
  <1> QED  BY <1>1, InitLedger, PTL DEF Spec, ImplementsLedger, Ledger!Spec

-----------------------------------------------------------------------------
(* What the contract inherits from the ledger.                              *)

Promised == INSTANCE LedgerProofs WITH
    Schedule <- Id,
    Seat <- Id,
    scheduled <- {ps \in Id : schedules[ps].isScheduled},
    owner <- [t \in Ticket |-> ownerOf[MakeTokenId(t[1], t[2])]],
    issuedTo <- [t \in Ticket |-> issuedTo[MakeTokenId(t[1], t[2])]],
    used <- UsedTickets

\* The theorems about the ledger are about this one.
LEMMA SameLedger ==
    /\ Ledger!Init => Promised!Init
    /\ [Ledger!Next]_(Ledger!ledgerVars) => [Promised!Next]_(Promised!ledgerVars)
    /\ Promised!RecordsAgree => Ledger!RecordsAgree
    /\ [Promised!StaysIssued]_(Promised!ledgerVars) => [Ledger!StaysIssued]_(Ledger!ledgerVars)
  <1> USE DEF Ledger!Ticket, Promised!Ticket, Ledger!Issued, Promised!Issued,
              Ledger!ledgerVars, Promised!ledgerVars
  <1>1. Ledger!Init => Promised!Init
    BY DEF Ledger!Init, Promised!Init
  <1>2. [Ledger!Next]_(Ledger!ledgerVars) => [Promised!Next]_(Promised!ledgerVars)
    BY DEF Ledger!Next, Promised!Next,
           Ledger!SchedulePerformance, Promised!SchedulePerformance,
           Ledger!CanSchedule, Promised!CanSchedule, Ledger!MintTicket, Promised!MintTicket,
           Ledger!CanMint, Promised!CanMint, Ledger!Transfer, Promised!Transfer,
           Ledger!MarkTicketAsUsed, Promised!MarkTicketAsUsed
  <1>3. Promised!RecordsAgree => Ledger!RecordsAgree
    BY DEF Ledger!RecordsAgree, Promised!RecordsAgree
  <1>4. [Promised!StaysIssued]_(Promised!ledgerVars) => [Ledger!StaysIssued]_(Ledger!ledgerVars)
    BY DEF Ledger!StaysIssued, Promised!StaysIssued
  <1> QED  BY <1>1, <1>2, <1>3, <1>4

LEMMA LedgerPromised == Spec => Promised!Spec
  BY SameLedger, ContractImplementsLedger, PTL DEF ImplementsLedger, Ledger!Spec, Promised!Spec

\* A seat has a holder exactly if it was issued, only seats of registered schedules are
\* issued, and only issued tickets are used, for every width of the ids.
THEOREM ContractRecordsAgree == Spec => []Ledger!RecordsAgree
  <1>1. Promised!Spec => []Promised!RecordsAgree
    BY Promised!RecordsAlwaysAgree, NoOneIsNotAnAddress
  <1> QED  BY <1>1, SameLedger, LedgerPromised, PTL

\* Nothing takes a ticket back: it stays issued to the same first holder, and used once it is.
THEOREM ContractIssuesForGood == Spec => Ledger!IssuedForGood
  <1>1. Promised!Spec => Promised!IssuedForGood
    BY Promised!TicketsAreForGood, NoOneIsNotAnAddress
  <1> QED  BY <1>1, SameLedger, LedgerPromised, PTL DEF Promised!IssuedForGood, Ledger!IssuedForGood

=============================================================================
