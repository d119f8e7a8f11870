------------------------------- MODULE Eticket -------------------------------
(***************************************************************************)
(* The ERC721 contract Eticket.sol.  A ticket is stored twice: the base    *)
(* contract maps its token id to an owner, and the schedule it belongs to  *)
(* maps the seat to a 1-based index into an array of Ticket structs (index *)
(* 0 says "not minted").  mintTicket writes the owner first, then hands    *)
(* control to the recipient (onERC721Received, called by _safeMint), and   *)
(* only then writes the index: `minting` is the ticket for which that call *)
(* is running.  A transaction that reverts changes nothing and is not a    *)
(* step here, so a recipient that refuses the ticket leaves no trace.      *)
(***************************************************************************)
EXTENDS Naturals, Sequences

CONSTANTS
    Width,     \* schedule and seat ids are below Width (2^32 in the contract)
    Address,   \* accounts that can hold a token
    NoOne,     \* the zero address
    Url,       \* content base URLs
    NoUrl,     \* the empty URL
    Time       \* block timestamps and expiration times

ASSUME WidthIsPositive == Width \in Nat \ {0}
ASSUME NoOneIsNotAnAddress == NoOne \notin Address
ASSUME NoUrlIsAUrl == NoUrl \in Url
ASSUME TimeIsNatural == Time \subseteq Nat /\ 0 \in Time

VARIABLES
    schedules,      \* PerformanceSchedule: isScheduled, expiration time, base URLs
    ticketIndices,  \* PerformanceSchedule.ticketIndices, by schedule and seat
    tickets,        \* PerformanceSchedule.tickets, by schedule: the isUsed flags
    ownerOf,        \* ERC721: the owner of each token id, NoOne if there is none
    issuedTo,       \* the Transfer events from the zero address, by token id
    minting,        \* <<schedule, seat>> while its recipient's callback runs
    now             \* block.timestamp

vars == <<schedules, ticketIndices, tickets, ownerOf, issuedTo, minting, now>>

Id == 0 .. Width - 1                   \* uint32
Ticket == Id \X Id                     \* <<schedule, seat>>
TokenId == 0 .. Width * Width - 1      \* the low 64 bits of a uint256
NotMinting == <<>>

-----------------------------------------------------------------------------
(* Token ids: (schedule << 32) | seat.  The two halves do not overlap, so   *)
(* the bitwise or is a sum.                                                 *)

MakeTokenIdWithoutShift(ps, seat) == ps + seat     \* variant: the shift is lost

MakeTokenId(ps, seat) == ps * Width + seat

ObtainPerformanceScheduleId(id) == (id \div Width) % Width

ObtainSeatId(id) == id % Width

-----------------------------------------------------------------------------
(* Views.  In _unsafe_ticketRef the index is used without a check: for an   *)
(* index of 0 the subtraction underflows and the call reverts.              *)

TicketMinted(t) == ticketIndices[t[1]][t[2]] # 0

Owned(t) == ownerOf[MakeTokenId(t[1], t[2])] # NoOne

TicketRef(t) == tickets[t[1]][ticketIndices[t[1]][t[2]]]

TicketExpired(t) == schedules[t[1]].ticketExpirationTime <= now

\* tokenURI: which content a minted token shows.
TokenURI(id) ==
    LET t == <<ObtainPerformanceScheduleId(id), ObtainSeatId(id)>>
        default == [content |-> "default", base |-> schedules[t[1]].defaultUrl]
        special == [content |-> "special", base |-> schedules[t[1]].specialUrl]
    IN  IF TicketExpired(t) /\ TicketRef(t) /\ special.base # NoUrl
        THEN special
        ELSE default

-----------------------------------------------------------------------------
Unscheduled ==
    [isScheduled |-> FALSE, ticketExpirationTime |-> 0,
     defaultUrl |-> NoUrl, specialUrl |-> NoUrl]

Init ==
    /\ schedules = [ps \in Id |-> Unscheduled]
    /\ ticketIndices = [ps \in Id |-> [seat \in Id |-> 0]]
    /\ tickets = [ps \in Id |-> <<>>]
    /\ ownerOf = [id \in TokenId |-> NoOne]
    /\ issuedTo = [id \in TokenId |-> NoOne]
    /\ minting = NotMinting
    /\ now = 0

\* The owner of the contract sends a transaction: no other one is running.
NewTransaction == minting = NotMinting

ScheduleOf(expiration, defaultUrl, specialUrl) ==
    [isScheduled |-> TRUE, ticketExpirationTime |-> expiration,
     defaultUrl |-> defaultUrl, specialUrl |-> specialUrl]

\* Variant: the "already scheduled" requirement is missing.
ReschedulePerformance(ps, expiration, defaultUrl, specialUrl) ==
    /\ NewTransaction
    /\ schedules' = [schedules EXCEPT ![ps] = ScheduleOf(expiration, defaultUrl, specialUrl)]
    /\ UNCHANGED <<ticketIndices, tickets, ownerOf, issuedTo, minting, now>>

SchedulePerformance(ps, expiration, defaultUrl, specialUrl) ==
    /\ NewTransaction
    /\ ~schedules[ps].isScheduled
    /\ schedules' = [schedules EXCEPT ![ps] = ScheduleOf(expiration, defaultUrl, specialUrl)]
    /\ UNCHANGED <<ticketIndices, tickets, ownerOf, issuedTo, minting, now>>

\* Variant: the "scheduled" requirement is missing.
MintUnscheduledTicket(recipient, ps, seat) ==
    /\ NewTransaction
    /\ ~TicketMinted(<<ps, seat>>)
    /\ ~Owned(<<ps, seat>>)
    /\ ownerOf' = [ownerOf EXCEPT ![MakeTokenId(ps, seat)] = recipient]
    /\ issuedTo' = [issuedTo EXCEPT ![MakeTokenId(ps, seat)] = recipient]
    /\ minting' = <<ps, seat>>
    /\ UNCHANGED <<schedules, ticketIndices, tickets, now>>

\* _mintTicket up to the recipient's callback: _safeMint has assigned the owner.
MintTicket(recipient, ps, seat) ==
    /\ NewTransaction
    /\ schedules[ps].isScheduled
    /\ ~TicketMinted(<<ps, seat>>)
    /\ ~Owned(<<ps, seat>>)
    /\ ownerOf' = [ownerOf EXCEPT ![MakeTokenId(ps, seat)] = recipient]
    /\ issuedTo' = [issuedTo EXCEPT ![MakeTokenId(ps, seat)] = recipient]
    /\ minting' = <<ps, seat>>
    /\ UNCHANGED <<schedules, ticketIndices, tickets, now>>

\* Variants: the length read before the push; an index beyond the element pushed.
LengthBeforePush(ps) == Len(tickets[ps])
IndexBeyondArray(ps) == Len(tickets[ps]) + 2

NextIndex(ps) == Len(tickets[ps]) + 1

\* The callback returned: push the Ticket, then index it by the array's new length.
RecordTicket ==
    /\ minting # NotMinting
    /\ LET ps == minting[1]
           seat == minting[2]
       IN  /\ tickets' = [tickets EXCEPT ![ps] = Append(@, FALSE)]
           /\ ticketIndices' = [ticketIndices EXCEPT ![ps][seat] = NextIndex(ps)]
    /\ minting' = NotMinting
    /\ UNCHANGED <<schedules, ownerOf, issuedTo, now>>

\* Variant: the latest ticket is marked instead of the seat's.
MarkLatestTicketAsUsed(ps, seat) ==
    /\ NewTransaction
    /\ schedules[ps].isScheduled
    /\ Owned(<<ps, seat>>)
    /\ tickets' = [tickets EXCEPT ![ps][Len(tickets[ps])] = TRUE]
    /\ UNCHANGED <<schedules, ticketIndices, ownerOf, issuedTo, minting, now>>

MarkTicketAsUsed(ps, seat) ==
    /\ NewTransaction
    /\ schedules[ps].isScheduled
    /\ Owned(<<ps, seat>>)
    /\ ticketIndices[ps][seat] # 0      \* _unsafe_ticketRef reverts otherwise
    /\ tickets' = [tickets EXCEPT ![ps][ticketIndices[ps][seat]] = TRUE]
    /\ UNCHANGED <<schedules, ticketIndices, ownerOf, issuedTo, minting, now>>

SetTicketDefaultContentBaseUrl(ps, url) ==
    /\ NewTransaction
    /\ schedules[ps].isScheduled
    /\ schedules' = [schedules EXCEPT ![ps].defaultUrl = url]
    /\ UNCHANGED <<ticketIndices, tickets, ownerOf, issuedTo, minting, now>>

SetTicketSpecialContentBaseUrl(ps, url) ==
    /\ NewTransaction
    /\ schedules[ps].isScheduled
    /\ schedules' = [schedules EXCEPT ![ps].specialUrl = url]
    /\ UNCHANGED <<ticketIndices, tickets, ownerOf, issuedTo, minting, now>>

\* ERC721 transferFrom: by the holder, in a transaction of its own or, for any token
\* it holds, from inside the recipient's callback.
TransferFrom(id, to) ==
    /\ ownerOf[id] # NoOne
    /\ ownerOf' = [ownerOf EXCEPT ![id] = to]
    /\ UNCHANGED <<schedules, ticketIndices, tickets, issuedTo, minting, now>>

\* A later block.
NextBlock(t) ==
    /\ NewTransaction
    /\ now < t
    /\ now' = t
    /\ UNCHANGED <<schedules, ticketIndices, tickets, ownerOf, issuedTo, minting>>

Next ==
    \/ \E ps \in Id, expiration \in Time, default, special \in Url :
          SchedulePerformance(ps, expiration, default, special)
    \/ \E recipient \in Address, ps, seat \in Id : MintTicket(recipient, ps, seat)
    \/ RecordTicket
    \/ \E ps, seat \in Id : MarkTicketAsUsed(ps, seat)
    \/ \E ps \in Id, url \in Url : SetTicketDefaultContentBaseUrl(ps, url)
    \/ \E ps \in Id, url \in Url : SetTicketSpecialContentBaseUrl(ps, url)
    \/ \E id \in TokenId, to \in Address : TransferFrom(id, to)
    \/ \E t \in Time : NextBlock(t)

Spec == Init /\ [][Next]_vars

-----------------------------------------------------------------------------
ScheduleRecord ==
    [isScheduled : BOOLEAN, ticketExpirationTime : Time,
     defaultUrl : Url, specialUrl : Url]

Types ==
    /\ schedules \in [Id -> ScheduleRecord]
    /\ ticketIndices \in [Id -> [Id -> Nat]]
    /\ tickets \in [Id -> Seq(BOOLEAN)]
    /\ ownerOf \in [TokenId -> Address \union {NoOne}]
    /\ issuedTo \in [TokenId -> Address \union {NoOne}]
    /\ minting \in Ticket \union {NotMinting}
    /\ now \in Time

IndicesInRange ==
    \A ps, seat \in Id : ticketIndices[ps][seat] <= Len(tickets[ps])

\* The type of every variable of the contract; that of an index is a position of the array
\* it points into, or 0.
TypeOK == Types /\ IndicesInRange

IndicesDistinct ==
    \A ps, seat1, seat2 \in Id :
        /\ seat1 # seat2
        /\ ticketIndices[ps][seat1] # 0
        => ticketIndices[ps][seat1] # ticketIndices[ps][seat2]

EveryTicketHasASeat ==
    \A ps \in Id : \A i \in 1 .. Len(tickets[ps]) :
        \E seat \in Id : ticketIndices[ps][seat] = i

\* Within a schedule the seats with an index share out the array: every index is in
\* range, no two seats have the same one, and every element belongs to a seat.  It is
\* what lets _unsafe_ticketRef (lines 67-71) read one seat's flag and no other's.
SeatsShareOutTickets == IndicesInRange /\ IndicesDistinct /\ EveryTicketHasASeat

\* The two records of a ticket agree: a seat has an index exactly when its token has an
\* owner, but for the one ticket whose recipient is being called back, which has an owner
\* and no index yet (lines 134-137); and both exist only for scheduled performances.
IndexAgreesWithOwner ==
    \A t \in Ticket :
        /\ t = minting => Owned(t) /\ ~TicketMinted(t)
        /\ t # minting => (TicketMinted(t) <=> Owned(t))
        /\ Owned(t) => schedules[t[1]].isScheduled

ShowsSpecial(t) ==
    TicketMinted(t) /\ TokenURI(MakeTokenId(t[1], t[2])).content = "special"

\* A ticket that shows its special content (it was used and the performance is over)
\* goes on showing it: whatever else is minted, marked or transferred, only taking the
\* special URL back can hide it (tokenURI, lines 193-210).
SpecialContentStays ==
    [][\A t \in Ticket :
         ShowsSpecial(t) /\ schedules'[t[1]].specialUrl # NoUrl => ShowsSpecial(t)']_vars

UsedTickets == {t \in Ticket : TicketMinted(t) /\ TicketRef(t)}

\* markTicketAsUsed (lines 104-110) uses the ticket of the seat it names and no other,
\* in whatever order the seats of the schedule were minted.
MarksOneTicket ==
    [][\A t \in Ticket : MarkTicketAsUsed(t[1], t[2]) =>
          UsedTickets' = UsedTickets \union {t}]_vars

-----------------------------------------------------------------------------
(* The contract implements the ledger the other components rely on.         *)

Ledger == INSTANCE TicketLedger WITH
    Schedule <- Id,
    Seat <- Id,
    scheduled <- {ps \in Id : schedules[ps].isScheduled},
    owner <- [t \in Ticket |-> ownerOf[MakeTokenId(t[1], t[2])]],
    issuedTo <- [t \in Ticket |-> issuedTo[MakeTokenId(t[1], t[2])]],
    used <- UsedTickets

\* Every step of the contract is a step of the ledger, or invisible to it: a schedule is
\* registered once, a seat is issued once and keeps a holder, marking a ticket as used
\* marks that ticket alone.
ImplementsLedger == Ledger!Spec
=============================================================================
