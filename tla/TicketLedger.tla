---------------------------- MODULE TicketLedger ----------------------------
(***************************************************************************)
(* What the ticket contract promises to the rest of the platform, without  *)
(* token ids, storage slots or callbacks: a performance is scheduled once, *)
(* a seat of a scheduled performance is issued at most once, an issued     *)
(* ticket always has a holder, and only an issued ticket can be used.      *)
(* Eticket implements it; Minter, the service that issues the tickets,     *)
(* takes from it what a transaction needs to succeed.                      *)
(***************************************************************************)
CONSTANTS
    Schedule,   \* performance schedules
    Seat,       \* seats of the hall
    Address,    \* accounts that can hold a ticket
    NoOne       \* the zero address, which is not in Address

VARIABLES
    scheduled,  \* the performance schedules registered so far
    owner,      \* the holder of each ticket, NoOne while it is not issued
    issuedTo,   \* its first holder: the Transfer event from the zero address
    used        \* the tickets marked as used

ledgerVars == <<scheduled, owner, issuedTo, used>>

Ticket == Schedule \X Seat

Init ==
    /\ scheduled = {}
    /\ owner = [t \in Ticket |-> NoOne]
    /\ issuedTo = [t \in Ticket |-> NoOne]
    /\ used = {}

Issued(t) == owner[t] # NoOne

\* schedulePerformance reverts for a schedule that is already registered.
CanSchedule(s) == s \notin scheduled

SchedulePerformance(s) ==
    /\ CanSchedule(s)
    /\ scheduled' = scheduled \union {s}
    /\ UNCHANGED <<owner, issuedTo, used>>

\* mintTicket reverts when the schedule is unknown, when the seat was issued before,
\* and (in the ERC721 base contract) when the recipient is the zero address.
CanMint(t, a) ==
    /\ t[1] \in scheduled
    /\ ~Issued(t)
    /\ a \in Address

MintTicket(t, a) ==
    /\ CanMint(t, a)
    /\ owner' = [owner EXCEPT ![t] = a]
    /\ issuedTo' = [issuedTo EXCEPT ![t] = a]
    /\ UNCHANGED <<scheduled, used>>

\* The holder gives the ticket away (ERC721).
Transfer(t, a) ==
    /\ Issued(t)
    /\ a \in Address
    /\ owner' = [owner EXCEPT ![t] = a]
    /\ UNCHANGED <<scheduled, issuedTo, used>>

MarkTicketAsUsed(t) ==
    /\ Issued(t)
    /\ used' = used \union {t}
    /\ UNCHANGED <<scheduled, owner, issuedTo>>

Next ==
    \/ \E s \in Schedule : SchedulePerformance(s)
    \/ \E t \in Ticket, a \in Address : MintTicket(t, a) \/ Transfer(t, a)
    \/ \E t \in Ticket : MarkTicketAsUsed(t)

Spec == Init /\ [][Next]_ledgerVars
-----------------------------------------------------------------------------
(* What follows for everybody who relies on the ledger.                     *)

TypeOK ==
    /\ scheduled \subseteq Schedule
    /\ owner \in [Ticket -> Address \union {NoOne}]
    /\ issuedTo \in [Ticket -> Address \union {NoOne}]
    /\ used \subseteq Ticket

\* A ticket has a first holder exactly if it has one now, it is for a performance that is
\* registered, and no ticket was used that was not issued (Eticket.sol 104-142).
RecordsAgree ==
    \A t \in Ticket :
        /\ issuedTo[t] = NoOne <=> owner[t] = NoOne
        /\ Issued(t) => t[1] \in scheduled
        /\ t \in used => Issued(t)

\* Whatever else happens to it, a ticket that was issued stays issued, to the same first
\* holder, and a ticket that was used stays used.
StaysIssued ==
    \A t \in Ticket : Issued(t) =>
        /\ Issued(t)'
        /\ issuedTo'[t] = issuedTo[t]
        /\ t \in used => t \in used'

IssuedForGood == [][StaysIssued]_ledgerVars
=============================================================================
