----------------------------- MODULE BoxOffice -----------------------------
(***************************************************************************)
(* What the platform promises to its users, without tables, queues,        *)
(* workers or transactions: a ticket is issued once, and to an account     *)
(* that had a claim on it by then.  Claims come up when users reserve      *)
(* seats, register wallets and the day of the performance comes; none is   *)
(* withdrawn, for a cancel that comes too late does not keep the ticket    *)
(* from being issued.  Minter implements it.                               *)
(***************************************************************************)
CONSTANTS
    Ticket,
    Address,    \* accounts that can hold a ticket
    NoOne       \* no account

VARIABLES
    claims,     \* pairs of a ticket and an account it may be issued to
    issued      \* the account each ticket was issued to, NoOne if not issued

office == <<claims, issued>>

Init ==
    /\ claims = {}
    /\ issued = [t \in Ticket |-> NoOne]

ComeUp ==
    /\ claims \subseteq claims'
    /\ claims' \subseteq Ticket \X Address
    /\ UNCHANGED issued

Issue(t) ==
    /\ issued[t] = NoOne
    /\ <<t, issued'[t]>> \in claims
    /\ issued' = [issued EXCEPT ![t] = issued'[t]]
    /\ UNCHANGED claims

Next == ComeUp \/ \E t \in Ticket : Issue(t)

Spec == Init /\ [][Next]_office
=============================================================================
