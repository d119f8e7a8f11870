---------------------------- MODULE LedgerProofs ----------------------------
(***************************************************************************)
(* What TicketLedger implies, for all schedules, seats and accounts.  Who  *)
(* implements the ledger inherits it.                                      *)
(***************************************************************************)
EXTENDS TicketLedger, TLAPS

LEMMA NextTypeOK ==
    ASSUME TypeOK, [Next]_ledgerVars
    PROVE  TypeOK'
  <1> USE DEF TypeOK, Ticket
  <1>1. ASSUME NEW s \in Schedule, SchedulePerformance(s) PROVE TypeOK'
    BY <1>1 DEF SchedulePerformance
  <1>2. ASSUME NEW t \in Ticket, NEW a \in Address, MintTicket(t, a) PROVE TypeOK'
    BY <1>2 DEF MintTicket
  <1>3. ASSUME NEW t \in Ticket, NEW a \in Address, Transfer(t, a) PROVE TypeOK'
    BY <1>3 DEF Transfer
  <1>4. ASSUME NEW t \in Ticket, MarkTicketAsUsed(t) PROVE TypeOK'
    BY <1>4 DEF MarkTicketAsUsed
  <1>5. CASE UNCHANGED ledgerVars
    BY <1>5 DEF ledgerVars
  <1> QED  BY <1>1, <1>2, <1>3, <1>4, <1>5 DEF Next

\* Every variable of the ledger keeps its type.
THEOREM TypeCorrect == Spec => []TypeOK
  <1>1. Init => TypeOK
    BY DEF Init, TypeOK
  <1> QED  BY <1>1, NextTypeOK, PTL DEF Spec

LEMMA NextRecordsAgree ==
    ASSUME NoOne \notin Address, TypeOK, RecordsAgree, [Next]_ledgerVars
    PROVE  RecordsAgree'
  <1> USE DEF TypeOK, RecordsAgree, Issued
  <1>1. ASSUME NEW s \in Schedule, SchedulePerformance(s) PROVE RecordsAgree'
    BY <1>1 DEF SchedulePerformance
  <1>2. ASSUME NEW t \in Ticket, NEW a \in Address, MintTicket(t, a) PROVE RecordsAgree'
    BY <1>2 DEF MintTicket, CanMint
  <1>3. ASSUME NEW t \in Ticket, NEW a \in Address, Transfer(t, a) PROVE RecordsAgree'
    BY <1>3 DEF Transfer
  <1>4. ASSUME NEW t \in Ticket, MarkTicketAsUsed(t) PROVE RecordsAgree'
    BY <1>4 DEF MarkTicketAsUsed
  <1>5. CASE UNCHANGED ledgerVars
    BY <1>5 DEF ledgerVars
  <1> QED  BY <1>1, <1>2, <1>3, <1>4, <1>5 DEF Next

\* The records of the ledger agree.
THEOREM RecordsAlwaysAgree ==
    ASSUME NoOne \notin Address
    PROVE  Spec => []RecordsAgree
  <1>1. Init => RecordsAgree
    BY DEF Init, RecordsAgree, Issued
  <1>2. TypeOK /\ RecordsAgree /\ [Next]_ledgerVars => RecordsAgree'
    BY NextRecordsAgree
  <1> QED  BY <1>1, <1>2, TypeCorrect, PTL DEF Spec

LEMMA StepKeepsIssued ==
    ASSUME NoOne \notin Address, TypeOK, [Next]_ledgerVars, NEW t \in Ticket, Issued(t)
    PROVE  Issued(t)' /\ issuedTo'[t] = issuedTo[t] /\ (t \in used => t \in used')
  <1> USE DEF TypeOK, Issued
  <1>1. ASSUME NEW s \in Schedule, SchedulePerformance(s)
        PROVE  UNCHANGED <<owner, issuedTo, used>>
    BY <1>1 DEF SchedulePerformance
  <1>2. ASSUME NEW u \in Ticket, NEW a \in Address, MintTicket(u, a)
        PROVE  /\ u # t
               /\ owner'[t] = owner[t] /\ issuedTo'[t] = issuedTo[t] /\ used' = used
    BY <1>2 DEF MintTicket, CanMint
  <1>3. ASSUME NEW u \in Ticket, NEW a \in Address, Transfer(u, a)
        PROVE  owner'[t] # NoOne /\ issuedTo' = issuedTo /\ used' = used
    BY <1>3 DEF Transfer
  <1>4. ASSUME NEW u \in Ticket, MarkTicketAsUsed(u)
        PROVE  used \subseteq used' /\ UNCHANGED <<owner, issuedTo>>
    BY <1>4 DEF MarkTicketAsUsed
  <1>5. CASE UNCHANGED ledgerVars
    BY <1>5 DEF ledgerVars
  <1> QED  BY <1>1, <1>2, <1>3, <1>4, <1>5 DEF Next

\* A ticket is issued for good, and its first holder is nobody else later on.
THEOREM TicketsAreForGood ==
    ASSUME NoOne \notin Address
    PROVE  Spec => IssuedForGood
  <1>1. TypeOK /\ [Next]_ledgerVars => [StaysIssued]_ledgerVars
    BY StepKeepsIssued DEF StaysIssued
  <1> QED  BY <1>1, TypeCorrect, PTL DEF Spec, IssuedForGood
=============================================================================
