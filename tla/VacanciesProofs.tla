-------------------------- MODULE VacanciesProofs --------------------------
(***************************************************************************)
(* Proofs about Vacancies, for all sets of sections, seats and requests.   *)
(***************************************************************************)
EXTENDS Vacancies, TLAPS

\* Some request has put its table for the seat.
Taken(section, seat) == \E q \in marked : Wanted[q] = <<section, seat>>

\* A seat shown as preempted, in Redis or in a copy, was preempted by somebody, and a
\* request at work has not preempted anything yet.
HonestInv ==
    /\ \A section \in Section, seat \in Seat : IsPreempted(section, seat) => Taken(section, seat)
    /\ \A r \in Request, seat \in Seat :
          stage[r] = "read" /\ copy[r][seat] = "PREEMPTED" => Taken(Wanted[r][1], seat)
    /\ \A r \in Request : stage[r] \in {"sent", "read"} => r \notin marked
    /\ RefusalIsHonest

\* The seat of a request is one of a section.
LEMMA WantedSeat ==
    ASSUME NEW r \in Request
    PROVE  /\ Wanted[r][1] \in Section /\ Wanted[r][2] \in Seat
           /\ Wanted[r] = <<Wanted[r][1], Wanted[r][2]>>
           /\ WantedKey(r) = Wanted[r][1]
BY VacanciesAssumption DEF WantedKey, Key

-----------------------------------------------------------------------------
\* Every step keeps the types, and a copy under work shows its seat for sale.
LEMMA StepKeepsTypes ==
    ASSUME TypeOK, [Next]_vars
    PROVE  TypeOK'
<1> USE VacanciesAssumption DEF TypeOK, Stage, Answer, Key
<1>1. CASE UNCHANGED vars
  BY <1>1 DEF vars, fillers
<1>2. ASSUME NEW r \in Request, ReadTable(r) PROVE TypeOK'
  <2>1. Wanted[r][1] \in Section /\ WantedKey(r) = Wanted[r][1]
    BY WantedSeat
  <2>2. CASE table[WantedKey(r)] = NoTable
    BY <1>2, <2>2 DEF ReadTable, fillers
  <2>3. CASE table[WantedKey(r)] # NoTable
    <3>1. table[WantedKey(r)] \in Table
      BY <2>1, <2>3
    <3> QED
      BY <1>2, <2>3, <3>1 DEF ReadTable, IsOnSale, fillers
  <2> QED
    BY <2>2, <2>3
<1>3. ASSUME NEW r \in Request, PutTable(r) PROVE TypeOK'
  <2>1. Wanted[r][1] \in Section /\ Wanted[r][2] \in Seat /\ WantedKey(r) = Wanted[r][1]
    BY WantedSeat
  <2>2. copy[r] \in Table
    BY <1>3 DEF PutTable
  <2>3. Marked(r) \in Table
    BY <2>1, <2>2 DEF Marked, Table, Status
  <2>4. table' \in [Section -> Table \union {NoTable}] /\ raced' \subseteq Section
    BY <1>3, <2>1, <2>3 DEF PutTable, Put
  <2> QED
    BY <1>3, <2>4 DEF PutTable, fillers
<1>4. ASSUME NEW r \in Request, Grant(r) PROVE TypeOK'
  BY <1>4 DEF Grant, fillers
<1>5. ASSUME NEW f \in Filler, StartFill(f) PROVE TypeOK'
  BY <1>5 DEF StartFill
<1>6. ASSUME NEW f \in Filler, NEW s \in Section, HasKey(f, s) PROVE TypeOK'
  BY <1>6 DEF HasKey
<1>7. ASSUME NEW f \in Filler, NEW s \in Section, PutFreeTable(f, s) PROVE TypeOK'
  <2>1. FreeTable \in Table
    BY DEF FreeTable, Table, Status
  <2> QED
    BY <1>7, <2>1 DEF PutFreeTable, Put
<1>8. CASE Crash
  BY <1>8 DEF Crash
<1> QED
  BY <1>1, <1>2, <1>3, <1>4, <1>5, <1>6, <1>7, <1>8 DEF Next

\* Every variable keeps its type.
THEOREM TypeCorrect == Spec => []TypeOK
<1>1. Init => TypeOK
  BY DEF Init, TypeOK, Stage
<1> QED
  BY <1>1, StepKeepsTypes, PTL DEF Spec

-----------------------------------------------------------------------------
\* Every step keeps the table of a section exact, unless it makes the section raced.
LEMMA StepKeepsTableExact ==
    ASSUME TypeOK, TableIsExact, [Next]_vars
    PROVE  TableIsExact'
<1> USE DEF TableIsExact, IsPreempted
<1>1. CASE UNCHANGED <<table, marked, raced>>
  BY <1>1
<1>2. ASSUME NEW r \in Request, PutTable(r) PROVE TableIsExact'
  <2>1. /\ Wanted[r][1] \in Section /\ Wanted[r][2] \in Seat
        /\ Wanted[r] = <<Wanted[r][1], Wanted[r][2]>>
        /\ WantedKey(r) = Wanted[r][1]
    BY WantedSeat
  <2>2. /\ copy[r] \in Table /\ copy[r] # NoTable
        /\ copy[r][Wanted[r][2]] = "ONSALE"
    BY <1>2 DEF PutTable, TypeOK
  <2>3. /\ table' = [table EXCEPT ![Wanted[r][1]] = Marked(r)]
        /\ raced' = IF table[Wanted[r][1]] = copy[r]
                    THEN raced ELSE raced \union {Wanted[r][1]}
        /\ marked' = marked \union {r}
    BY <1>2, <2>1 DEF PutTable, Put
  <2>4. Marked(r) # NoTable /\ Marked(r) \in Table
    BY <2>1, <2>2, VacanciesAssumption DEF Marked, Table, Status
  <2> SUFFICES ASSUME NEW section \in Section \ raced', NEW seat \in Seat
               PROVE  LET takers == {q \in marked' : Wanted[q] = <<section, seat>>}
                      IN  /\ IsPreempted(section, seat)' <=> takers # {}
                          /\ \A p, q \in takers : p = q
    OBVIOUS
  <2>5. section \in Section \ raced
    BY <2>3
  <2>6. CASE section # Wanted[r][1]
    <3>1. table'[section] = table[section]
      BY <2>3, <2>5, <2>6 DEF TypeOK
    <3>2. {q \in marked' : Wanted[q] = <<section, seat>>}
            = {q \in marked : Wanted[q] = <<section, seat>>}
      BY <2>1, <2>3, <2>6
    <3> QED
      BY <2>5, <3>1, <3>2
  <2>7. CASE section = Wanted[r][1]
    <3>1. table[section] = copy[r]
      BY <2>3, <2>7
    <3>2. table'[section] = Marked(r)
      BY <2>1, <2>3, <2>7 DEF TypeOK
    <3>3. CASE seat = Wanted[r][2]
      <4>1. ~IsPreempted(section, seat)
        BY <2>2, <3>1, <3>3
      <4>2. {q \in marked : Wanted[q] = <<section, seat>>} = {}
        BY <2>5, <4>1
      <4>3. {q \in marked' : Wanted[q] = <<section, seat>>} = {r}
        BY <2>1, <2>3, <2>7, <3>3, <4>2
      <4>4. Marked(r)[seat] = "PREEMPTED"
        BY <2>1, <2>2, <3>3 DEF Marked, Table
      <4> QED
        BY <2>4, <3>2, <4>3, <4>4
    <3>4. CASE seat # Wanted[r][2]
      <4>1. Marked(r)[seat] = copy[r][seat]
        BY <2>2, <3>4 DEF Marked, Table
      <4>2. {q \in marked' : Wanted[q] = <<section, seat>>}
              = {q \in marked : Wanted[q] = <<section, seat>>}
        BY <2>1, <2>3, <3>4
      <4> QED
        BY <2>2, <2>4, <2>5, <3>1, <3>2, <4>1, <4>2
    <3> QED
      BY <3>3, <3>4
  <2> QED
    BY <2>6, <2>7
<1>3. ASSUME NEW f \in Filler, NEW s \in Section, PutFreeTable(f, s) PROVE TableIsExact'
  <2>1. /\ table' = [table EXCEPT ![s] = FreeTable]
        /\ raced' = IF table[s] = NoTable THEN raced ELSE raced \union {s}
        /\ marked' = marked
    BY <1>3 DEF PutFreeTable, Put, Key
  <2>2. \A seat \in Seat : FreeTable[seat] # "PREEMPTED"
    BY DEF FreeTable
  <2> SUFFICES ASSUME NEW section \in Section \ raced', NEW seat \in Seat
               PROVE  LET takers == {q \in marked' : Wanted[q] = <<section, seat>>}
                      IN  /\ IsPreempted(section, seat)' <=> takers # {}
                          /\ \A p, q \in takers : p = q
    OBVIOUS
  <2>3. section \in Section \ raced
    BY <2>1
  <2>4. IsPreempted(section, seat)' <=> IsPreempted(section, seat)
    <3>1. CASE section = s
      BY <2>1, <2>2, <3>1 DEF TypeOK
    <3>2. CASE section # s
      BY <2>1, <3>2 DEF TypeOK
    <3> QED
      BY <3>1, <3>2
  <2>5. /\ IsPreempted(section, seat) <=> {q \in marked : Wanted[q] = <<section, seat>>} # {}
        /\ \A p, q \in {q \in marked : Wanted[q] = <<section, seat>>} : p = q
    BY <2>3
  <2>6. marked' = marked
    BY <2>1
  <2> HIDE DEF IsPreempted
  <2> QED
    BY <2>4, <2>5, <2>6
<1> QED
  BY <1>1, <1>2, <1>3
     DEF Next, vars, ReadTable, Grant, StartFill, HasKey, Crash

\* Where tables are read and put one at a time, each preempted seat has one request to
\* its name and every other has none.
THEOREM TablesAreExact == Spec => []TableIsExact
<1>1. Init => TableIsExact
  BY DEF Init, TableIsExact, IsPreempted
<1> QED
  BY <1>1, StepKeepsTableExact, TypeCorrect, PTL DEF Spec

-----------------------------------------------------------------------------
\* Every step keeps each preemption shown backed by a request.
LEMMA StepKeepsHonest ==
    ASSUME TypeOK, HonestInv, [Next]_vars
    PROVE  HonestInv'
<1> USE DEF HonestInv, RefusalIsHonest, IsPreempted, Taken
<1>1. CASE UNCHANGED vars
  BY <1>1 DEF vars
<1>2. ASSUME NEW r \in Request, ReadTable(r) PROVE HonestInv'
  <2>1. /\ Wanted[r][1] \in Section /\ Wanted[r][2] \in Seat
        /\ Wanted[r] = <<Wanted[r][1], Wanted[r][2]>>
        /\ WantedKey(r) = Wanted[r][1]
    BY WantedSeat
  <2>2. /\ UNCHANGED <<table, marked>> /\ stage[r] = "sent" /\ r \notin marked
        /\ stage \in [Request -> Stage] /\ copy \in [Request -> Table \union {NoTable}]
    BY <1>2 DEF ReadTable, TypeOK
  <2>3. CASE stage' = [stage EXCEPT ![r] = "400"] /\ copy' = copy
    BY <2>2, <2>3
  <2>4. CASE /\ stage' = [stage EXCEPT ![r] = "read"]
             /\ copy' = [copy EXCEPT ![r] = table[Wanted[r][1]]]
             /\ table[Wanted[r][1]] # NoTable
    <3>1. \A q \in Request : /\ stage'[q] = IF q = r THEN "read" ELSE stage[q]
                             /\ copy'[q] = IF q = r THEN table[Wanted[r][1]] ELSE copy[q]
      BY <2>2, <2>4
    <3>2. RefusalIsHonest'
      BY <2>2, <3>1
    <3>3. \A q \in Request, seat \in Seat :
             stage'[q] = "read" /\ copy'[q][seat] = "PREEMPTED" => Taken(Wanted[q][1], seat)
      BY <2>1, <2>4, <3>1
    <3>4. \A q \in Request : stage'[q] \in {"sent", "read"} => q \notin marked'
      BY <2>2, <3>1
    <3> QED
      BY <2>2, <3>2, <3>3, <3>4
  <2>5. CASE /\ stage' = [stage EXCEPT ![r] = "409"] /\ copy' = copy
             /\ table[Wanted[r][1]] # NoTable
             /\ table[Wanted[r][1]][Wanted[r][2]] # "ONSALE"
    <3>1. table[Wanted[r][1]] \in Table
      BY <2>1, <2>5 DEF TypeOK
    <3>2. table[Wanted[r][1]][Wanted[r][2]] = "PREEMPTED"
      BY <2>1, <2>5, <3>1 DEF Table, Status
    <3>0. Taken(Wanted[r][1], Wanted[r][2])
      BY <2>1, <2>5, <3>2
    <3>3. \E q \in marked \ {r} : Wanted[q] = Wanted[r]
      BY <2>1, <2>2, <3>0
    <3>4. \A q \in Request : stage'[q] = IF q = r THEN "409" ELSE stage[q]
      BY <2>2, <2>5
    <3>5. RefusalIsHonest'
      BY <2>2, <3>3, <3>4
    <3>6. \A q \in Request : stage'[q] \in {"sent", "read"} => stage'[q] = stage[q]
      BY <3>4
    <3> QED
      BY <2>2, <2>5, <3>5, <3>6
  <2> QED
    BY <1>2, <2>1, <2>3, <2>4, <2>5 DEF ReadTable, Answer, IsOnSale
<1>3. ASSUME NEW r \in Request, PutTable(r) PROVE HonestInv'
  <2>1. /\ Wanted[r][1] \in Section /\ Wanted[r][2] \in Seat
        /\ Wanted[r] = <<Wanted[r][1], Wanted[r][2]>>
        /\ WantedKey(r) = Wanted[r][1]
    BY WantedSeat
  <2>2. /\ stage[r] = "read" /\ stage' = [stage EXCEPT ![r] = "written"]
        /\ copy' = copy /\ marked' = marked \union {r}
        /\ table' = [table EXCEPT ![Wanted[r][1]] = Marked(r)]
        /\ stage \in [Request -> Stage]
        /\ table \in [Section -> Table \union {NoTable}]
    BY <1>3, <2>1 DEF PutTable, Put, Answer, TypeOK
  <2>3. copy[r] \in Table
    BY <2>2 DEF TypeOK
  <2>4. ASSUME NEW section \in Section, NEW seat \in Seat, IsPreempted(section, seat)'
        PROVE  Taken(section, seat)'
    <3>1. CASE section # Wanted[r][1]
      BY <2>2, <2>4, <3>1
    <3>2. CASE section = Wanted[r][1] /\ seat = Wanted[r][2]
      BY <2>1, <2>2, <3>2
    <3>3. CASE section = Wanted[r][1] /\ seat # Wanted[r][2]
      <4>1. copy[r][seat] = "PREEMPTED"
        BY <2>1, <2>2, <2>3, <2>4, <3>3 DEF Marked, Table
      <4>2. Taken(Wanted[r][1], seat)
        BY <2>2, <4>1
      <4> QED
        BY <2>2, <3>3, <4>2
    <3> QED
      BY <3>1, <3>2, <3>3
  <2>0. \A q \in Request : stage'[q] = IF q = r THEN "written" ELSE stage[q]
    BY <2>2
  <2>5. \A q \in Request : stage'[q] \in {"sent", "read"} => q \notin marked'
    BY <2>0, <2>2
  <2>6. RefusalIsHonest'
    <3> SUFFICES ASSUME NEW q \in Request, stage'[q] = "409"
                 PROVE  \E p \in marked' \ {q} : Wanted[p] = Wanted[q]
      OBVIOUS
    <3>1. stage[q] = "409"
      BY <2>0
    <3>2. PICK p \in marked \ {q} : Wanted[p] = Wanted[q]
      BY <3>1
    <3> QED
      BY <2>2, <3>2
  <2>7. \A q \in Request, seat \in Seat :
           stage'[q] = "read" /\ copy'[q][seat] = "PREEMPTED" => Taken(Wanted[q][1], seat)'
    BY <2>0, <2>2
  <2> QED
    BY <2>4, <2>5, <2>6, <2>7
<1>4. ASSUME NEW r \in Request, Grant(r) PROVE HonestInv'
  BY <1>4 DEF Grant, Answer, TypeOK
<1>5. CASE UNCHANGED <<table, stage, copy, marked>>
  BY <1>5
<1>6. ASSUME NEW f \in Filler, NEW s \in Section, PutFreeTable(f, s) PROVE HonestInv'
  <2>1. \A seat \in Seat : FreeTable[seat] # "PREEMPTED"
    BY DEF FreeTable
  <2> QED
    BY <1>6, <2>1 DEF PutFreeTable, Put, Key, TypeOK
<1>7. CASE Crash
  BY <1>7 DEF Crash, TypeOK
<1> QED
  BY <1>1, <1>2, <1>3, <1>4, <1>5, <1>6, <1>7 DEF Next, StartFill, HasKey

\* A refusal always names a seat that another request has preempted, whatever tables
\* overwrite each other.
THEOREM RefusalsAreHonest == Spec => []RefusalIsHonest
<1>1. Init => HonestInv
  BY DEF Init, HonestInv, RefusalIsHonest, IsPreempted
<1>2. HonestInv => RefusalIsHonest
  BY DEF HonestInv
<1> QED
  BY <1>1, <1>2, StepKeepsHonest, TypeCorrect, PTL DEF Spec

-----------------------------------------------------------------------------
\* Whoever has put a table, or has the seat, has marked it.
GrantsAreMarked == \A r \in Request : stage[r] \in {"written", "200"} => r \in marked

LEMMA StepKeepsMarked ==
    ASSUME TypeOK, GrantsAreMarked, [Next]_vars
    PROVE  GrantsAreMarked'
<1> USE DEF GrantsAreMarked, TypeOK, Answer
<1>1. ASSUME NEW r \in Request, ReadTable(r) PROVE GrantsAreMarked'
  BY <1>1 DEF ReadTable
<1>2. ASSUME NEW r \in Request, PutTable(r) PROVE GrantsAreMarked'
  BY <1>2 DEF PutTable
<1>3. ASSUME NEW r \in Request, Grant(r) PROVE GrantsAreMarked'
  BY <1>3 DEF Grant
<1>4. CASE Crash
  BY <1>4 DEF Crash
<1> QED
  BY <1>1, <1>2, <1>3, <1>4 DEF Next, vars, StartFill, HasKey, PutFreeTable

\* Lost updates are the only way to sell a seat twice, for any number of requests.
THEOREM OnlyRacesGrantTwice == Spec => []DoubleGrantsAreRaces
<1>1. Init => GrantsAreMarked
  BY DEF Init, GrantsAreMarked
<1>2. GrantsAreMarked /\ TableIsExact => DoubleGrantsAreRaces
  <2> SUFFICES ASSUME GrantsAreMarked, TableIsExact, NEW q \in Request, NEW r \in Request,
                      stage[q] = "200", stage[r] = "200", q # r, Wanted[q] = Wanted[r],
                      Wanted[q][1] \notin raced
               PROVE  FALSE
    BY DEF DoubleGrantsAreRaces
  <2>1. q \in marked /\ r \in marked
    BY DEF GrantsAreMarked
  <2>2. /\ Wanted[q][1] \in Section \ raced /\ Wanted[q][2] \in Seat
        /\ Wanted[q] = <<Wanted[q][1], Wanted[q][2]>>
    BY WantedSeat
  <2> QED
    BY <2>1, <2>2 DEF TableIsExact
<1> QED
  BY <1>1, <1>2, StepKeepsMarked, TypeCorrect, TablesAreExact, PTL DEF Spec
=============================================================================
