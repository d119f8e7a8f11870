----------------------------- MODULE Vacancies -----------------------------
(***************************************************************************)
(* The vacancy tables of the backend: for each section of a performance, a *)
(* Redis hash field that holds the status of all its seats.  A request for *)
(* a seat reads the table of the section, changes one seat in its copy and *)
(* puts the copy back whole; the seat page has the tables created, which   *)
(* looks for a table and puts one of free seats.  Neither locks anything.  *)
(*                                                                         *)
(* Preemptions neither expire nor are they taken back, and no table is     *)
(* ever removed.                                                           *)
(***************************************************************************)
CONSTANTS
    Section, Seat,
    NoTable,     \* the field is absent
    Request,     \* requests to preempt a seat
    Wanted,      \* the <<section, seat>> of each request
    Filler       \* threads in which saveVacanciesToRedis may run at a time

Status == {"ONSALE", "PREEMPTED"}
Table == [Seat -> Status]

ASSUME VacanciesAssumption ==
    /\ NoTable \notin Table
    /\ Wanted \in [Request -> Section \X Seat]

VARIABLES
    table,       \* the tables in Redis
    \* requests
    stage,       \* where each request is
    copy,        \* the table it has read
    \* requests of the seat page
    todo,        \* sections a filler has still to see to
    missing,     \* the section it found without a table, as a set
    \* history
    marked,      \* requests that have put their table
    raced        \* sections whose table was replaced by one made from another

fillers == <<todo, missing>>
vars == <<table, stage, copy, fillers, marked, raced>>

\* A request is answered with 200, 400, 409, or not at all.
Stage == {"sent", "read", "written", "200", "400", "409", "broken"}

FreeTable == [seat \in Seat |-> "ONSALE"]

\* Variant: the section is missing from the key.
KeyOfSchedule(section) == CHOOSE other \in Section : TRUE

Key(section) == section

WantedKey(r) == Key(Wanted[r][1])

Init ==
    /\ table = [s \in Section |-> NoTable]
    /\ stage = [r \in Request |-> "sent"]
    /\ copy = [r \in Request |-> NoTable]
    /\ todo = [f \in Filler |-> {}]
    /\ missing = [f \in Filler |-> {}]
    /\ marked = {}
    /\ raced = {}

-----------------------------------------------------------------------------
(* Put a table that was made when the field held "seen".                    *)

Put(key, new, seen) ==
    /\ table' = [table EXCEPT ![key] = new]
    /\ raced' = IF table[key] = seen THEN raced ELSE raced \union {key}

-----------------------------------------------------------------------------
(* VacanciesRedisRepository.preemptVacancy.                                 *)

Answer(r, code) == stage' = [stage EXCEPT ![r] = code]

\* Variant: the status of the seat is not looked at.
IsOnSaleUnchecked(seats, seat) == seats # NoTable

IsOnSale(seats, seat) == seats[seat] = "ONSALE"

\* The request reads the table, and is refused on what it reads.
ReadTable(r) ==
    /\ stage[r] = "sent"
    /\ LET seats == table[WantedKey(r)]
       IN  \/ seats = NoTable /\ Answer(r, "400") /\ UNCHANGED copy
           \/ /\ seats # NoTable
              /\ IF IsOnSale(seats, Wanted[r][2])
                 THEN Answer(r, "read") /\ copy' = [copy EXCEPT ![r] = seats]
                 ELSE Answer(r, "409") /\ UNCHANGED copy
    /\ UNCHANGED <<table, fillers, marked, raced>>

\* Variant: the table put back is a new one.
MarkedAlone(r) == [FreeTable EXCEPT ![Wanted[r][2]] = "PREEMPTED"]

Marked(r) == [copy[r] EXCEPT ![Wanted[r][2]] = "PREEMPTED"]

PutTable(r) ==
    /\ stage[r] = "read"
    /\ Put(WantedKey(r), Marked(r), copy[r])
    /\ marked' = marked \union {r}
    /\ Answer(r, "written")
    /\ UNCHANGED <<copy, fillers>>

Grant(r) ==
    /\ stage[r] = "written"
    /\ Answer(r, "200")
    /\ UNCHANGED <<table, copy, fillers, marked, raced>>

-----------------------------------------------------------------------------
(* SaveVacanciesToRedisSchedulerService, called for every seat page shown.  *)

StartFill(f) ==
    /\ todo[f] = {} /\ missing[f] = {}
    /\ todo' = [todo EXCEPT ![f] = Section]
    /\ UNCHANGED <<table, stage, copy, missing, marked, raced>>

HasKey(f, s) ==
    /\ s \in todo[f] /\ missing[f] = {}
    /\ todo' = [todo EXCEPT ![f] = @ \ {s}]
    /\ missing' = [missing EXCEPT ![f] = IF table[Key(s)] = NoTable THEN {s} ELSE {}]
    /\ UNCHANGED <<table, stage, copy, marked, raced>>

PutFreeTable(f, s) ==
    /\ s \in missing[f]
    /\ Put(Key(s), FreeTable, NoTable)
    /\ missing' = [missing EXCEPT ![f] = {}]
    /\ UNCHANGED <<stage, copy, todo, marked>>

-----------------------------------------------------------------------------
\* The process stops: nobody gets the answer to what is under way, but what was put stays.
Crash ==
    /\ stage' = [r \in Request |->
                    IF stage[r] \in {"read", "written"} THEN "broken" ELSE stage[r]]
    /\ todo' = [f \in Filler |-> {}]
    /\ missing' = [f \in Filler |-> {}]
    /\ UNCHANGED <<table, copy, marked, raced>>

Next ==
    \/ \E r \in Request : ReadTable(r) \/ PutTable(r) \/ Grant(r)
    \/ \E f \in Filler : StartFill(f)
    \/ \E f \in Filler, s \in Section : HasKey(f, s) \/ PutFreeTable(f, s)
    \/ Crash

Spec == Init /\ [][Next]_vars
-----------------------------------------------------------------------------
TypeOK ==
    /\ table \in [Section -> Table \union {NoTable}]
    /\ stage \in [Request -> Stage]
    /\ copy \in [Request -> Table \union {NoTable}]
    /\ todo \in [Filler -> SUBSET Section]
    /\ missing \in [Filler -> SUBSET Section]
    /\ marked \subseteq Request
    /\ raced \subseteq Section
    /\ \A r \in Request :
          stage[r] = "read" => copy[r] # NoTable /\ copy[r][Wanted[r][2]] = "ONSALE"

IsPreempted(section, seat) ==
    table[section] # NoTable /\ table[section][seat] = "PREEMPTED"

\* As long as nobody puts a section's table over one it has not read, the table tells who
\* has which seat: one request for every preempted seat and none for the others, wherever
\* the process stops (VacanciesRedisRepository 37-80).
TableIsExact ==
    \A section \in Section \ raced, seat \in Seat :
        LET takers == {r \in marked : Wanted[r] = <<section, seat>>}
        IN  /\ IsPreempted(section, seat) <=> takers # {}
            /\ \A q, r \in takers : q = r

\* Nobody is refused a seat that nobody preempted, also when tables overwrite each other:
\* what is lost in a race is a preemption, never a free seat (PreemptVacancyController
\* 86-91).
RefusalIsHonest ==
    \A r \in Request :
        stage[r] = "409" => \E q \in marked \ {r} : Wanted[q] = Wanted[r]

\* A seat that a request has preempted is refused to every other (the 409 that
\* PreemptVacancyController 50-53 documents).
GrantedOnce ==
    \A q, r \in Request :
        stage[q] = "200" /\ stage[r] = "200" /\ Wanted[q] = Wanted[r] => q = r

\* Two requests get the same seat only where a table was put over one it was not made from
\* (VacanciesRedisRepository 62-91): reading and putting each section's table in one step
\* would be enough to sell every seat once.
DoubleGrantsAreRaces ==
    \A q, r \in Request :
        /\ stage[q] = "200" /\ stage[r] = "200"
        /\ q # r /\ Wanted[q] = Wanted[r]
        => Wanted[q][1] \in raced
=============================================================================
