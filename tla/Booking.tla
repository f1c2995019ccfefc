------------------------------ MODULE Booking ------------------------------
(***************************************************************************)
(* Tickets, service dates and rooms: TicketService (Create, UpdateForUser, *)
(* DeleteForUser), ServiceDateService and RoomService (Create, Update,     *)
(* Delete), with what staff actions, reverts and the nightly cleanup do to *)
(* the statuses these services count.                                      *)
(*                                                                         *)
(* Every operation checks first and writes later, and no lock is held in   *)
(* between, even where both are in one transaction: a request keeps what   *)
(* it was told in req, and its write applies to the tables as they are.    *)
(*                                                                         *)
(* A status is one of three classes: working (pending to in_progress),     *)
(* completed, and closed (rejected, referred, no_show), which is all that  *)
(* the counts tell apart.                                                  *)
(***************************************************************************)
EXTENDS Naturals, FiniteSets

CONSTANTS
  Tickets,        \* ids of clinic_record rows
  Users,          \* customers
  Rooms,          \* ids of clinic_room rows
  Dates,          \* ids of clinic_service_date rows
  LastDay,        \* bound: the days are 1..LastDay
  MaxCapacity,    \* bound on the capacity of a service date
  Requests,       \* slots for requests being served at the same time
  Keep,           \* an optional field that is omitted
  Reverts,        \* TRUE: staff undo their actions
  AdminEdits,     \* TRUE: administrators change and remove service dates and rooms
  CustomersWait   \* TRUE: a customer has one request in flight at most

Days == 1..LastDay
Capacities == 0..MaxCapacity

ASSUME ConstantsAssumption ==
  /\ LastDay \in Nat \ {0}
  /\ MaxCapacity \in Nat \ {0}
  /\ IsFiniteSet(Tickets)
  /\ IsFiniteSet(Requests) /\ Requests # {}
  /\ Keep \notin Rooms \cup Days \cup Capacities
  /\ {Reverts, AdminEdits, CustomersWait} \subseteq BOOLEAN

VARIABLES
  ticket,   \* clinic_record: owner, room, day and status class
  date,     \* clinic_service_date: room, day and capacity
  room,     \* clinic_room: whether it exists and is enabled
  today,    \* the calendar day in the clinic's time zone
  req       \* what each request has checked and is about to write

vars == <<ticket, date, room, today, req>>
-----------------------------------------------------------------------------
Classes == {"working", "completed", "closed"}

Unused == [status |-> "unused"]       \* an id not handed out yet
Deleted == [status |-> "deleted"]
Idle == [pc |-> "idle"]

TicketRows == [status: Classes, undoable: BOOLEAN, user: Users, room: Rooms, day: Days]
DateRows == [status: {"open"}, room: Rooms, day: Days, capacity: Capacities]

BookingStates ==
  [pc: {"booking", "insert"}, user: Users, room: Rooms, day: Days, count: Nat]
MovingStates ==
  [pc: {"moving", "move"}, ticket: Tickets, user: Users, room: Rooms, day: Days,
   setRoom: Rooms \cup {Keep}, setDay: Days \cup {Keep}, count: Nat]
RemovingStates == [pc: {"remove"}, ticket: Tickets, user: Users]
OpeningStates == [pc: {"open"}, room: Rooms, day: Days, capacity: Capacities]
EditingStates ==
  [pc: {"edit"}, date: Dates, setRoom: Rooms \cup {Keep}, setDay: Days \cup {Keep},
   setCapacity: Capacities \cup {Keep}]
ClosingStates == [pc: {"close"}, date: Dates]
RoomStates == [pc: {"disable", "drop"}, room: Rooms]

RequestStates ==
  {Idle} \cup BookingStates \cup MovingStates \cup RemovingStates \cup OpeningStates
    \cup EditingStates \cup ClosingStates \cup RoomStates

Live(t) == ticket[t].status \in Classes
Open(x) == date[x].status = "open"
Exists(r) == room[r] \in {"enabled", "disabled"}

Or(new, old) == IF new = Keep THEN old ELSE new

TicketsAt(r, d) == {t \in Tickets : Live(t) /\ ticket[t].room = r /\ ticket[t].day = d}
WorkingAt(r, d) == {t \in TicketsAt(r, d) : ticket[t].status = "working"}
DatesAt(r, d) == {x \in Dates : Open(x) /\ date[x].room = r /\ date[x].day = d}

\* The tickets that take up a place: closed ones never do, and completed ones no
\* longer do on a day that is still to come.
CountedOmitsToday(r, d) == {t \in TicketsAt(r, d) : ticket[t].status = "working" /\ d > today}
Counted(r, d) ==
  {t \in TicketsAt(r, d) : \/ ticket[t].status = "working"
                           \/ ticket[t].status = "completed" /\ d <= today}

Upcoming(u) ==
  {t \in Tickets : /\ ticket[t].status = "working"
                   /\ ticket[t].user = u
                   /\ ticket[t].day >= today}

WorkingIn(r) == {t \in Tickets : ticket[t].status = "working" /\ ticket[t].room = r}

Become(q, s) == req' = [req EXCEPT ![q] = s]

\* Customer u may send a request to slot q.
Free(q, u) ==
  /\ req[q] = Idle
  /\ CustomersWait =>
       \A p \in Requests : req[p].pc \in {"booking", "insert", "moving", "move", "remove"}
                             => req[p].user # u

\* An administrator may send a request for a change or a removal to slot q.
FreeForAdmin(q) == AdminEdits /\ req[q] = Idle
-----------------------------------------------------------------------------
Init ==
  /\ ticket = [t \in Tickets |-> Unused]
  /\ date = [x \in Dates |-> Unused]
  /\ room = [r \in Rooms |-> "enabled"]
  /\ today = 1
  /\ req = [q \in Requests |-> Idle]

\* Create: the room is looked up by name whether or not it is enabled, the service
\* date must exist, and the places taken are counted.
BeginBooking(q, u, r, d) ==
  /\ Free(q, u)
  /\ Exists(r)
  /\ DatesAt(r, d) # {}
  /\ Become(q, [pc |-> "booking", user |-> u, room |-> r, day |-> d,
                count |-> Cardinality(Counted(r, d))])
  /\ UNCHANGED <<ticket, date, room, today>>

\* The count leaves a place in the date as it is read again.
SomePlace(n, r, d) == \E x \in DatesAt(r, d) : n <= date[x].capacity
HasPlace(n, r, d) == \E x \in DatesAt(r, d) : n < date[x].capacity

OneOtherBooking(u) == Cardinality(Upcoming(u)) <= 1
NoOtherBooking(u) == Upcoming(u) = {}

\* ... then capacity, one upcoming booking per customer, no day in the past.
AcceptBooking(q) ==
  /\ req[q].pc = "booking"
  /\ HasPlace(req[q].count, req[q].room, req[q].day)
  /\ NoOtherBooking(req[q].user)
  /\ req[q].day >= today
  /\ Become(q, [req[q] EXCEPT !.pc = "insert"])
  /\ UNCHANGED <<ticket, date, room, today>>

Insert(q) ==
  /\ req[q].pc = "insert"
  /\ \E t \in Tickets :
       /\ ticket[t] = Unused
       /\ ticket' = [ticket EXCEPT ![t] =
            [status |-> "working", undoable |-> FALSE, user |-> req[q].user,
             room |-> req[q].room, day |-> req[q].day]]
  /\ Become(q, Idle)
  /\ UNCHANGED <<date, room, today>>

\* UpdateForUser with a new room, a new day or both; the status does not matter.
BeginMove(q, t, setRoom, setDay) ==
  /\ Live(t)
  /\ Free(q, ticket[t].user)
  /\ setRoom # Keep \/ setDay # Keep
  /\ setRoom # Keep => Exists(setRoom)
  /\ LET r == Or(setRoom, ticket[t].room)
         d == Or(setDay, ticket[t].day)
     IN /\ DatesAt(r, d) # {}
        /\ d >= today
        /\ Become(q, [pc |-> "moving", ticket |-> t, user |-> ticket[t].user,
                      room |-> r, day |-> d, setRoom |-> setRoom, setDay |-> setDay,
                      count |-> Cardinality(Counted(r, d) \ {t})])
  /\ UNCHANGED <<ticket, date, room, today>>

AcceptMove(q) ==
  /\ req[q].pc = "moving"
  /\ HasPlace(req[q].count, req[q].room, req[q].day)
  /\ Become(q, [req[q] EXCEPT !.pc = "move"])
  /\ UNCHANGED <<ticket, date, room, today>>

\* Only the columns the customer gave are written; a row deleted meanwhile is not.
Move(q) ==
  /\ req[q].pc = "move"
  /\ LET t == req[q].ticket
     IN ticket' = IF Live(t)
                  THEN [ticket EXCEPT ![t].room = Or(req[q].setRoom, @),
                                      ![t].day = Or(req[q].setDay, @)]
                  ELSE ticket
  /\ Become(q, Idle)
  /\ UNCHANGED <<date, room, today>>

\* DeleteForUser: the service date of the ticket must still exist.
BeginRemove(q, t) ==
  /\ Live(t)
  /\ Free(q, ticket[t].user)
  /\ DatesAt(ticket[t].room, ticket[t].day) # {}
  /\ Become(q, [pc |-> "remove", ticket |-> t, user |-> ticket[t].user])
  /\ UNCHANGED <<ticket, date, room, today>>

Remove(q) ==
  /\ req[q].pc = "remove"
  /\ ticket' = [ticket EXCEPT ![req[q].ticket] = Deleted]
  /\ Become(q, Idle)
  /\ UNCHANGED <<date, room, today>>
-----------------------------------------------------------------------------
\* ServiceDateService.Create: the room must exist, and (room, date) is unique.
BeginOpen(q, r, d, c) ==
  /\ req[q] = Idle
  /\ Exists(r)
  /\ c > 0
  /\ Become(q, [pc |-> "open", room |-> r, day |-> d, capacity |-> c])
  /\ UNCHANGED <<ticket, date, room, today>>

NotUnique(x, r, d) == TRUE
Unique(x, r, d) == DatesAt(r, d) \subseteq {x}

OpenDate(q) ==
  /\ req[q].pc = "open"
  /\ \E x \in Dates :
       /\ date[x] = Unused
       /\ Unique(x, req[q].room, req[q].day)
       /\ date' = [date EXCEPT ![x] =
            [status |-> "open", room |-> req[q].room, day |-> req[q].day,
             capacity |-> req[q].capacity]]
  /\ Become(q, Idle)
  /\ UNCHANGED <<ticket, room, today>>

\* ServiceDateService.Update: a date that changes room or day must have no tickets
\* where it was nor where it goes; a new capacity must not be below the count.
EmptyTargetOnly(x, r, d) ==
  (r # date[x].room \/ d # date[x].day) => TicketsAt(r, d) = {}
MayRelocate(x, r, d) ==
  (r # date[x].room \/ d # date[x].day) =>
     /\ TicketsAt(date[x].room, date[x].day) = {}
     /\ TicketsAt(r, d) = {}

BeginEdit(q, x, setRoom, setDay, setCapacity) ==
  /\ FreeForAdmin(q)
  /\ Open(x)
  /\ setRoom # Keep => Exists(setRoom)
  /\ LET r == Or(setRoom, date[x].room)
         d == Or(setDay, date[x].day)
     IN /\ MayRelocate(x, r, d)
        /\ setCapacity # Keep => setCapacity >= Cardinality(Counted(r, d))
  /\ Become(q, [pc |-> "edit", date |-> x, setRoom |-> setRoom, setDay |-> setDay,
                setCapacity |-> setCapacity])
  /\ UNCHANGED <<ticket, date, room, today>>

Edit(q) ==
  /\ req[q].pc = "edit"
  /\ LET x == req[q].date
         r == Or(req[q].setRoom, date[x].room)
         d == Or(req[q].setDay, date[x].day)
     IN /\ Open(x)
        /\ Unique(x, r, d)
        /\ date' = [date EXCEPT ![x] =
             [status |-> "open", room |-> r, day |-> d,
              capacity |-> Or(req[q].setCapacity, @.capacity)]]
  /\ Become(q, Idle)
  /\ UNCHANGED <<ticket, room, today>>

\* ServiceDateService.Delete: refused while any ticket is on the date.
BeginClose(q, x) ==
  /\ FreeForAdmin(q)
  /\ Open(x)
  /\ TicketsAt(date[x].room, date[x].day) = {}
  /\ Become(q, [pc |-> "close", date |-> x])
  /\ UNCHANGED <<ticket, date, room, today>>

CloseDate(q) ==
  /\ req[q].pc = "close"
  /\ date' = [date EXCEPT ![req[q].date] = Deleted]
  /\ Become(q, Idle)
  /\ UNCHANGED <<ticket, room, today>>
-----------------------------------------------------------------------------
\* RoomService.Update: disabling is refused while the room has working tickets.
BeginDisable(q, r) ==
  /\ FreeForAdmin(q)
  /\ Exists(r)
  /\ WorkingIn(r) = {}
  /\ Become(q, [pc |-> "disable", room |-> r])
  /\ UNCHANGED <<ticket, date, room, today>>

Disable(q) ==
  /\ req[q].pc = "disable"
  /\ Exists(req[q].room)
  /\ room' = [room EXCEPT ![req[q].room] = "disabled"]
  /\ Become(q, Idle)
  /\ UNCHANGED <<ticket, date, today>>

Enable(q, r) ==
  /\ FreeForAdmin(q)
  /\ room[r] = "disabled"
  /\ room' = [room EXCEPT ![r] = "enabled"]
  /\ UNCHANGED <<ticket, date, today, req>>

\* RoomService.Delete: refused while a service date or any ticket refers to it.
RoomHasNoWork(r) == WorkingIn(r) = {}
RoomUnused(r) ==
  /\ WorkingIn(r) = {}
  /\ \A x \in Dates : Open(x) => date[x].room # r
  /\ \A t \in Tickets : Live(t) => ticket[t].room # r

BeginDrop(q, r) ==
  /\ FreeForAdmin(q)
  /\ Exists(r)
  /\ RoomUnused(r)
  /\ Become(q, [pc |-> "drop", room |-> r])
  /\ UNCHANGED <<ticket, date, room, today>>

Drop(q) ==
  /\ req[q].pc = "drop"
  /\ room' = [room EXCEPT ![req[q].room] = "deleted"]
  /\ Become(q, Idle)
  /\ UNCHANGED <<ticket, date, today>>

\* A request is refused, fails or is given up before its write.
Fail(q) ==
  /\ req[q] # Idle
  /\ Become(q, Idle)
  /\ UNCHANGED <<ticket, date, room, today>>
-----------------------------------------------------------------------------
\* A staff action finishes a ticket.  It takes the place of a request; how its
\* own steps interleave with others is the subject of RecordActions.
Finish(q, t, s) ==
  /\ req[q] = Idle
  /\ ticket[t].status = "working"
  /\ ticket' = [ticket EXCEPT ![t].status = s, ![t].undoable = TRUE]
  /\ UNCHANGED <<date, room, today, req>>

\* A revert brings the ticket back as it was; neither the capacity of its date nor
\* the customer's other bookings are looked at.
Revert(q, t) ==
  /\ Reverts
  /\ req[q] = Idle
  /\ Live(t)
  /\ ticket[t].undoable
  /\ ticket' = [ticket EXCEPT ![t].status = "working", ![t].undoable = FALSE]
  /\ UNCHANGED <<date, room, today, req>>

\* Midnight.
DayPasses ==
  /\ today < LastDay
  /\ today' = today + 1
  /\ UNCHANGED <<ticket, date, room, req>>

\* CloseExpiredRecords: those in progress (some of the working) are completed.
CloseExpired ==
  LET over == {t \in Tickets : ticket[t].status = "working" /\ ticket[t].day < today}
  IN /\ over # {}
     /\ \E inProgress \in SUBSET over :
          ticket' = [t \in Tickets |->
            IF t \in over
            THEN [ticket[t] EXCEPT !.status = IF t \in inProgress THEN "completed" ELSE "closed",
                                   !.undoable = FALSE]
            ELSE ticket[t]]
     /\ UNCHANGED <<date, room, today, req>>
-----------------------------------------------------------------------------
Next ==
  \/ \E q \in Requests :
       \/ \E u \in Users, r \in Rooms, d \in Days : BeginBooking(q, u, r, d)
       \/ AcceptBooking(q) \/ Insert(q)
       \/ \E t \in Tickets, r \in Rooms \cup {Keep}, d \in Days \cup {Keep} :
            BeginMove(q, t, r, d)
       \/ AcceptMove(q) \/ Move(q)
       \/ \E t \in Tickets : BeginRemove(q, t)
       \/ Remove(q)
       \/ \E r \in Rooms, d \in Days, c \in Capacities : BeginOpen(q, r, d, c)
       \/ OpenDate(q)
       \/ \E x \in Dates, r \in Rooms \cup {Keep}, d \in Days \cup {Keep},
             c \in Capacities \cup {Keep} : BeginEdit(q, x, r, d, c)
       \/ Edit(q)
       \/ \E x \in Dates : BeginClose(q, x)
       \/ CloseDate(q)
       \/ \E r \in Rooms : BeginDisable(q, r) \/ Enable(q, r) \/ BeginDrop(q, r)
       \/ Disable(q) \/ Drop(q)
       \/ Fail(q)
       \/ \E t \in Tickets, s \in {"completed", "closed"} : Finish(q, t, s)
       \/ \E t \in Tickets : Revert(q, t)
  \/ DayPasses
  \/ CloseExpired

Spec == Init /\ [][Next]_vars
-----------------------------------------------------------------------------
\* Every variable has its type, and (room, date) is unique among service dates.
TypeOK ==
  /\ ticket \in [Tickets -> TicketRows \cup {Unused, Deleted}]
  /\ date \in [Dates -> DateRows \cup {Unused, Deleted}]
  /\ room \in [Rooms -> {"enabled", "disabled", "deleted"}]
  /\ today \in Days
  /\ req \in [Requests -> RequestStates]
  /\ \A r \in Rooms, d \in Days : Cardinality(DatesAt(r, d)) <= 1

\* Served one at a time, every ticket is on a service date of a room that exists:
\* dates with tickets are neither moved nor deleted, rooms in use not deleted.
TicketsOnOpenDates ==
  \A t \in Tickets : Live(t) =>
    /\ Exists(ticket[t].room)
    /\ DatesAt(ticket[t].room, ticket[t].day) # {}

\* How many tickets a service date has beyond its capacity.
Excess(x) ==
  IF ~Open(x) THEN 0
  ELSE LET n == Cardinality(WorkingAt(date[x].room, date[x].day))
       IN IF n > date[x].capacity THEN n - date[x].capacity ELSE 0

\* "The system prevents overbooking" (requirement.md).
NeverOverbooked == \A x \in Dates : Excess(x) = 0

\* Served one at a time, nothing but a revert overbooks a date: not a customer's
\* booking or move, not an administrator's cut of the capacity, not the calendar.
OnlyRevertsOverbook ==
  [][\A x \in Dates :
       Excess(x)' > Excess(x) => \E q \in Requests, t \in Tickets : Revert(q, t)]_vars

\* Checking before writing overbooks a date by the number of other requests that
\* were being served meanwhile, and by no more, however often it is repeated.
OverbookingBounded ==
  \A x \in Dates : Excess(x) <= Cardinality(Requests) - 1

\* "A customer may have at most one unfinished booking with an appointment today or
\* later" (API.md, booking rules).
OneUpcoming == \A u \in Users : Cardinality(Upcoming(u)) <= 1

\* A customer who waits for his answers never gets a booking accepted while he has
\* another one coming up, whatever other customers, staff and the calendar do.
BookedAlone ==
  [][\A q \in Requests, u \in Users :
       Insert(q) /\ req[q].user = u => Cardinality(Upcoming(u)') <= 1]_vars

\* Served one at a time, a room is not disabled with unfinished tickets in it, nor
\* deleted with a service date in it.
RoomsRetiredIdle ==
  [][\A r \in Rooms :
       /\ room[r] = "enabled" /\ room'[r] = "disabled" => WorkingIn(r)' = {}
       /\ room[r] # "deleted" /\ room'[r] = "deleted" => \A d \in Days : DatesAt(r, d)' = {}]_vars
=============================================================================
