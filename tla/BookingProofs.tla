--------------------------- MODULE BookingProofs ---------------------------
(***************************************************************************)
(* Theorems about Booking, for any number of tickets, customers, rooms,    *)
(* service dates, days and capacities.  Some are about requests that are   *)
(* served one at a time, those about customers who book at the same time   *)
(* are for any number of requests.  The two rules that do not hold of the  *)
(* program, NeverOverbooked and OneUpcoming, are proved to fail for no     *)
(* other reasons than the ones named.                                      *)
(***************************************************************************)
EXTENDS Booking, FiniteSetTheorems, TLAPS

\* (room, day) is unique among service dates.
OneDate ==
  \A x, y \in Dates :
    Open(x) /\ Open(y) /\ date[x].room = date[y].room /\ date[x].day = date[y].day => x = y

Typed ==
  /\ ticket \in [Tickets -> TicketRows \cup {Unused, Deleted}]
  /\ date \in [Dates -> DateRows \cup {Unused, Deleted}]
  /\ room \in [Rooms -> {"enabled", "disabled", "deleted"}]
  /\ today \in Days
  /\ req \in [Requests -> RequestStates]
  /\ OneDate
-----------------------------------------------------------------------------
\* What a request carries follows from where it is.
LEMMA StateOfPc ==
  ASSUME NEW s \in RequestStates
  PROVE  /\ s.pc \in {"booking", "insert"} => s \in BookingStates
         /\ s.pc \in {"moving", "move"} => s \in MovingStates
         /\ s.pc = "remove" => s \in RemovingStates
         /\ s.pc = "open" => s \in OpeningStates
         /\ s.pc = "edit" => s \in EditingStates
         /\ s.pc = "close" => s \in ClosingStates
         /\ s.pc \in {"disable", "drop"} => s \in RoomStates
<1>1. Idle.pc = "idle"
  BY DEF Idle
<1>2. \A b \in BookingStates : b.pc \in {"booking", "insert"}
  BY DEF BookingStates
<1>3. \A b \in MovingStates : b.pc \in {"moving", "move"}
  BY DEF MovingStates
<1>4. \A b \in RemovingStates : b.pc = "remove"
  BY DEF RemovingStates
<1>5. \A b \in OpeningStates : b.pc = "open"
  BY DEF OpeningStates
<1>6. \A b \in EditingStates : b.pc = "edit"
  BY DEF EditingStates
<1>7. \A b \in ClosingStates : b.pc = "close"
  BY DEF ClosingStates
<1>8. \A b \in RoomStates : b.pc \in {"disable", "drop"}
  BY DEF RoomStates
<1> QED BY <1>1, <1>2, <1>3, <1>4, <1>5, <1>6, <1>7, <1>8 DEF RequestStates

\* Rows that count are rows of the tables.
LEMMA RowsOfTables ==
  ASSUME Typed
  PROVE  /\ \A t \in Tickets : Live(t) => ticket[t] \in TicketRows
         /\ \A x \in Dates : Open(x) => date[x] \in DateRows
<1>1. \A t \in Tickets : ticket[t] \in TicketRows \/ ticket[t].status \in {"unused", "deleted"}
  BY DEF Typed, Unused, Deleted
<1>2. \A x \in Dates : date[x] \in DateRows \/ date[x].status \in {"unused", "deleted"}
  BY DEF Typed, Unused, Deleted
<1> QED BY <1>1, <1>2 DEF Live, Open, Classes

\* A request's new state is its own.
LEMMA BecomeOnly ==
  ASSUME Typed, NEW q \in Requests, NEW s, Become(q, s)
  PROVE  /\ req'[q] = s /\ \A p \in Requests \ {q} : req'[p] = req[p]
         /\ s \in RequestStates => req' \in [Requests -> RequestStates]
  BY DEF Become, Typed

\* Sets of tickets are finite, and a set within another is not larger.
LEMMA TicketSets ==
  ASSUME NEW S \in SUBSET Tickets
  PROVE  /\ IsFiniteSet(S) /\ Cardinality(S) \in Nat
         /\ \A T \in SUBSET S : Cardinality(T) <= Cardinality(S)
<1>1. IsFiniteSet(S)
  BY ConstantsAssumption, FS_Subset
<1> QED BY <1>1, FS_Subset, FS_CardinalityType

\* The value that is written is one of the column's.
LEMMA OrTyped ==
  ASSUME NEW S, NEW new \in S \cup {Keep}, NEW old \in S
  PROVE  Or(new, old) \in S
  BY DEF Or
-----------------------------------------------------------------------------
\* A request that only moves on keeps the types.
LEMMA AskTyped ==
  ASSUME Typed, NEW q \in Requests, NEW s \in RequestStates, Become(q, s),
         UNCHANGED <<ticket, date, room, today>>
  PROVE  Typed'
<1>1. req' \in [Requests -> RequestStates]
  BY BecomeOnly
<1>2. OneDate'
  BY DEF Typed, OneDate, Open
<1> QED BY <1>1, <1>2 DEF Typed

\* The steps of an administrator's request before its write.
AdminAsks(q) ==
  \/ \E x \in Dates, r \in Rooms \cup {Keep}, d \in Days \cup {Keep},
        c \in Capacities \cup {Keep} : BeginEdit(q, x, r, d, c)
  \/ \E x \in Dates : BeginClose(q, x)
  \/ \E r \in Rooms : BeginDisable(q, r) \/ BeginDrop(q, r)

\* The steps of a request before its write, and its end without one.
Asks(q) ==
  \/ \E u \in Users, r \in Rooms, d \in Days : BeginBooking(q, u, r, d)
  \/ AcceptBooking(q)
  \/ \E t \in Tickets, r \in Rooms \cup {Keep}, d \in Days \cup {Keep} : BeginMove(q, t, r, d)
  \/ AcceptMove(q)
  \/ \E t \in Tickets : BeginRemove(q, t)
  \/ \E r \in Rooms, d \in Days, c \in Capacities : BeginOpen(q, r, d, c)
  \/ AdminAsks(q)
  \/ Fail(q)

LEMMA AsksTyped ==
  ASSUME Typed, NEW q \in Requests, Asks(q)
  PROVE  Typed'
<1>0. \A r, d : Cardinality(Counted(r, d)) \in Nat /\ \A t : Cardinality(Counted(r, d) \ {t}) \in Nat
  BY TicketSets DEF Counted, TicketsAt
<1>1. ASSUME NEW u \in Users, NEW r \in Rooms, NEW d \in Days, BeginBooking(q, u, r, d) PROVE Typed'
  <2> PICK s : s = [pc |-> "booking", user |-> u, room |-> r, day |-> d, count |-> Cardinality(Counted(r, d))]
    OBVIOUS
  <2>1. s \in BookingStates
    BY <1>0 DEF BookingStates
  <2> QED BY <1>1, <2>1, AskTyped DEF BeginBooking, RequestStates
<1>2. CASE AcceptBooking(q)
  <2> PICK s : s = [req[q] EXCEPT !.pc = "insert"]
    OBVIOUS
  <2>1. req[q] \in BookingStates
    BY <1>2, StateOfPc DEF AcceptBooking, Typed
  <2>2. s \in BookingStates
    BY <2>1 DEF BookingStates
  <2> QED BY <1>2, <2>2, AskTyped DEF AcceptBooking, RequestStates
<1>3. ASSUME NEW t \in Tickets, NEW a \in Rooms \cup {Keep}, NEW b \in Days \cup {Keep}, BeginMove(q, t, a, b)
      PROVE  Typed'
  <2> PICK r, d : r = Or(a, ticket[t].room) /\ d = Or(b, ticket[t].day)
    OBVIOUS
  <2> PICK s : s = [pc |-> "moving", ticket |-> t, user |-> ticket[t].user, room |-> r, day |-> d,
                    setRoom |-> a, setDay |-> b, count |-> Cardinality(Counted(r, d) \ {t})]
    OBVIOUS
  <2>1. ticket[t].user \in Users /\ ticket[t].room \in Rooms /\ ticket[t].day \in Days
    BY <1>3, RowsOfTables DEF BeginMove, TicketRows
  <2>2. r \in Rooms /\ d \in Days
    BY <2>1, OrTyped
  <2>3. Cardinality(Counted(r, d) \ {t}) \in Nat
    BY <1>0
  <2>4. s \in MovingStates
    BY <2>1, <2>2, <2>3 DEF MovingStates
  <2>5. Become(q, s) /\ UNCHANGED <<ticket, date, room, today>>
    BY <1>3 DEF BeginMove
  <2> QED BY <2>4, <2>5, AskTyped DEF RequestStates
<1>4. CASE AcceptMove(q)
  <2> PICK s : s = [req[q] EXCEPT !.pc = "move"]
    OBVIOUS
  <2>1. req[q] \in MovingStates
    BY <1>4, StateOfPc DEF AcceptMove, Typed
  <2>2. s \in MovingStates
    BY <2>1 DEF MovingStates
  <2> QED BY <1>4, <2>2, AskTyped DEF AcceptMove, RequestStates
<1>5. ASSUME NEW t \in Tickets, BeginRemove(q, t) PROVE Typed'
  <2> PICK s : s = [pc |-> "remove", ticket |-> t, user |-> ticket[t].user]
    OBVIOUS
  <2>1. ticket[t].user \in Users
    BY <1>5, RowsOfTables DEF BeginRemove, TicketRows
  <2>2. s \in RemovingStates
    BY <2>1 DEF RemovingStates
  <2> QED BY <1>5, <2>2, AskTyped DEF BeginRemove, RequestStates
<1>6. ASSUME NEW r \in Rooms, NEW d \in Days, NEW c \in Capacities, BeginOpen(q, r, d, c) PROVE Typed'
  <2> PICK s : s = [pc |-> "open", room |-> r, day |-> d, capacity |-> c]
    OBVIOUS
  <2>1. s \in OpeningStates
    BY DEF OpeningStates
  <2> QED BY <1>6, <2>1, AskTyped DEF BeginOpen, RequestStates
<1>7. ASSUME NEW x \in Dates, NEW r \in Rooms \cup {Keep}, NEW d \in Days \cup {Keep},
             NEW c \in Capacities \cup {Keep}, BeginEdit(q, x, r, d, c)
      PROVE  Typed'
  <2> PICK s : s = [pc |-> "edit", date |-> x, setRoom |-> r, setDay |-> d, setCapacity |-> c]
    OBVIOUS
  <2>1. s \in EditingStates
    BY DEF EditingStates
  <2> QED BY <1>7, <2>1, AskTyped DEF BeginEdit, RequestStates
<1>8. ASSUME NEW x \in Dates, BeginClose(q, x) PROVE Typed'
  <2> PICK s : s = [pc |-> "close", date |-> x]
    OBVIOUS
  <2>1. s \in ClosingStates
    BY DEF ClosingStates
  <2> QED BY <1>8, <2>1, AskTyped DEF BeginClose, RequestStates
<1>9. ASSUME NEW r \in Rooms, BeginDisable(q, r) \/ BeginDrop(q, r) PROVE Typed'
  <2> PICK pc \in {"disable", "drop"} :
        Become(q, [pc |-> pc, room |-> r]) /\ UNCHANGED <<ticket, date, room, today>>
    BY <1>9 DEF BeginDisable, BeginDrop
  <2> PICK s : s = [pc |-> pc, room |-> r]
    OBVIOUS
  <2>1. s \in RoomStates
    BY DEF RoomStates
  <2> QED BY <2>1, AskTyped DEF RequestStates
<1>10. CASE Fail(q)
  <2>1. Idle \in RequestStates
    BY DEF RequestStates
  <2> QED BY <1>10, <2>1, AskTyped DEF Fail
<1> QED BY <1>1, <1>2, <1>3, <1>4, <1>5, <1>6, <1>7, <1>8, <1>9, <1>10 DEF Asks, AdminAsks
-----------------------------------------------------------------------------
(***************************************************************************)
(* What each write does to the tables.                                     *)
(***************************************************************************)

\* Row b is row a with another status.
SamePlace(a, b) == b.user = a.user /\ b.room = a.room /\ b.day = a.day

LEMMA InsertWrites ==
  ASSUME Typed, NEW q \in Requests, Insert(q)
  PROVE  /\ req[q] \in BookingStates
         /\ \E t \in Tickets :
              /\ ticket[t] = Unused /\ ~Live(t) /\ ticket'[t] \in TicketRows
              /\ ticket'[t].status = "working" /\ SamePlace(req[q], ticket'[t])
              /\ \A o \in Tickets \ {t} : ticket'[o] = ticket[o]
<1>1. req[q] \in BookingStates
  BY StateOfPc DEF Insert, Typed
<1> PICK row : row = [status |-> "working", undoable |-> FALSE, user |-> req[q].user,
                      room |-> req[q].room, day |-> req[q].day]
  OBVIOUS
<1>2. row \in TicketRows /\ SamePlace(req[q], row) /\ row.status = "working"
  BY <1>1 DEF BookingStates, TicketRows, Classes, SamePlace
<1>3. PICK t \in Tickets : ticket[t] = Unused /\ ticket' = [ticket EXCEPT ![t] = row]
  BY DEF Insert
<1>4. ticket'[t] = row /\ \A o \in Tickets \ {t} : ticket'[o] = ticket[o]
  BY <1>3 DEF Typed
<1>5. ~Live(t)
  BY <1>3 DEF Live, Unused, Classes
<1> QED BY <1>1, <1>2, <1>3, <1>4, <1>5

LEMMA MoveWrites ==
  ASSUME Typed, NEW q \in Requests, Move(q)
  PROVE  /\ req[q] \in MovingStates
         /\ ~Live(req[q].ticket) => UNCHANGED ticket
         /\ Live(req[q].ticket) =>
              LET t == req[q].ticket
              IN /\ ticket'[t] \in TicketRows /\ ticket'[t].status = ticket[t].status
                 /\ ticket'[t].user = ticket[t].user
                 /\ ticket'[t].room = Or(req[q].setRoom, ticket[t].room)
                 /\ ticket'[t].day = Or(req[q].setDay, ticket[t].day)
         /\ \A o \in Tickets : o # req[q].ticket => ticket'[o] = ticket[o]
<1>1. req[q] \in MovingStates
  BY StateOfPc DEF Move, Typed
<1> PICK t : t = req[q].ticket
  OBVIOUS
<1>2. t \in Tickets /\ req[q].setRoom \in Rooms \cup {Keep} /\ req[q].setDay \in Days \cup {Keep}
  BY <1>1 DEF MovingStates
<1>3. CASE ~Live(t)
  BY <1>1, <1>3 DEF Move
<1>4. CASE Live(t)
  <2> PICK r, d : r = Or(req[q].setRoom, ticket[t].room) /\ d = Or(req[q].setDay, ticket[t].day)
    OBVIOUS
  <2> PICK row : row = [ticket[t] EXCEPT !.room = r, !.day = d]
    OBVIOUS
  <2>1. ticket[t] \in TicketRows
    BY <1>2, <1>4, RowsOfTables
  <2>2. r \in Rooms /\ d \in Days
    BY <1>2, <2>1, OrTyped DEF TicketRows
  <2>3. row \in TicketRows /\ row.status = ticket[t].status /\ row.user = ticket[t].user /\ row.room = r /\ row.day = d
    BY <2>1, <2>2 DEF TicketRows
  <2>4. ticket' = [ticket EXCEPT ![t].room = Or(req[q].setRoom, @), ![t].day = Or(req[q].setDay, @)]
    BY <1>4 DEF Move
  <2>5. ticket'[t] = row /\ \A o \in Tickets \ {t} : ticket'[o] = ticket[o]
    BY <1>2, <2>1, <2>4 DEF Typed, TicketRows
  <2> QED BY <1>1, <1>4, <2>3, <2>5
<1> QED BY <1>3, <1>4

LEMMA RemoveWrites ==
  ASSUME Typed, NEW q \in Requests, Remove(q)
  PROVE  /\ req[q] \in RemovingStates
         /\ ticket'[req[q].ticket] = Deleted
         /\ \A o \in Tickets : o # req[q].ticket => ticket'[o] = ticket[o]
<1>1. req[q] \in RemovingStates
  BY StateOfPc DEF Remove, Typed
<1> QED BY <1>1 DEF Remove, RemovingStates, Typed

LEMMA OpenWrites ==
  ASSUME Typed, NEW q \in Requests, OpenDate(q)
  PROVE  /\ req[q] \in OpeningStates
         /\ \E x \in Dates :
              /\ ~Open(x) /\ Unique(x, req[q].room, req[q].day)
              /\ date'[x] \in DateRows /\ date'[x].status = "open"
              /\ date'[x].room = req[q].room /\ date'[x].day = req[q].day
              /\ \A y \in Dates \ {x} : date'[y] = date[y]
<1>1. req[q] \in OpeningStates
  BY StateOfPc DEF OpenDate, Typed
<1> PICK row : row = [status |-> "open", room |-> req[q].room, day |-> req[q].day, capacity |-> req[q].capacity]
  OBVIOUS
<1>2. row \in DateRows /\ row.status = "open" /\ row.room = req[q].room /\ row.day = req[q].day
  BY <1>1 DEF OpeningStates, DateRows
<1>3. PICK x \in Dates : /\ date[x] = Unused /\ Unique(x, req[q].room, req[q].day)
                         /\ date' = [date EXCEPT ![x] = row]
  BY DEF OpenDate
<1>4. date'[x] = row /\ \A y \in Dates \ {x} : date'[y] = date[y]
  BY <1>3 DEF Typed
<1>5. ~Open(x)
  BY <1>3 DEF Open, Unused
<1> QED BY <1>1, <1>2, <1>3, <1>4, <1>5

LEMMA EditWrites ==
  ASSUME Typed, NEW q \in Requests, Edit(q)
  PROVE  LET x == req[q].date
             r == Or(req[q].setRoom, date[x].room)
             d == Or(req[q].setDay, date[x].day)
         IN /\ req[q] \in EditingStates
            /\ Open(x) /\ Unique(x, r, d)
            /\ date'[x] \in DateRows /\ date'[x].status = "open"
            /\ date'[x].room = r /\ date'[x].day = d
            /\ date'[x].capacity = Or(req[q].setCapacity, date[x].capacity)
            /\ \A y \in Dates : y # x => date'[y] = date[y]
<1>1. req[q] \in EditingStates
  BY StateOfPc DEF Edit, Typed
<1> PICK x : x = req[q].date
  OBVIOUS
<1> PICK r, d, c : /\ r = Or(req[q].setRoom, date[x].room) /\ d = Or(req[q].setDay, date[x].day)
                   /\ c = Or(req[q].setCapacity, date[x].capacity)
  OBVIOUS
<1>2. Open(x) /\ Unique(x, r, d)
  BY DEF Edit
<1>3. x \in Dates /\ date[x] \in DateRows
  BY <1>1, <1>2, RowsOfTables DEF EditingStates
<1>4. r \in Rooms /\ d \in Days /\ c \in Capacities
  BY <1>1, <1>3, OrTyped DEF EditingStates, DateRows
<1> PICK row : row = [status |-> "open", room |-> r, day |-> d, capacity |-> c]
  OBVIOUS
<1>5. row \in DateRows /\ row.status = "open" /\ row.room = r /\ row.day = d /\ row.capacity = c
  BY <1>4 DEF DateRows
<1>6. date' = [date EXCEPT ![x] = row]
  BY DEF Edit
<1>7. date'[x] = row /\ \A y \in Dates \ {x} : date'[y] = date[y]
  BY <1>3, <1>6 DEF Typed
<1> QED BY <1>1, <1>2, <1>5, <1>7

LEMMA CloseWrites ==
  ASSUME Typed, NEW q \in Requests, CloseDate(q)
  PROVE  /\ req[q] \in ClosingStates
         /\ date'[req[q].date] = Deleted
         /\ \A y \in Dates : y # req[q].date => date'[y] = date[y]
<1>1. req[q] \in ClosingStates
  BY StateOfPc DEF CloseDate, Typed
<1> QED BY <1>1 DEF CloseDate, ClosingStates, Typed

\* Staff actions and the nightly cleanup end working tickets and move none.
Ended ==
  \A t \in Tickets :
    \/ ticket'[t] = ticket[t]
    \/ /\ Live(t) /\ ticket[t].status = "working"
       /\ ticket'[t] \in TicketRows /\ SamePlace(ticket[t], ticket'[t])
       /\ ticket'[t].status # "working"

LEMMA FinishEnds ==
  ASSUME Typed, NEW q \in Requests, NEW t \in Tickets, NEW s \in {"completed", "closed"}, Finish(q, t, s)
  PROVE  Ended
<1> PICK row : row = [ticket[t] EXCEPT !.status = s, !.undoable = TRUE]
  OBVIOUS
<1>1. Live(t) /\ ticket[t] \in TicketRows /\ ticket[t].status = "working"
  BY RowsOfTables DEF Finish, Live, Classes
<1>2. row \in TicketRows /\ SamePlace(ticket[t], row) /\ row.status # "working"
  BY <1>1 DEF TicketRows, Classes, SamePlace
<1>3. \A o \in Tickets : ticket'[o] = IF o = t THEN row ELSE ticket[o]
  BY <1>1 DEF Finish, Typed, TicketRows
<1> QED BY <1>1, <1>2, <1>3 DEF Ended

LEMMA CloseExpiredEnds ==
  ASSUME Typed, CloseExpired
  PROVE  Ended /\ ticket' \in [Tickets -> TicketRows \cup {Unused, Deleted}]
<1> DEFINE over == {t \in Tickets : ticket[t].status = "working" /\ ticket[t].day < today}
<1>1. PICK inProgress \in SUBSET over :
        ticket' = [t \in Tickets |->
          IF t \in over
          THEN [ticket[t] EXCEPT !.status = IF t \in inProgress THEN "completed" ELSE "closed", !.undoable = FALSE]
          ELSE ticket[t]]
  BY Zenon DEF CloseExpired
<1>2. ASSUME NEW t \in over
      PROVE  /\ Live(t) /\ ticket[t].status = "working"
             /\ ticket'[t] \in TicketRows /\ SamePlace(ticket[t], ticket'[t]) /\ ticket'[t].status # "working"
  <2> PICK s : s = IF t \in inProgress THEN "completed" ELSE "closed"
    OBVIOUS
  <2>1. s \in {"completed", "closed"}
    OBVIOUS
  <2>2. Live(t) /\ ticket[t] \in TicketRows /\ ticket[t].status = "working"
    BY RowsOfTables DEF Live, Classes
  <2>3. ticket'[t] = [ticket[t] EXCEPT !.status = s, !.undoable = FALSE]
    BY <1>1
  <2> QED BY <2>1, <2>2, <2>3 DEF TicketRows, Classes, SamePlace
<1>3. \A t \in Tickets \ over : ticket'[t] = ticket[t]
  BY <1>1
<1>4. Ended
  BY <1>2, <1>3 DEF Ended
<1>5. \A t \in Tickets : ticket'[t] \in TicketRows \cup {Unused, Deleted}
  BY <1>2, <1>3 DEF Typed
<1> QED BY <1>1, <1>4, <1>5

\* A revert makes a ticket work again where it is.
LEMMA RevertWrites ==
  ASSUME Typed, NEW q \in Requests, NEW t \in Tickets, Revert(q, t)
  PROVE  /\ Live(t) /\ ticket'[t] \in TicketRows /\ SamePlace(ticket[t], ticket'[t])
         /\ \A o \in Tickets \ {t} : ticket'[o] = ticket[o]
<1> PICK row : row = [ticket[t] EXCEPT !.status = "working", !.undoable = FALSE]
  OBVIOUS
<1>1. Live(t) /\ ticket[t] \in TicketRows
  BY RowsOfTables DEF Revert
<1>2. row \in TicketRows /\ SamePlace(ticket[t], row)
  BY <1>1 DEF TicketRows, Classes, SamePlace
<1>3. \A o \in Tickets : ticket'[o] = IF o = t THEN row ELSE ticket[o]
  BY <1>1 DEF Revert, Typed, TicketRows
<1> QED BY <1>1, <1>2, <1>3
-----------------------------------------------------------------------------
\* The steps of Next, by what they write.
Settles(q) ==
  \/ \E t \in Tickets, s \in {"completed", "closed"} : Finish(q, t, s)
  \/ \E t \in Tickets : Revert(q, t)

RoomWrites(q) == Disable(q) \/ Drop(q) \/ \E r \in Rooms : Enable(q, r)

LEMMA NextCases ==
  ASSUME [Next]_vars
  PROVE  \/ UNCHANGED vars \/ DayPasses \/ CloseExpired
         \/ \E q \in Requests :
              \/ Asks(q) \/ Insert(q) \/ Move(q) \/ Remove(q)
              \/ OpenDate(q) \/ Edit(q) \/ CloseDate(q) \/ RoomWrites(q) \/ Settles(q)
<1>1. CASE \E q \in Requests, r \in Rooms : BeginDisable(q, r) \/ Enable(q, r) \/ BeginDrop(q, r)
  BY <1>1 DEF Asks, AdminAsks, RoomWrites
<1> QED BY <1>1 DEF Next, Asks, AdminAsks, RoomWrites, Settles

LEMMA TypedInit == Init => Typed
<1> SUFFICES ASSUME Init PROVE Typed
  OBVIOUS
<1>1. 1 \in Days
  BY ConstantsAssumption DEF Days
<1>2. OneDate
  BY DEF Init, OneDate, Open, Unused
<1> QED BY <1>1, <1>2 DEF Init, Typed, RequestStates

\* A new or changed date is alone in its place.
LEMMA OneDateKept ==
  ASSUME OneDate, NEW x \in Dates, Unique(x, date'[x].room, date'[x].day),
         \A y \in Dates \ {x} : date'[y] = date[y]
  PROVE  OneDate'
<1> SUFFICES ASSUME NEW y \in Dates, NEW z \in Dates, Open(y)', Open(z)',
                    date'[y].room = date'[z].room, date'[y].day = date'[z].day
             PROVE  y = z
  BY DEF OneDate
<1>1. CASE y # x /\ z # x
  BY <1>1 DEF OneDate, Open
<1>2. CASE y = x /\ z # x
  <2>1. z \in DatesAt(date'[x].room, date'[x].day)
    BY <1>2 DEF DatesAt, Open
  <2> QED BY <1>2, <2>1 DEF Unique
<1>3. CASE y # x /\ z = x
  <2>1. y \in DatesAt(date'[x].room, date'[x].day)
    BY <1>3 DEF DatesAt, Open
  <2> QED BY <1>3, <2>1 DEF Unique
<1> QED BY <1>1, <1>2, <1>3

LEMMA IdleTyped ==
  ASSUME Typed, NEW q \in Requests, Become(q, Idle)
  PROVE  req' \in [Requests -> RequestStates] /\ req'[q] = Idle
         /\ \A p \in Requests \ {q} : req'[p] = req[p]
  BY BecomeOnly DEF RequestStates

LEMMA TypedNext == Typed /\ [Next]_vars => Typed'
<1> SUFFICES ASSUME Typed, [Next]_vars PROVE Typed'
  OBVIOUS
<1>0. UNCHANGED date => OneDate'
  BY DEF Typed, OneDate, Open
<1>1. CASE UNCHANGED vars
  BY <1>0, <1>1 DEF vars, Typed
<1>2. CASE DayPasses
  <2>1. today' \in Days
    BY <1>2, ConstantsAssumption DEF DayPasses, Days, Typed
  <2> QED BY <1>0, <1>2, <2>1 DEF DayPasses, Typed
<1>3. CASE CloseExpired
  <2>1. UNCHANGED <<date, room, today, req>>
    BY <1>3 DEF CloseExpired
  <2> QED BY <1>0, <1>3, <2>1, CloseExpiredEnds DEF Typed
<1>4. ASSUME NEW q \in Requests, Asks(q) PROVE Typed'
  BY <1>4, AsksTyped
<1>5. ASSUME NEW q \in Requests, Become(q, Idle), UNCHANGED <<date, room, today>>,
             ticket' \in [Tickets -> TicketRows \cup {Unused, Deleted}]
      PROVE  Typed'
  BY <1>0, <1>5, IdleTyped DEF Typed
<1>6. ASSUME NEW q \in Requests, Insert(q) PROVE Typed'
  <2>1. \A t \in Tickets : ticket'[t] \in TicketRows \cup {Unused, Deleted}
    BY <1>6, InsertWrites DEF Typed
  <2>2. ticket' \in [Tickets -> TicketRows \cup {Unused, Deleted}]
    BY <1>6, <2>1 DEF Insert, Typed
  <2> QED BY <1>5, <1>6, <2>2 DEF Insert
<1>7. ASSUME NEW q \in Requests, Move(q) PROVE Typed'
  <2> PICK n : n = req[q].ticket
    OBVIOUS
  <2>1. \A t \in Tickets : ticket'[t] \in TicketRows \cup {Unused, Deleted}
    <3>1. Live(n) => ticket'[n] \in TicketRows
      BY <1>7, MoveWrites
    <3>2. (~Live(n) => UNCHANGED ticket) /\ \A o \in Tickets : o # n => ticket'[o] = ticket[o]
      BY <1>7, MoveWrites
    <3> QED BY <3>1, <3>2 DEF Typed
  <2>2. ticket' \in [Tickets -> TicketRows \cup {Unused, Deleted}]
    BY <1>7, <2>1 DEF Move, Typed
  <2> QED BY <1>5, <1>7, <2>2 DEF Move
<1>8. ASSUME NEW q \in Requests, Remove(q) PROVE Typed'
  <2>1. ticket' \in [Tickets -> TicketRows \cup {Unused, Deleted}]
    BY <1>8 DEF Remove, Typed
  <2> QED BY <1>5, <1>8, <2>1 DEF Remove
<1>9. ASSUME NEW q \in Requests, Become(q, Idle), UNCHANGED <<ticket, room, today>>, OneDate',
             date' \in [Dates -> DateRows \cup {Unused, Deleted}]
      PROVE  Typed'
  BY <1>9, IdleTyped DEF Typed
<1>10. ASSUME NEW q \in Requests, OpenDate(q) PROVE Typed'
  <2>1. PICK x \in Dates : /\ Unique(x, req[q].room, req[q].day) /\ date'[x] \in DateRows
                           /\ date'[x].room = req[q].room /\ date'[x].day = req[q].day
                           /\ \A y \in Dates \ {x} : date'[y] = date[y]
    BY <1>10, OpenWrites
  <2>2. OneDate'
    BY <2>1, OneDateKept DEF Typed
  <2>3. \A y \in Dates : date'[y] \in DateRows \cup {Unused, Deleted}
    BY <2>1 DEF Typed
  <2>4. date' \in [Dates -> DateRows \cup {Unused, Deleted}]
    BY <1>10, <2>3 DEF OpenDate, Typed
  <2> QED BY <1>9, <1>10, <2>2, <2>4 DEF OpenDate
<1>11. ASSUME NEW q \in Requests, Edit(q) PROVE Typed'
  <2> PICK x : x = req[q].date
    OBVIOUS
  <2>1. /\ Unique(x, date'[x].room, date'[x].day) /\ date'[x] \in DateRows
        /\ \A y \in Dates : y # x => date'[y] = date[y]
    BY <1>11, EditWrites
  <2>2. x \in Dates
    BY <1>11, EditWrites DEF EditingStates
  <2>3. OneDate'
    BY <2>1, <2>2, OneDateKept DEF Typed
  <2>4. \A y \in Dates : date'[y] \in DateRows \cup {Unused, Deleted}
    BY <2>1 DEF Typed
  <2>5. date' \in [Dates -> DateRows \cup {Unused, Deleted}]
    BY <1>11, <2>4 DEF Edit, Typed
  <2> QED BY <1>9, <1>11, <2>3, <2>5 DEF Edit
<1>12. ASSUME NEW q \in Requests, CloseDate(q) PROVE Typed'
  <2>1. date' \in [Dates -> DateRows \cup {Unused, Deleted}]
    BY <1>12 DEF CloseDate, Typed
  <2>2. \A y \in Dates : date'[y] = date[y] \/ ~Open(y)'
    BY <1>12, CloseWrites DEF Open, Deleted
  <2>3. OneDate'
    BY <2>2 DEF Typed, OneDate, Open
  <2> QED BY <1>9, <1>12, <2>1, <2>3 DEF CloseDate
<1>13. ASSUME NEW q \in Requests, RoomWrites(q) PROVE Typed'
  <2>1. room' \in [Rooms -> {"enabled", "disabled", "deleted"}]
    BY <1>13 DEF RoomWrites, Disable, Drop, Enable, Typed
  <2>2. UNCHANGED <<ticket, date, today>> /\ (Become(q, Idle) \/ UNCHANGED req)
    BY <1>13 DEF RoomWrites, Disable, Drop, Enable
  <2> QED BY <1>0, <2>1, <2>2, IdleTyped DEF Typed
<1>14. ASSUME NEW q \in Requests, Settles(q) PROVE Typed'
  <2>1. UNCHANGED <<date, room, today, req>>
    BY <1>14 DEF Settles, Finish, Revert
  <2>2. \A t \in Tickets : ticket'[t] \in TicketRows \cup {Unused, Deleted}
    BY <1>14, FinishEnds, RevertWrites DEF Settles, Ended, Typed
  <2>3. ticket' \in [Tickets -> TicketRows \cup {Unused, Deleted}]
    BY <1>14, <2>2 DEF Settles, Finish, Revert, Typed
  <2> QED BY <1>0, <2>1, <2>3 DEF Typed
<1> QED BY <1>1, <1>2, <1>3, <1>4, <1>6, <1>7, <1>8, <1>10, <1>11, <1>12, <1>13, <1>14, NextCases

LEMMA AlwaysTyped == Spec => []Typed
  BY TypedInit, TypedNext, PTL DEF Spec

\* The types of the tables and of what requests carry between their check and their
\* write; (room, day) stays unique (service_date_service.go, the unique index).
THEOREM TypeCorrect == Spec => []TypeOK
<1>1. Typed => TypeOK
  <2> SUFFICES ASSUME Typed PROVE TypeOK
    OBVIOUS
  <2>1. ASSUME NEW r \in Rooms, NEW d \in Days PROVE Cardinality(DatesAt(r, d)) <= 1
    <3>1. CASE DatesAt(r, d) = {}
      BY <3>1, FS_EmptySet
    <3>2. CASE DatesAt(r, d) # {}
      <4>1. PICK x : x \in DatesAt(r, d)
        BY <3>2
      <4>2. DatesAt(r, d) = {x}
        BY <4>1 DEF DatesAt, Typed, OneDate
      <4> QED BY <4>2, FS_Singleton
    <3> QED BY <3>1, <3>2
  <2> QED BY <2>1 DEF Typed, TypeOK
<1> QED BY <1>1, AlwaysTyped, PTL
-----------------------------------------------------------------------------
(***************************************************************************)
(* What a request knows when it goes on, and what becomes of tickets.      *)
(***************************************************************************)
CustomerPcs == {"booking", "insert", "moving", "move", "remove"}

AdminPcs == {"edit", "close", "disable", "drop"}

\* Request q goes on as s.
Asked(q, s) ==
  \/ s = Idle
  \/ AdminEdits /\ s.pc \in AdminPcs /\ AdminAsks(q)
  \/ s.pc = "open" /\ Exists(s.room)
  \/ s.pc = "remove" /\ req[q] = Idle /\ Free(q, s.user)
  \/ /\ s.pc = "booking" /\ req[q] = Idle /\ Free(q, s.user)
     /\ Exists(s.room) /\ DatesAt(s.room, s.day) # {}
     /\ s.count = Cardinality(Counted(s.room, s.day))
  \/ /\ s.pc = "insert" /\ req[q].pc = "booking" /\ SamePlace(req[q], s) /\ s.count = req[q].count
     /\ HasPlace(s.count, s.room, s.day) /\ NoOtherBooking(s.user)
  \/ /\ s.pc = "moving" /\ req[q] = Idle /\ Free(q, s.user)
     /\ Live(s.ticket) /\ s.user = ticket[s.ticket].user
     /\ s.room = Or(s.setRoom, ticket[s.ticket].room) /\ s.day = Or(s.setDay, ticket[s.ticket].day)
     /\ s.setRoom # Keep => Exists(s.setRoom)
     /\ DatesAt(s.room, s.day) # {}
     /\ s.count = Cardinality(Counted(s.room, s.day) \ {s.ticket})
  \/ /\ s.pc = "move" /\ req[q].pc = "moving" /\ SamePlace(req[q], s) /\ s.count = req[q].count
     /\ s.ticket = req[q].ticket /\ s.setRoom = req[q].setRoom /\ s.setDay = req[q].setDay
     /\ HasPlace(s.count, s.room, s.day)

LEMMA AskOutcome ==
  ASSUME Typed, NEW q \in Requests, Asks(q)
  PROVE  /\ UNCHANGED <<ticket, date, room, today>> /\ Asked(q, req'[q])
         /\ \A p \in Requests \ {q} : req'[p] = req[p]
<1>0. ASSUME NEW s, Become(q, s) PROVE req'[q] = s /\ \A p \in Requests \ {q} : req'[p] = req[p]
  BY <1>0, BecomeOnly
<1> SUFFICES \E s : Become(q, s) /\ Asked(q, s) /\ UNCHANGED <<ticket, date, room, today>>
  BY <1>0
<1>1. ASSUME NEW u \in Users, NEW r \in Rooms, NEW d \in Days, BeginBooking(q, u, r, d)
      PROVE  \E s : Become(q, s) /\ Asked(q, s) /\ UNCHANGED <<ticket, date, room, today>>
  <2> PICK s : s = [pc |-> "booking", user |-> u, room |-> r, day |-> d, count |-> Cardinality(Counted(r, d))]
    OBVIOUS
  <2> QED BY <1>1 DEF BeginBooking, Asked, Free
<1>2. CASE AcceptBooking(q)
  <2> PICK s : s = [req[q] EXCEPT !.pc = "insert"]
    OBVIOUS
  <2>1. req[q] \in BookingStates
    BY <1>2, StateOfPc DEF AcceptBooking, Typed
  <2>2. s.pc = "insert" /\ SamePlace(req[q], s) /\ s.count = req[q].count
    BY <2>1 DEF BookingStates, SamePlace
  <2>3. /\ req[q].pc = "booking" /\ HasPlace(s.count, s.room, s.day) /\ NoOtherBooking(s.user)
        /\ Become(q, s) /\ UNCHANGED <<ticket, date, room, today>>
    BY <1>2, <2>2 DEF AcceptBooking, SamePlace
  <2> QED BY <2>2, <2>3 DEF Asked
<1>3. ASSUME NEW t \in Tickets, NEW a \in Rooms \cup {Keep}, NEW b \in Days \cup {Keep}, BeginMove(q, t, a, b)
      PROVE  \E s : Become(q, s) /\ Asked(q, s) /\ UNCHANGED <<ticket, date, room, today>>
  <2> PICK r, d : r = Or(a, ticket[t].room) /\ d = Or(b, ticket[t].day)
    OBVIOUS
  <2> PICK s : s = [pc |-> "moving", ticket |-> t, user |-> ticket[t].user, room |-> r, day |-> d,
                    setRoom |-> a, setDay |-> b, count |-> Cardinality(Counted(r, d) \ {t})]
    OBVIOUS
  <2>1. /\ Live(t) /\ Free(q, ticket[t].user) /\ DatesAt(r, d) # {} /\ (a # Keep => Exists(a))
        /\ Become(q, s) /\ UNCHANGED <<ticket, date, room, today>>
    BY <1>3 DEF BeginMove
  <2>2. req[q] = Idle
    BY <2>1 DEF Free
  <2> QED BY <2>1, <2>2 DEF Asked
<1>4. CASE AcceptMove(q)
  <2> PICK s : s = [req[q] EXCEPT !.pc = "move"]
    OBVIOUS
  <2>1. req[q] \in MovingStates
    BY <1>4, StateOfPc DEF AcceptMove, Typed
  <2>2. /\ s.pc = "move" /\ SamePlace(req[q], s) /\ s.count = req[q].count
        /\ s.ticket = req[q].ticket /\ s.setRoom = req[q].setRoom /\ s.setDay = req[q].setDay
    BY <2>1 DEF MovingStates, SamePlace
  <2>3. /\ req[q].pc = "moving" /\ HasPlace(s.count, s.room, s.day)
        /\ Become(q, s) /\ UNCHANGED <<ticket, date, room, today>>
    BY <1>4, <2>2 DEF AcceptMove, SamePlace
  <2> QED BY <2>2, <2>3 DEF Asked
<1>5. ASSUME NEW t \in Tickets, BeginRemove(q, t)
      PROVE  \E s : Become(q, s) /\ Asked(q, s) /\ UNCHANGED <<ticket, date, room, today>>
  <2> PICK s : s = [pc |-> "remove", ticket |-> t, user |-> ticket[t].user]
    OBVIOUS
  <2> QED BY <1>5 DEF BeginRemove, Asked, Free
<1>6. ASSUME NEW r \in Rooms, NEW d \in Days, NEW c \in Capacities, BeginOpen(q, r, d, c)
      PROVE  \E s : Become(q, s) /\ Asked(q, s) /\ UNCHANGED <<ticket, date, room, today>>
  <2> PICK s : s = [pc |-> "open", room |-> r, day |-> d, capacity |-> c]
    OBVIOUS
  <2> QED BY <1>6 DEF BeginOpen, Asked
<1>7. CASE AdminAsks(q)
  <2>1. \E s : Become(q, s) /\ s.pc \in AdminPcs
    <3>1. ASSUME NEW x, NEW r, NEW d, NEW c, BeginEdit(q, x, r, d, c)
          PROVE  \E s : Become(q, s) /\ s.pc \in AdminPcs
      <4> PICK s : s = [pc |-> "edit", date |-> x, setRoom |-> r, setDay |-> d, setCapacity |-> c]
        OBVIOUS
      <4> QED BY <3>1 DEF BeginEdit, AdminPcs
    <3>2. ASSUME NEW x, BeginClose(q, x) PROVE \E s : Become(q, s) /\ s.pc \in AdminPcs
      <4> PICK s : s = [pc |-> "close", date |-> x]
        OBVIOUS
      <4> QED BY <3>2 DEF BeginClose, AdminPcs
    <3>3. ASSUME NEW r, BeginDisable(q, r) \/ BeginDrop(q, r) PROVE \E s : Become(q, s) /\ s.pc \in AdminPcs
      <4> PICK s, o : s = [pc |-> "disable", room |-> r] /\ o = [pc |-> "drop", room |-> r]
        OBVIOUS
      <4> QED BY <3>3 DEF BeginDisable, BeginDrop, AdminPcs
    <3> QED BY <1>7, <3>1, <3>2, <3>3 DEF AdminAsks
  <2>2. AdminEdits /\ UNCHANGED <<ticket, date, room, today>>
    BY <1>7 DEF AdminAsks, BeginEdit, BeginClose, BeginDisable, BeginDrop, FreeForAdmin
  <2> QED BY <1>7, <2>1, <2>2 DEF Asked
<1>8. CASE Fail(q)
  BY <1>8 DEF Fail, Asked
<1> QED BY <1>1, <1>2, <1>3, <1>4, <1>5, <1>6, <1>7, <1>8 DEF Asks

\* Ticket t stays a row where it is, or goes.
Follows(t) ==
  /\ ticket[t] # Unused => ticket'[t] # Unused
  /\ Live(t)' => Live(t) /\ SamePlace(ticket[t], ticket'[t])

LEMMA SameFollows ==
  ASSUME NEW t, ticket'[t] = ticket[t]
  PROVE  Follows(t)
  BY DEF Follows, Live, SamePlace

\* Only an insertion brings a ticket, and only a move takes one elsewhere.
LEMMA TicketsFollow ==
  ASSUME Typed, [Next]_vars
  PROVE  \A t \in Tickets :
           \/ Follows(t)
           \/ \E q \in Requests :
                \/ Insert(q) /\ ticket[t] = Unused /\ SamePlace(req[q], ticket'[t])
                \/ Move(q) /\ Live(t) /\ req[q].ticket = t
<1> SUFFICES ASSUME NEW t \in Tickets
             PROVE  \/ Follows(t)
                    \/ \E q \in Requests :
                         \/ Insert(q) /\ ticket[t] = Unused /\ SamePlace(req[q], ticket'[t])
                         \/ Move(q) /\ Live(t) /\ req[q].ticket = t
  OBVIOUS
<1>0. \A row \in TicketRows : row # Unused
  BY DEF TicketRows, Unused, Classes
<1>1. ASSUME Ended PROVE Follows(t)
  <2>1. CASE ticket'[t] = ticket[t]
    BY <2>1, SameFollows
  <2>2. CASE Live(t) /\ ticket'[t] \in TicketRows /\ SamePlace(ticket[t], ticket'[t])
    BY <1>0, <2>2 DEF Follows
  <2> QED BY <1>1, <2>1, <2>2 DEF Ended
<1>2. CASE UNCHANGED ticket
  BY <1>2, SameFollows
<1>3. CASE CloseExpired
  BY <1>1, <1>3, CloseExpiredEnds
<1>4. ASSUME NEW q \in Requests, Settles(q) PROVE Follows(t)
  <2>1. CASE \E o \in Tickets, s \in {"completed", "closed"} : Finish(q, o, s)
    BY <1>1, <2>1, FinishEnds
  <2>2. CASE \E o \in Tickets : Revert(q, o)
    <3> PICK o \in Tickets : Revert(q, o)
      BY <2>2
    <3>1. CASE o = t
      <4>1. Live(t) /\ ticket'[t] \in TicketRows /\ SamePlace(ticket[t], ticket'[t])
        BY <3>1, RevertWrites
      <4> QED BY <1>0, <4>1 DEF Follows
    <3>2. CASE o # t
      BY <3>2, RevertWrites, SameFollows
    <3> QED BY <3>1, <3>2
  <2> QED BY <1>4, <2>1, <2>2 DEF Settles
<1>5. ASSUME NEW q \in Requests, Insert(q)
      PROVE  Follows(t) \/ (ticket[t] = Unused /\ SamePlace(req[q], ticket'[t]))
  BY <1>5, InsertWrites, SameFollows
<1>6. ASSUME NEW q \in Requests, Move(q) PROVE Follows(t) \/ (Live(t) /\ req[q].ticket = t)
  BY <1>6, MoveWrites, SameFollows
<1>7. ASSUME NEW q \in Requests, Remove(q) PROVE Follows(t)
  <2>1. ticket'[t] = ticket[t] \/ ticket'[t] = Deleted
    BY <1>7, RemoveWrites
  <2>2. Deleted # Unused /\ Deleted.status \notin Classes
    BY DEF Deleted, Unused, Classes
  <2> QED BY <2>1, <2>2, SameFollows DEF Follows, Live
<1>8. CASE UNCHANGED vars \/ DayPasses
  <2>1. UNCHANGED ticket
    BY <1>8 DEF vars, DayPasses
  <2> QED BY <1>2, <2>1
<1>9. ASSUME NEW q \in Requests, OpenDate(q) \/ Edit(q) \/ CloseDate(q) PROVE Follows(t)
  <2>1. UNCHANGED ticket
    BY <1>9 DEF OpenDate, Edit, CloseDate
  <2> QED BY <2>1, SameFollows
<1>10. ASSUME NEW q \in Requests, RoomWrites(q) PROVE Follows(t)
  <2>1. UNCHANGED ticket
    BY <1>10 DEF RoomWrites, Disable, Drop, Enable
  <2> QED BY <2>1, SameFollows
<1>11. ASSUME NEW q \in Requests, Asks(q) PROVE Follows(t)
  BY <1>11, AskOutcome, SameFollows
<1> QED BY <1>3, <1>4, <1>5, <1>6, <1>7, <1>8, <1>9, <1>10, <1>11, NextCases
-----------------------------------------------------------------------------
(***************************************************************************)
(* Customers who wait for their answers.                                   *)
(***************************************************************************)

\* No two requests are of the same customer.
OneEach ==
  \A p, q \in Requests :
    p # q /\ req[p].pc \in CustomerPcs /\ req[q].pc \in CustomerPcs => req[p].user # req[q].user

\* The ticket that is being moved, while it exists, is the customer's and where it was.
Owned(s) ==
  s.pc \in {"moving", "move"} =>
    /\ ticket[s.ticket] # Unused
    /\ Live(s.ticket) =>
         /\ ticket[s.ticket].user = s.user
         /\ s.room = Or(s.setRoom, ticket[s.ticket].room)
         /\ s.day = Or(s.setDay, ticket[s.ticket].day)

Customers == OneEach /\ \A q \in Requests : Owned(req[q])

\* The request of a step, if there is one; the others stay as they are.
LEMMA OthersStay ==
  ASSUME Typed, [Next]_vars
  PROVE  \/ UNCHANGED req
         \/ \E q \in Requests :
              /\ \A p \in Requests \ {q} : req'[p] = req[p]
              /\ \/ Asks(q) /\ Asked(q, req'[q])
                 \/ /\ req'[q] = Idle
                    /\ \/ Insert(q) \/ Move(q) \/ Remove(q) \/ OpenDate(q) \/ Edit(q) \/ CloseDate(q)
                       \/ Disable(q) \/ Drop(q)
<1>1. CASE UNCHANGED vars \/ DayPasses \/ CloseExpired
  BY <1>1 DEF vars, DayPasses, CloseExpired
<1>2. ASSUME NEW q \in Requests, Settles(q) PROVE UNCHANGED req
  BY <1>2 DEF Settles, Finish, Revert
<1>3. ASSUME NEW q \in Requests, \E r \in Rooms : Enable(q, r) PROVE UNCHANGED req
  BY <1>3 DEF Enable
<1>4. ASSUME NEW q \in Requests, Insert(q) \/ Move(q) \/ Remove(q) \/ Disable(q) \/ Drop(q)
      PROVE  Become(q, Idle)
  BY <1>4 DEF Insert, Move, Remove, Disable, Drop
<1>5. ASSUME NEW q \in Requests, OpenDate(q) \/ Edit(q) \/ CloseDate(q) PROVE Become(q, Idle)
  BY <1>5 DEF OpenDate, Edit, CloseDate
<1>6. ASSUME NEW q \in Requests, Asks(q)
      PROVE  Asked(q, req'[q]) /\ \A p \in Requests \ {q} : req'[p] = req[p]
  BY <1>6, AskOutcome
<1>7. ASSUME NEW q \in Requests, RoomWrites(q)
      PROVE  Disable(q) \/ Drop(q) \/ \E r \in Rooms : Enable(q, r)
  BY <1>7 DEF RoomWrites
<1> QED BY <1>1, <1>2, <1>3, <1>4, <1>5, <1>6, <1>7, NextCases, IdleTyped

LEMMA OneEachNext ==
  ASSUME CustomersWait, Typed, OneEach, [Next]_vars
  PROVE  OneEach'
<1>1. CASE UNCHANGED req
  BY <1>1 DEF OneEach
<1>2. ASSUME NEW q \in Requests, \A p \in Requests \ {q} : req'[p] = req[p],
             req'[q].pc \in CustomerPcs => \A p \in Requests \ {q} : req[p].pc \in CustomerPcs => req[p].user # req'[q].user
      PROVE  OneEach'
  BY <1>2 DEF OneEach
<1>3. ASSUME NEW q \in Requests, \A p \in Requests \ {q} : req'[p] = req[p], req'[q] = Idle
      PROVE  OneEach'
  <2>1. Idle.pc \notin CustomerPcs
    BY DEF Idle, CustomerPcs
  <2> QED BY <1>2, <1>3, <2>1
<1>4. ASSUME NEW q \in Requests, \A p \in Requests \ {q} : req'[p] = req[p], Asked(q, req'[q])
      PROVE  OneEach'
  <2> PICK s : s = req'[q]
    OBVIOUS
  <2>1. CASE Free(q, s.user)
    BY <1>2, <1>4, <2>1 DEF Free, CustomerPcs
  <2>2. CASE req[q].pc \in {"booking", "moving"} /\ SamePlace(req[q], s)
    <3>1. req[q].pc \in CustomerPcs /\ s.user = req[q].user
      BY <2>2 DEF CustomerPcs, SamePlace
    <3> QED BY <1>2, <1>4, <3>1 DEF OneEach
  <2>3. CASE s = Idle \/ s.pc = "open" \/ s.pc \in AdminPcs
    <3>1. s.pc \notin CustomerPcs
      BY <2>3 DEF Idle, CustomerPcs, AdminPcs
    <3> QED BY <1>2, <1>4, <3>1
  <2> QED BY <1>4, <2>1, <2>2, <2>3 DEF Asked
<1> QED BY <1>1, <1>3, <1>4, OthersStay

\* What a request that is not the one to move knows of its ticket stays true.
LEMMA OwnedKept ==
  ASSUME Typed, Customers, [Next]_vars, NEW p \in Requests, req'[p] = req[p]
  PROVE  Owned(req[p])'
<1> PICK s, t : s = req[p] /\ t = s.ticket
  OBVIOUS
<1> SUFFICES ASSUME s.pc \in {"moving", "move"} PROVE Owned(s)'
  BY DEF Owned
<1>1. t \in Tickets /\ Owned(s) /\ s \in RequestStates
  BY StateOfPc DEF Typed, MovingStates, Customers
<1>2. CASE Follows(t)
  BY <1>1, <1>2 DEF Owned, Follows, SamePlace
<1>3. ASSUME NEW q \in Requests, Move(q), Live(t), req[q].ticket = t PROVE FALSE
  <2>1. req[q].pc = "move" /\ Idle.pc = "idle" /\ req'[q] = Idle
    BY <1>3, IdleTyped DEF Move, Idle
  <2>2. q # p
    BY <2>1
  <2>3. req[q].user = ticket[t].user /\ s.user = ticket[t].user
    BY <1>1, <1>3, <2>1 DEF Customers, Owned
  <2> QED BY <2>1, <2>2, <2>3 DEF Customers, OneEach, CustomerPcs
<1>4. ticket[t] # Unused
  BY <1>1 DEF Owned
<1> QED BY <1>1, <1>2, <1>3, <1>4, TicketsFollow

LEMMA CustomersNext ==
  ASSUME CustomersWait, Typed, Customers, [Next]_vars
  PROVE  Customers'
<1>1. OneEach'
  BY OneEachNext DEF Customers
<1>2. ASSUME NEW p \in Requests PROVE Owned(req[p])'
  <2>1. CASE req'[p] = req[p]
    BY <2>1, OwnedKept
  <2>2. CASE req'[p] = Idle
    BY <2>2 DEF Owned, Idle
  <2>3. CASE Asks(p) /\ Asked(p, req'[p])
    <3> PICK s : s = req'[p]
      OBVIOUS
    <3>1. UNCHANGED ticket
      BY <2>3, AskOutcome
    <3>2. CASE s.pc = "moving"
      <4>1. /\ Live(s.ticket) /\ s.user = ticket[s.ticket].user
            /\ s.room = Or(s.setRoom, ticket[s.ticket].room) /\ s.day = Or(s.setDay, ticket[s.ticket].day)
        BY <2>3, <3>2 DEF Asked, Idle, AdminPcs
      <4>2. ticket[s.ticket] # Unused
        BY <4>1 DEF Live, Unused, Classes
      <4> QED BY <3>1, <4>1, <4>2 DEF Owned, Live
    <3>3. CASE s.pc = "move"
      <4>1. /\ req[p].pc = "moving" /\ SamePlace(req[p], s)
            /\ s.ticket = req[p].ticket /\ s.setRoom = req[p].setRoom /\ s.setDay = req[p].setDay
        BY <2>3, <3>3 DEF Asked, Idle, AdminPcs
      <4>2. Owned(s)
        BY <4>1 DEF Customers, Owned, SamePlace
      <4> QED BY <3>1, <4>2 DEF Owned, Live
    <3>4. CASE s.pc \notin {"moving", "move"}
      BY <3>4 DEF Owned
    <3> QED BY <3>2, <3>3, <3>4
  <2> QED BY <2>1, <2>2, <2>3, OthersStay
<1> QED BY <1>1, <1>2 DEF Customers

LEMMA CustomersInit == Init => Customers
  BY DEF Init, Customers, OneEach, Owned, Idle, CustomerPcs
-----------------------------------------------------------------------------
(***************************************************************************)
(* A booking is accepted when the customer has no other.                   *)
(***************************************************************************)
AcceptedAlone == \A q \in Requests : req[q].pc = "insert" => NoOtherBooking(req[q].user)

\* Without reverts a ticket that works was working, unless it was just inserted.
LEMMA WorkersWorked ==
  ASSUME ~Reverts, Typed, [Next]_vars, NEW t \in Tickets, Follows(t), ticket'[t].status = "working"
  PROVE  ticket[t].status = "working" /\ SamePlace(ticket[t], ticket'[t])
<1>0. Live(t) /\ SamePlace(ticket[t], ticket'[t])
  BY DEF Follows, Live, Classes
<1>1. CASE ticket'[t] = ticket[t]
  BY <1>0, <1>1
<1>2. CASE Ended
  BY <1>0, <1>2 DEF Ended
<1>3. CASE CloseExpired
  BY <1>2, <1>3, CloseExpiredEnds
<1>4. ASSUME NEW q \in Requests, Settles(q) PROVE ticket[t].status = "working"
  BY <1>0, <1>2, <1>4, FinishEnds DEF Settles, Revert
<1>5. ASSUME NEW q \in Requests, Insert(q) PROVE ticket'[t] = ticket[t]
  BY <1>0, <1>5, InsertWrites
<1>6. ASSUME NEW q \in Requests, Move(q) PROVE ticket[t].status = "working"
  BY <1>0, <1>6, MoveWrites
<1>7. ASSUME NEW q \in Requests, Remove(q) PROVE ticket'[t] = ticket[t]
  <2>1. Deleted.status # "working"
    BY DEF Deleted
  <2> QED BY <1>7, <2>1, RemoveWrites
<1>8. ASSUME NEW q \in Requests, OpenDate(q) \/ Edit(q) \/ CloseDate(q) PROVE UNCHANGED ticket
  BY <1>8 DEF OpenDate, Edit, CloseDate
<1>9. ASSUME NEW q \in Requests, RoomWrites(q) PROVE UNCHANGED ticket
  BY <1>9 DEF RoomWrites, Disable, Drop, Enable
<1>10. ASSUME NEW q \in Requests, Asks(q) PROVE UNCHANGED ticket
  BY <1>10, AskOutcome
<1>11. CASE UNCHANGED vars \/ DayPasses
  BY <1>1, <1>11 DEF vars, DayPasses
<1>12. ticket[t].status = "working"
  BY <1>1, <1>3, <1>4, <1>5, <1>6, <1>7, <1>8, <1>9, <1>10, <1>11, NextCases
<1> QED BY <1>0, <1>12

LEMMA DaysGoForward ==
  ASSUME Typed, [Next]_vars
  PROVE  today' \in Nat /\ today \in Nat /\ today <= today' /\ \A d \in Days : d \in Nat
<1>0. today \in Nat /\ \A d \in Days : d \in Nat
  BY ConstantsAssumption DEF Typed, Days
<1>1. CASE UNCHANGED today
  BY <1>0, <1>1
<1>2. CASE DayPasses
  BY <1>0, <1>2 DEF DayPasses
<1>3. CASE CloseExpired \/ UNCHANGED vars
  BY <1>1, <1>3 DEF CloseExpired, vars
<1>4. ASSUME NEW q \in Requests, Asks(q) PROVE UNCHANGED today
  BY <1>4, AskOutcome
<1>5. ASSUME NEW q \in Requests, Insert(q) \/ Move(q) \/ Remove(q) PROVE UNCHANGED today
  BY <1>5 DEF Insert, Move, Remove
<1>6. ASSUME NEW q \in Requests, OpenDate(q) \/ Edit(q) \/ CloseDate(q) PROVE UNCHANGED today
  BY <1>6 DEF OpenDate, Edit, CloseDate
<1>7. ASSUME NEW q \in Requests, RoomWrites(q) PROVE UNCHANGED today
  BY <1>7 DEF RoomWrites, Disable, Drop, Enable
<1>8. ASSUME NEW q \in Requests, Settles(q) PROVE UNCHANGED today
  BY <1>8 DEF Settles, Finish, Revert
<1> QED BY <1>1, <1>2, <1>3, <1>4, <1>5, <1>6, <1>7, <1>8, NextCases

\* Only a customer's own insertion or move brings a booking up.
LEMMA UpcomingKept ==
  ASSUME ~Reverts, Typed, [Next]_vars, NEW u,
         \A q \in Requests : Insert(q) \/ (Move(q) /\ Live(req[q].ticket)) => req[q].user # u,
         \A q \in Requests : Move(q) /\ Live(req[q].ticket) => ticket[req[q].ticket].user = req[q].user
  PROVE  Upcoming(u)' \subseteq Upcoming(u)
<1> SUFFICES ASSUME NEW t \in Tickets, ticket'[t].status = "working", ticket'[t].user = u, ticket'[t].day >= today'
             PROVE  t \in Upcoming(u)
  BY DEF Upcoming
<1>1. CASE Follows(t)
  <2>1. ticket[t].status = "working" /\ ticket[t].user = u /\ ticket[t].day = ticket'[t].day
    BY <1>1, WorkersWorked DEF SamePlace
  <2>2. ticket[t].day \in Days
    BY <2>1, RowsOfTables DEF Live, Classes, TicketRows
  <2>3. ticket[t].day >= today
    BY <2>1, <2>2, DaysGoForward
  <2> QED BY <2>1, <2>3 DEF Upcoming
<1>2. ASSUME NEW q \in Requests, Insert(q), SamePlace(req[q], ticket'[t]) PROVE FALSE
  BY <1>2 DEF SamePlace
<1>3. ASSUME NEW q \in Requests, Move(q), Live(t), req[q].ticket = t PROVE FALSE
  BY <1>3, MoveWrites
<1> QED BY <1>1, <1>2, <1>3, TicketsFollow

LEMMA AcceptedAloneNext ==
  ASSUME CustomersWait, ~Reverts, Typed, Customers, AcceptedAlone, [Next]_vars
  PROVE  AcceptedAlone'
<1> SUFFICES ASSUME NEW p \in Requests, NEW u, u = req'[p].user, req'[p].pc = "insert"
             PROVE  Upcoming(u)' = {}
  BY DEF AcceptedAlone, NoOtherBooking, Upcoming
<1>1. CASE req'[p] = req[p]
  <2>1. Upcoming(u) = {}
    BY <1>1 DEF AcceptedAlone, NoOtherBooking
  <2>2. ASSUME NEW q \in Requests, Insert(q) \/ Move(q) PROVE req[q].user # u
    <3>1. req[q].pc \in {"insert", "move"} /\ req'[q] = Idle /\ Idle.pc = "idle"
      BY <2>2, IdleTyped DEF Insert, Move, Idle
    <3>2. q # p
      BY <3>1
    <3> QED BY <1>1, <3>1, <3>2 DEF Customers, OneEach, CustomerPcs
  <2>3. ASSUME NEW q \in Requests, Move(q), Live(req[q].ticket)
        PROVE  ticket[req[q].ticket].user = req[q].user
    BY <2>3 DEF Move, Customers, Owned
  <2>4. Upcoming(u)' \subseteq Upcoming(u)
    BY <2>2, <2>3, UpcomingKept
  <2> QED BY <2>1, <2>4
<1>2. CASE Asks(p) /\ Asked(p, req'[p])
  <2>1. NoOtherBooking(u)
    BY <1>2 DEF Asked, Idle, AdminPcs
  <2>2. UNCHANGED <<ticket, today>>
    BY <1>2, AskOutcome
  <2> QED BY <2>1, <2>2 DEF NoOtherBooking, Upcoming
<1>3. CASE req'[p] = Idle
  BY <1>3 DEF Idle
<1> QED BY <1>1, <1>2, <1>3, OthersStay

\* A customer who waits for the answers never gets a booking while another one of the
\* same customer is coming up, as long as staff take nothing back (ticket_service.go:128-152).
THEOREM NoSecondBooking ==
  ASSUME CustomersWait, ~Reverts
  PROVE  Spec => BookedAlone
<1> DEFINE Alone == \A q \in Requests, u \in Users :
                      Insert(q) /\ req[q].user = u => Cardinality(Upcoming(u)') <= 1
<1>1. ASSUME Typed, Customers, AcceptedAlone PROVE Alone
  <2> SUFFICES ASSUME NEW q \in Requests, NEW u \in Users, Insert(q), req[q].user = u
               PROVE  Cardinality(Upcoming(u)') <= 1
    OBVIOUS
  <2>1. Upcoming(u) = {} /\ UNCHANGED today
    BY <1>1 DEF AcceptedAlone, NoOtherBooking, Insert
  <2>2. PICK t \in Tickets : \A o \in Tickets \ {t} : ticket'[o] = ticket[o]
    BY <1>1, InsertWrites
  <2>3. Upcoming(u)' \subseteq {t}
    BY <2>1, <2>2 DEF Upcoming
  <2>4. \A S : S \subseteq {t} => Cardinality(S) <= 1
    <3> SUFFICES ASSUME NEW S, S \subseteq {t} PROVE Cardinality(S) <= 1
      OBVIOUS
    <3>1. S = {} \/ S = {t}
      OBVIOUS
    <3>2. Cardinality(S) = 0 \/ Cardinality(S) = 1
      BY <3>1, FS_EmptySet, FS_Singleton, Zenon
    <3> QED BY <3>2
  <2> QED BY <2>3, <2>4
<1>2. Init => AcceptedAlone
  BY DEF Init, AcceptedAlone, Idle
<1>3. Spec => [](Typed /\ Customers /\ AcceptedAlone)
  BY <1>2, AlwaysTyped, CustomersInit, CustomersNext, AcceptedAloneNext, PTL DEF Spec
<1>4. Typed /\ Customers /\ AcceptedAlone => [Alone]_vars
  BY <1>1
<1>5. [](Typed /\ Customers /\ AcceptedAlone) => [][Alone]_vars
  BY <1>4, PTL
<1> QED BY <1>3, <1>5 DEF BookedAlone
-----------------------------------------------------------------------------
(***************************************************************************)
(* The customer's second booking.  Without reverts only one thing brings   *)
(* it: an expired ticket, left unfinished, is moved to a day ahead while   *)
(* the customer has another one (UpdateForUser does not look).             *)
(***************************************************************************)
RevivesSecond ==
  \E q \in Requests, t \in Tickets, r \in Rooms \cup {Keep}, d \in Days \cup {Keep} :
    /\ BeginMove(q, t, r, d)
    /\ ticket[t].status = "working" /\ ticket[t].day < today
    /\ ~NoOtherBooking(ticket[t].user)

\* At most one of the customer's bookings is coming up.
Single(u) == \A s, t \in Upcoming(u) : s = t

\* A customer who moves an unfinished ticket has no other booking.
MovesAlone ==
  \A q \in Requests :
    req[q].pc \in {"moving", "move"} /\ ticket[req[q].ticket].status = "working"
      => Upcoming(req[q].user) \subseteq {req[q].ticket}

BookedOnce == (\A u \in Users : Single(u)) /\ MovesAlone /\ AcceptedAlone

\* A request that moves a ticket was begun with it.
LEMMA BegunMove ==
  ASSUME Typed, NEW q \in Requests, Asks(q), req'[q].pc = "moving"
  PROVE  \E t \in Tickets, r \in Rooms \cup {Keep}, d \in Days \cup {Keep} :
           BeginMove(q, t, r, d) /\ req'[q].ticket = t /\ req'[q].user = ticket[t].user
<1>1. ASSUME NEW t \in Tickets, NEW a, NEW b, BeginMove(q, t, a, b)
      PROVE  req'[q].ticket = t /\ req'[q].user = ticket[t].user
  <2> PICK r, d : r = Or(a, ticket[t].room) /\ d = Or(b, ticket[t].day)
    OBVIOUS
  <2> PICK s : s = [pc |-> "moving", ticket |-> t, user |-> ticket[t].user, room |-> r, day |-> d,
                    setRoom |-> a, setDay |-> b, count |-> Cardinality(Counted(r, d) \ {t})]
    OBVIOUS
  <2>1. Become(q, s)
    BY <1>1 DEF BeginMove
  <2>2. req'[q] = s
    BY <2>1, BecomeOnly
  <2> QED BY <2>2
<1>2. ASSUME NEW s, Become(q, s), s.pc # "moving" PROVE FALSE
  BY <1>2, BecomeOnly
<1>3. ASSUME NEW u, NEW r, NEW d, BeginBooking(q, u, r, d) PROVE FALSE
  <2> PICK s : s = [pc |-> "booking", user |-> u, room |-> r, day |-> d, count |-> Cardinality(Counted(r, d))]
    OBVIOUS
  <2> QED BY <1>2, <1>3 DEF BeginBooking
<1>4. CASE AcceptBooking(q)
  <2> PICK s : s = [req[q] EXCEPT !.pc = "insert"]
    OBVIOUS
  <2>1. req[q] \in BookingStates
    BY <1>4, StateOfPc DEF AcceptBooking, Typed
  <2>2. s.pc = "insert"
    BY <2>1 DEF BookingStates
  <2> QED BY <1>2, <1>4, <2>2 DEF AcceptBooking
<1>5. CASE AcceptMove(q)
  <2> PICK s : s = [req[q] EXCEPT !.pc = "move"]
    OBVIOUS
  <2>1. req[q] \in MovingStates
    BY <1>5, StateOfPc DEF AcceptMove, Typed
  <2>2. s.pc = "move"
    BY <2>1 DEF MovingStates
  <2> QED BY <1>2, <1>5, <2>2 DEF AcceptMove
<1>6. ASSUME NEW t, BeginRemove(q, t) PROVE FALSE
  <2> PICK s : s = [pc |-> "remove", ticket |-> t, user |-> ticket[t].user]
    OBVIOUS
  <2> QED BY <1>2, <1>6 DEF BeginRemove
<1>7. ASSUME NEW r, NEW d, NEW c, BeginOpen(q, r, d, c) PROVE FALSE
  <2> PICK s : s = [pc |-> "open", room |-> r, day |-> d, capacity |-> c]
    OBVIOUS
  <2> QED BY <1>2, <1>7 DEF BeginOpen
<1>8. CASE AdminAsks(q)
  <2>1. ASSUME NEW x, NEW r, NEW d, NEW c, BeginEdit(q, x, r, d, c) PROVE FALSE
    <3> PICK s : s = [pc |-> "edit", date |-> x, setRoom |-> r, setDay |-> d, setCapacity |-> c]
      OBVIOUS
    <3> QED BY <1>2, <2>1 DEF BeginEdit
  <2>2. ASSUME NEW x, BeginClose(q, x) PROVE FALSE
    <3> PICK s : s = [pc |-> "close", date |-> x]
      OBVIOUS
    <3> QED BY <1>2, <2>2 DEF BeginClose
  <2>3. ASSUME NEW r, BeginDisable(q, r) \/ BeginDrop(q, r) PROVE FALSE
    <3> PICK s, o : s = [pc |-> "disable", room |-> r] /\ o = [pc |-> "drop", room |-> r]
      OBVIOUS
    <3> QED BY <1>2, <2>3 DEF BeginDisable, BeginDrop
  <2> QED BY <1>8, <2>1, <2>2, <2>3 DEF AdminAsks
<1>9. CASE Fail(q)
  BY <1>2, <1>9 DEF Fail, Idle
<1> QED BY <1>1, <1>3, <1>4, <1>5, <1>6, <1>7, <1>8, <1>9 DEF Asks

\* A request of another customer brings none of this customer's bookings up.
LEMMA OthersUpcoming ==
  ASSUME CustomersWait, ~Reverts, Typed, Customers, [Next]_vars,
         NEW p \in Requests, req'[p] = req[p], req[p].pc \in CustomerPcs
  PROVE  Upcoming(req[p].user)' \subseteq Upcoming(req[p].user)
<1> PICK u : u = req[p].user
  OBVIOUS
<1>1. ASSUME NEW q \in Requests, Insert(q) \/ Move(q) PROVE req[q].user # u
  <2>1. req[q].pc \in {"insert", "move"} /\ req'[q] = Idle /\ Idle.pc = "idle"
    BY <1>1, IdleTyped DEF Insert, Move, Idle
  <2>2. q # p
    BY <2>1 DEF CustomerPcs
  <2> QED BY <2>1, <2>2 DEF Customers, OneEach, CustomerPcs
<1>2. ASSUME NEW q \in Requests, Move(q), Live(req[q].ticket)
      PROVE  ticket[req[q].ticket].user = req[q].user
  BY <1>2 DEF Move, Customers, Owned
<1>3. Upcoming(u)' \subseteq Upcoming(u)
  BY <1>1, <1>2, UpcomingKept
<1> QED BY <1>3

LEMMA MovesAloneNext ==
  ASSUME CustomersWait, ~Reverts, Typed, Customers, BookedOnce, [Next]_vars, ~RevivesSecond
  PROVE  MovesAlone'
<1> SUFFICES ASSUME NEW p \in Requests, NEW t, t = req'[p].ticket, NEW u, u = req'[p].user,
                    req'[p].pc \in {"moving", "move"}, ticket'[t].status = "working"
             PROVE  Upcoming(u)' \subseteq {t}
  BY DEF MovesAlone, Upcoming
<1>1. CASE req'[p] = req[p]
  <2>1. Upcoming(u)' \subseteq Upcoming(u)
    BY <1>1, OthersUpcoming DEF CustomerPcs
  <2>2. t \in Tickets /\ Owned(req[p])
    BY <1>1, StateOfPc DEF Typed, MovingStates, Customers
  <2>3. ticket[t] # Unused /\ (Live(t) => ticket[t].user = u)
    BY <1>1, <2>2 DEF Owned
  <2>4. ASSUME NEW q \in Requests, Move(q), Live(t), req[q].ticket = t PROVE FALSE
    <3>1. req[q].pc = "move" /\ req'[q] = Idle /\ Idle.pc = "idle"
      BY <2>4, IdleTyped DEF Move, Idle
    <3>2. q # p
      BY <1>1, <3>1
    <3>3. req[q].user = u
      BY <2>3, <2>4, <3>1 DEF Customers, Owned
    <3> QED BY <1>1, <3>1, <3>2, <3>3 DEF Customers, OneEach, CustomerPcs
  <2>5. Follows(t)
    BY <2>2, <2>3, <2>4, TicketsFollow
  <2>6. ticket[t].status = "working"
    BY <2>2, <2>5, WorkersWorked
  <2>7. Upcoming(u) \subseteq {t}
    BY <1>1, <2>6 DEF BookedOnce, MovesAlone
  <2> QED BY <2>1, <2>7
<1>2. CASE Asks(p) /\ Asked(p, req'[p])
  <2>1. UNCHANGED <<ticket, today>>
    BY <1>2, AskOutcome
  <2>2. Upcoming(u)' = Upcoming(u)
    BY <2>1 DEF Upcoming
  <2>3. CASE req'[p].pc = "moving"
    <3>1. PICK r \in Rooms \cup {Keep}, d \in Days \cup {Keep} :
            BeginMove(p, t, r, d) /\ t \in Tickets /\ u = ticket[t].user
      BY <1>2, <2>3, BegunMove
    <3>2. ticket[t].status = "working"
      BY <2>1
    <3>3. ticket[t] \in TicketRows
      BY <3>1, <3>2, RowsOfTables DEF Live, Classes
    <3>4. CASE ticket[t].day < today
      BY <2>2, <3>1, <3>2, <3>4 DEF RevivesSecond, NoOtherBooking
    <3>5. CASE ticket[t].day >= today
      <4>1. t \in Upcoming(u) /\ u \in Users
        BY <3>1, <3>2, <3>3, <3>5 DEF Upcoming, TicketRows
      <4>2. Single(u)
        BY <4>1 DEF BookedOnce
      <4> QED BY <2>2, <4>1, <4>2 DEF Single
    <3>6. ticket[t].day \in Nat /\ today \in Nat
      BY <3>3, DaysGoForward DEF TicketRows
    <3> QED BY <3>4, <3>5, <3>6
  <2>4. CASE req'[p].pc = "move"
    <3>1. req[p].pc = "moving" /\ req[p].user = u /\ req[p].ticket = t
      BY <1>2, <2>4 DEF Asked, Idle, AdminPcs, SamePlace
    <3> QED BY <2>1, <2>2, <3>1 DEF BookedOnce, MovesAlone
  <2> QED BY <2>3, <2>4
<1>3. CASE req'[p] = Idle
  BY <1>3 DEF Idle
<1> QED BY <1>1, <1>2, <1>3, OthersStay

LEMMA SingleNext ==
  ASSUME CustomersWait, ~Reverts, Typed, Customers, BookedOnce, [Next]_vars, NEW u \in Users
  PROVE  Single(u)'
<1>1. ASSUME NEW q \in Requests, Insert(q), req[q].user = u PROVE Single(u)'
  <2>1. Upcoming(u) = {} /\ UNCHANGED today
    BY <1>1 DEF BookedOnce, AcceptedAlone, NoOtherBooking, Insert
  <2>2. PICK t \in Tickets : \A o \in Tickets \ {t} : ticket'[o] = ticket[o]
    BY <1>1, InsertWrites
  <2>3. Upcoming(u)' \subseteq {t}
    BY <2>1, <2>2 DEF Upcoming
  <2> QED BY <2>3 DEF Single, Upcoming
<1>2. ASSUME NEW q \in Requests, Move(q), Live(req[q].ticket), req[q].user = u PROVE Single(u)'
  <2> PICK t : t = req[q].ticket
    OBVIOUS
  <2>1. /\ UNCHANGED today /\ req[q].pc = "move" /\ ticket'[t].status = ticket[t].status
        /\ \A o \in Tickets \ {t} : ticket'[o] = ticket[o]
    BY <1>2, MoveWrites DEF Move
  <2>2. Upcoming(u)' \subseteq Upcoming(u) \cup {t}
    BY <2>1 DEF Upcoming
  <2>3. CASE ticket[t].status = "working"
    <3>1. Upcoming(u) \subseteq {t}
      BY <1>2, <2>1, <2>3 DEF BookedOnce, MovesAlone
    <3>2. Upcoming(u)' \subseteq {t}
      BY <2>2, <3>1
    <3> QED BY <3>2 DEF Single, Upcoming
  <2>4. CASE ticket[t].status # "working"
    <3>1. t \notin Upcoming(u)'
      BY <2>1, <2>4 DEF Upcoming
    <3>2. Upcoming(u)' \subseteq Upcoming(u)
      BY <2>2, <3>1
    <3> QED BY <3>2 DEF BookedOnce, Single, Upcoming
  <2> QED BY <2>3, <2>4
<1>3. CASE \A q \in Requests : Insert(q) \/ (Move(q) /\ Live(req[q].ticket)) => req[q].user # u
  <2>1. ASSUME NEW q \in Requests, Move(q), Live(req[q].ticket)
        PROVE  ticket[req[q].ticket].user = req[q].user
    BY <2>1 DEF Move, Customers, Owned
  <2>2. Upcoming(u)' \subseteq Upcoming(u)
    BY <1>3, <2>1, UpcomingKept
  <2> QED BY <2>2 DEF BookedOnce, Single, Upcoming
<1> QED BY <1>1, <1>2, <1>3

\* However many requests are served at a time, customers who wait for their answers have
\* one booking coming up at most, unless one of them moves an expired, unfinished
\* ticket to a day ahead while another booking is coming up, or staff take something
\* back (ticket_service.go: Create looks for other bookings, UpdateForUser does not).
THEOREM OneUpcomingUnlessRevived ==
  ASSUME CustomersWait, ~Reverts
  PROVE  Spec /\ [][~RevivesSecond]_vars => []OneUpcoming
<1>1. Init => BookedOnce
  BY DEF Init, BookedOnce, Single, MovesAlone, AcceptedAlone, Upcoming, Idle, Unused
<1>2. Typed /\ Customers /\ BookedOnce /\ [Next]_vars /\ [~RevivesSecond]_vars => BookedOnce'
  <2> SUFFICES ASSUME Typed, Customers, BookedOnce, [Next]_vars, [~RevivesSecond]_vars
               PROVE  BookedOnce'
    OBVIOUS
  <2>1. CASE UNCHANGED vars
    BY <2>1 DEF vars, BookedOnce, Single, MovesAlone, AcceptedAlone, NoOtherBooking, Upcoming
  <2>2. CASE ~RevivesSecond
    BY <2>2, SingleNext, MovesAloneNext, AcceptedAloneNext DEF BookedOnce
  <2> QED BY <2>1, <2>2
<1>3. ASSUME BookedOnce PROVE OneUpcoming
  <2> SUFFICES ASSUME NEW u \in Users PROVE Cardinality(Upcoming(u)) <= 1
    BY DEF OneUpcoming
  <2>1. Single(u)
    BY <1>3 DEF BookedOnce
  <2>2. CASE Upcoming(u) = {}
    BY <2>2, FS_EmptySet
  <2>3. ASSUME NEW t \in Upcoming(u) PROVE Cardinality(Upcoming(u)) <= 1
    <3>1. Upcoming(u) = {t}
      BY <2>1, <2>3 DEF Single
    <3>2. Cardinality({t}) = 1
      BY FS_Singleton
    <3> QED BY <3>1, <3>2
  <2> QED BY <2>2, <2>3
<1> QED BY <1>1, <1>2, <1>3, AlwaysTyped, CustomersInit, CustomersNext, PTL DEF Spec
-----------------------------------------------------------------------------
(***************************************************************************)
(* How far a date can be overbooked.  Between its count and its write a    *)
(* request is armed: the count left it a place, whatever happened since.   *)
(* The tickets at a date that no armed request is moving, and its armed    *)
(* requests, are together at most capacity + requests - 1 : when a request *)
(* is armed there are fewer tickets than places, and each write turns one  *)
(* armed request into one ticket.                                          *)
(***************************************************************************)
Counts == {"booking", "insert", "moving", "move"}

Arms(s, x) ==
  /\ s.pc \in Counts /\ s.room = date[x].room /\ s.day = date[x].day
  /\ s.pc \in {"booking", "moving"} => s.count < date[x].capacity

Armed(x) == {q \in Requests : Arms(req[q], x)}

Carried(x) == {t \in Tickets : \E q \in Armed(x) : req[q].pc \in {"moving", "move"} /\ req[q].ticket = t}

Here(x) ==
  {t \in Tickets : ticket[t].status = "working" /\ ticket[t].room = date[x].room /\ ticket[t].day = date[x].day}

Settled(x) == Here(x) \ Carried(x)

Bounded(x) ==
  Open(x) => Cardinality(Settled(x)) + Cardinality(Armed(x)) + 1
               <= date[x].capacity + Cardinality(Requests)

\* No administrator is at work.
NoAdmin == \A q \in Requests : req[q].pc \notin AdminPcs

\* Tickets, and what is asked for them, are on service dates.
OnDates ==
  /\ \A t \in Tickets : Live(t) => DatesAt(ticket[t].room, ticket[t].day) # {}
  /\ \A q \in Requests : req[q].pc \in Counts => DatesAt(req[q].room, req[q].day) # {}

\* Sets of requests are finite.
LEMMA RequestSets ==
  ASSUME NEW A \in SUBSET Requests
  PROVE  /\ IsFiniteSet(A) /\ Cardinality(A) \in Nat /\ Cardinality(A) <= Cardinality(Requests)
         /\ Cardinality(Requests) \in Nat \ {0}
         /\ \A B \in SUBSET A : Cardinality(B) <= Cardinality(A)
<1>1. IsFiniteSet(A) /\ Cardinality(A) <= Cardinality(Requests)
  BY ConstantsAssumption, FS_Subset
<1>2. Cardinality(Requests) \in Nat /\ Cardinality(Requests) # 0
  BY ConstantsAssumption, FS_CardinalityType, FS_EmptySet
<1> QED BY <1>1, <1>2, FS_Subset, FS_CardinalityType

\* One armed request less pays for one ticket more.
LEMMA Exchange ==
  ASSUME NEW S \in SUBSET Tickets, NEW T \in SUBSET Tickets, NEW e, T \subseteq S \cup {e},
         NEW A \in SUBSET Requests, NEW B \in SUBSET Requests, NEW q \in A, B \subseteq A \ {q}
  PROVE  Cardinality(T) + Cardinality(B) <= Cardinality(S) + Cardinality(A)
<1>1. Cardinality(T) <= Cardinality(S) + 1
  <2>1. IsFiniteSet(S) /\ Cardinality(S) \in Nat
    BY TicketSets
  <2>2. IsFiniteSet(S \cup {e}) /\ Cardinality(S \cup {e}) <= Cardinality(S) + 1
    BY SMTT(30), <2>1, FS_AddElement
  <2>3. Cardinality(T) <= Cardinality(S \cup {e}) /\ Cardinality(T) \in Nat
    BY <2>2, FS_Subset, TicketSets
  <2>4. Cardinality(S \cup {e}) \in Nat
    BY <2>2, FS_CardinalityType
  <2> QED BY <2>1, <2>2, <2>3, <2>4
<1>2. Cardinality(B) <= Cardinality(A) - 1
  <2>1. IsFiniteSet(A) /\ Cardinality(A \ {q}) = Cardinality(A) - 1 /\ IsFiniteSet(A \ {q})
    BY RequestSets, FS_RemoveElement
  <2> QED BY <2>1, FS_Subset
<1>3. /\ Cardinality(S) \in Nat /\ Cardinality(T) \in Nat
      /\ Cardinality(A) \in Nat /\ Cardinality(B) \in Nat
  BY TicketSets, RequestSets
<1> QED BY <1>1, <1>2, <1>3

\* As many tickets are carried as there are requests that carry them, at most.
LEMMA CarriedByArmed ==
  ASSUME NEW x
  PROVE  Cardinality(Carried(x)) <= Cardinality(Armed(x))
<1> DEFINE M == {q \in Armed(x) : req[q].pc \in {"moving", "move"} /\ req[q].ticket \in Tickets}
           f == [q \in M |-> req[q].ticket]
<1>1. M \in SUBSET Requests /\ Armed(x) \in SUBSET Requests /\ M \in SUBSET Armed(x)
  BY DEF Armed
<1>2. IsFiniteSet(M) /\ Cardinality(M) <= Cardinality(Armed(x)) /\ Cardinality(M) \in Nat /\ Cardinality(Armed(x)) \in Nat
  BY <1>1, RequestSets
<1>3. f \in Surjection(M, Carried(x))
  <2>1. f \in [M -> Carried(x)]
    BY DEF Carried
  <2>2. \A t \in Carried(x) : \E q \in M : f[q] = t
    BY DEF Carried
  <2> QED BY <2>1, <2>2 DEF Surjection
<1>4. Cardinality(Carried(x)) <= Cardinality(M)
  BY <1>2, <1>3, FS_Surjection
<1>5. Cardinality(Carried(x)) \in Nat
  BY TicketSets DEF Carried
<1> QED BY <1>2, <1>4, <1>5
LEMMA BoundedExcess ==
  ASSUME Typed, NEW x \in Dates, Bounded(x)
  PROVE  Excess(x) <= Cardinality(Requests) - 1
<1>0. Cardinality(Requests) \in Nat \ {0}
  BY RequestSets
<1>1. CASE ~Open(x)
  BY <1>0, <1>1 DEF Excess
<1>2. CASE Open(x)
  <2>1. WorkingAt(date[x].room, date[x].day) = Here(x)
    BY DEF WorkingAt, TicketsAt, Here, Live, Classes
  <2> PICK n, m, k, a : /\ n = Cardinality(Here(x)) /\ m = Cardinality(Settled(x))
                        /\ k = Cardinality(Carried(x)) /\ a = Cardinality(Armed(x))
    OBVIOUS
  <2>2. n \in Nat /\ m \in Nat /\ k \in Nat /\ a \in Nat
    BY TicketSets, RequestSets DEF Here, Settled, Carried, Armed
  <2>3. n <= m + k
    <3>1. IsFiniteSet(Settled(x)) /\ IsFiniteSet(Carried(x))
      BY TicketSets DEF Here, Settled, Carried
    <3>2. Settled(x) \cup Carried(x) \in SUBSET Tickets /\ Here(x) \in SUBSET (Settled(x) \cup Carried(x))
      BY DEF Here, Settled, Carried
    <3>3. n <= Cardinality(Settled(x) \cup Carried(x))
      BY <3>2, TicketSets
    <3>4. Cardinality(Settled(x) \cup Carried(x)) = m + k - Cardinality(Settled(x) \cap Carried(x))
      BY <3>1, FS_Union
    <3>5. Cardinality(Settled(x) \cap Carried(x)) \in Nat
      BY TicketSets DEF Carried
    <3> QED BY <2>2, <3>3, <3>4, <3>5
  <2>4. k <= a
    BY CarriedByArmed
  <2>5. m + a + 1 <= date[x].capacity + Cardinality(Requests) /\ date[x].capacity \in Nat
    BY <1>2, ConstantsAssumption, RowsOfTables DEF Bounded, DateRows, Capacities
  <2>6. Excess(x) = IF n > date[x].capacity THEN n - date[x].capacity ELSE 0
    BY <1>2, <2>1 DEF Excess
  <2> QED BY <1>0, <2>2, <2>3, <2>4, <2>5, <2>6
<1> QED BY <1>1, <1>2

\* Without administrators no date goes or changes.
LEMMA DatesStand ==
  ASSUME ~AdminEdits, Typed, NoAdmin, [Next]_vars
  PROVE  NoAdmin' /\ \A x \in Dates : Open(x) => date'[x] = date[x]
<1>1. NoAdmin'
  <2>1. ASSUME NEW q \in Requests, Asked(q, req'[q]) PROVE req'[q].pc \notin AdminPcs
    BY <2>1 DEF Asked, Idle, AdminPcs
  <2>2. Idle.pc \notin AdminPcs
    BY DEF Idle, AdminPcs
  <2>3. \A p \in Requests : req'[p] = req[p] \/ req'[p] = Idle \/ Asked(p, req'[p])
    BY OthersStay
  <2> QED BY <2>1, <2>2, <2>3 DEF NoAdmin
<1>2. ASSUME NEW q \in Requests, OpenDate(q), NEW x \in Dates, Open(x) PROVE date'[x] = date[x]
  BY <1>2, OpenWrites
<1>3. ASSUME NEW q \in Requests, Edit(q) \/ CloseDate(q) PROVE FALSE
  BY <1>3 DEF Edit, CloseDate, NoAdmin, AdminPcs
<1>4. ASSUME NEW q \in Requests, Insert(q) \/ Move(q) \/ Remove(q) \/ Settles(q) \/ RoomWrites(q)
      PROVE  UNCHANGED date
  BY <1>4 DEF Insert, Move, Remove, Settles, Finish, Revert, RoomWrites, Disable, Drop, Enable
<1>5. ASSUME NEW q \in Requests, Asks(q) PROVE UNCHANGED date
  BY <1>5, AskOutcome
<1>6. ASSUME UNCHANGED vars \/ DayPasses \/ CloseExpired PROVE UNCHANGED date
  <2>1. UNCHANGED date
    BY <1>6 DEF vars, DayPasses, CloseExpired
  <2> QED BY <2>1
<1>7. \A x \in Dates : Open(x) => date'[x] = date[x]
  BY <1>2, <1>3, <1>4, <1>5, <1>6, NextCases
<1> QED BY <1>1, <1>7

LEMMA OnDatesNext ==
  ASSUME ~AdminEdits, Typed, NoAdmin, Customers, OnDates, [Next]_vars
  PROVE  OnDates'
<1>1. ASSUME NEW r, NEW d, DatesAt(r, d) # {} PROVE DatesAt(r, d)' # {}
  <2>1. PICK x \in Dates : Open(x) /\ date[x].room = r /\ date[x].day = d
    BY <1>1 DEF DatesAt
  <2>2. date'[x] = date[x]
    BY <2>1, DatesStand
  <2>3. x \in DatesAt(r, d)'
    BY <2>1, <2>2 DEF DatesAt, Open
  <2> QED BY <2>3
<1>2. ASSUME NEW t \in Tickets, Live(t)', NEW r, NEW d, r = ticket'[t].room, d = ticket'[t].day
      PROVE  DatesAt(r, d)' # {}
  <2>1. CASE Follows(t)
    <3>1. DatesAt(ticket[t].room, ticket[t].day) # {} /\ SamePlace(ticket[t], ticket'[t])
      BY <1>2, <2>1 DEF Follows, OnDates
    <3>2. DatesAt(r, d) # {}
      BY <1>2, <3>1 DEF SamePlace
    <3> QED BY <1>1, <3>2
  <2>2. ASSUME NEW q \in Requests, Insert(q), SamePlace(req[q], ticket'[t])
        PROVE  DatesAt(r, d)' # {}
    <3>1. DatesAt(req[q].room, req[q].day) # {}
      BY <2>2 DEF OnDates, Insert, Counts
    <3>2. DatesAt(r, d) # {}
      BY <1>2, <2>2, <3>1 DEF SamePlace
    <3> QED BY <1>1, <3>2
  <2>3. ASSUME NEW q \in Requests, Move(q), Live(t), req[q].ticket = t
        PROVE  DatesAt(r, d)' # {}
    <3>1. DatesAt(req[q].room, req[q].day) # {} /\ req[q].pc = "move"
      BY <2>3 DEF OnDates, Move, Counts
    <3>2. req[q].room = Or(req[q].setRoom, ticket[t].room) /\ req[q].day = Or(req[q].setDay, ticket[t].day)
      BY <2>3, <3>1 DEF Customers, Owned
    <3>3. ticket'[t].room = req[q].room /\ ticket'[t].day = req[q].day
      BY <2>3, <3>2, MoveWrites
    <3>4. DatesAt(r, d) # {}
      BY <1>2, <3>1, <3>3
    <3> QED BY <1>1, <3>4
  <2> QED BY <2>1, <2>2, <2>3, TicketsFollow
<1>3. ASSUME NEW p \in Requests, req'[p].pc \in Counts, NEW r, NEW d, r = req'[p].room, d = req'[p].day
      PROVE  DatesAt(r, d)' # {}
  <2>1. DatesAt(r, d) # {}
    <3>1. CASE req'[p] = req[p]
      BY <1>3, <3>1 DEF OnDates
    <3>2. CASE req'[p] = Idle
      BY <1>3, <3>2 DEF Idle, Counts
    <3>3. CASE Asked(p, req'[p])
      <4>1. CASE req'[p].pc \in {"booking", "moving"}
        BY <1>3, <3>3, <4>1 DEF Asked, Idle, AdminPcs
      <4>2. CASE req'[p].pc \in {"insert", "move"}
        <5>1. req[p].pc \in Counts /\ SamePlace(req[p], req'[p])
          BY <3>3, <4>2 DEF Asked, Idle, AdminPcs, Counts
        <5> QED BY <1>3, <5>1 DEF OnDates, SamePlace
      <4> QED BY <1>3, <4>1, <4>2 DEF Counts
    <3> QED BY <3>1, <3>2, <3>3, OthersStay
  <2> QED BY <1>1, <2>1
<1> QED BY <1>2, <1>3 DEF OnDates, DatesAt
\* The armed requests of a date change only by the request of the step.
LEMMA OthersArmed ==
  ASSUME NEW x, date'[x] = date[x], NEW p, req'[p] = req[p]
  PROVE  Arms(req[p], x)' <=> Arms(req[p], x)
  BY DEF Arms

LEMMA LeavingKeeps ==
  ASSUME Typed, NEW x \in Dates, Open(x), date'[x] = date[x], Bounded(x),
         NEW q \in Requests, \A p \in Requests \ {q} : req'[p] = req[p], q \notin Armed(x)',
         NEW e, req[q].pc \in {"moving", "move"} => req[q].ticket = e,
         q \in Armed(x) => Here(x)' \subseteq Here(x) \cup {e},
         q \notin Armed(x) => Here(x)' \subseteq Here(x)
  PROVE  Bounded(x)'
<1>0. \A p \in Requests \ {q} : Arms(req[p], x)' <=> Arms(req[p], x)
  BY OthersArmed
<1>1. Armed(x)' = Armed(x) \ {q}
  BY <1>0 DEF Armed
<1>2. \A p \in Armed(x) \ {q} : req'[p] = req[p]
  BY DEF Armed
<1> PICK S, T, A, B : S = Settled(x) /\ T = Settled(x)' /\ A = Armed(x) /\ B = Armed(x)'
  OBVIOUS
<1>3. /\ S \in SUBSET Tickets /\ T \in SUBSET Tickets
      /\ A \in SUBSET Requests /\ B \in SUBSET Requests
  BY DEF Settled, Here, Armed
<1>4. Cardinality(T) + Cardinality(B) <= Cardinality(S) + Cardinality(A)
  <2>1. CASE q \in A
    <3>1. \A t \in Carried(x) : t # e => t \in Carried(x)'
      BY <1>1, <1>2 DEF Carried
    <3>2. T \subseteq S \cup {e}
      BY <2>1, <3>1 DEF Settled
    <3> QED BY <1>1, <1>3, <2>1, <3>2, Exchange
  <2>2. CASE q \notin A
    <3>1. B = A /\ \A t \in Carried(x) : t \in Carried(x)'
      BY <1>1, <1>2, <2>2 DEF Carried
    <3>2. T \subseteq S
      BY <2>2, <3>1 DEF Settled
    <3>3. Cardinality(T) <= Cardinality(S) /\ Cardinality(T) \in Nat /\ Cardinality(S) \in Nat /\ Cardinality(A) \in Nat
      BY <1>3, <3>2, TicketSets, RequestSets
    <3> QED BY <3>1, <3>3
  <2> QED BY <2>1, <2>2
<1>5. date[x].capacity \in Nat /\ Cardinality(Requests) \in Nat
  BY ConstantsAssumption, RowsOfTables, RequestSets DEF DateRows, Capacities
<1>6. /\ Cardinality(S) \in Nat /\ Cardinality(T) \in Nat
      /\ Cardinality(A) \in Nat /\ Cardinality(B) \in Nat
  BY <1>3, TicketSets, RequestSets
<1>7. Cardinality(T) + Cardinality(B) + 1 <= date'[x].capacity + Cardinality(Requests)
  BY <1>4, <1>5, <1>6 DEF Bounded
<1> QED BY <1>7 DEF Bounded

LEMMA StayingKeeps ==
  ASSUME Typed, NEW x \in Dates, Open(x), date'[x] = date[x], Bounded(x),
         Armed(x)' = Armed(x), Carried(x) \subseteq Carried(x)', Here(x)' \subseteq Here(x)
  PROVE  Bounded(x)'
<1> PICK S, T : S = Settled(x) /\ T = Settled(x)'
  OBVIOUS
<1>1. S \in SUBSET Tickets /\ T \in SUBSET S
  BY DEF Settled, Here
<1>2. Cardinality(T) <= Cardinality(S) /\ Cardinality(S) \in Nat /\ Cardinality(T) \in Nat
  BY <1>1, TicketSets
<1>3. Cardinality(Armed(x)) \in Nat /\ Cardinality(Requests) \in Nat
  BY RequestSets DEF Armed
<1>4. date[x].capacity \in Nat
  BY ConstantsAssumption, RowsOfTables DEF DateRows, Capacities
<1>5. Cardinality(T) + Cardinality(Armed(x)) + 1 <= date'[x].capacity + Cardinality(Requests)
  BY <1>2, <1>3, <1>4 DEF Bounded
<1> QED BY <1>5 DEF Bounded

\* While there are fewer tickets than places every request may be armed.
LEMMA RoomLeftBounds ==
  ASSUME Typed, NEW x \in Dates, Open(x), date'[x] = date[x], Cardinality(Settled(x)') < date[x].capacity
  PROVE  Bounded(x)'
<1> PICK T, B : T = Settled(x)' /\ B = Armed(x)'
  OBVIOUS
<1>1. T \in SUBSET Tickets /\ B \in SUBSET Requests
  BY DEF Settled, Here, Armed
<1>2. /\ Cardinality(T) \in Nat /\ Cardinality(B) \in Nat
      /\ Cardinality(B) <= Cardinality(Requests) /\ Cardinality(Requests) \in Nat
  BY <1>1, TicketSets, RequestSets
<1>3. date[x].capacity \in Nat
  BY ConstantsAssumption, RowsOfTables DEF DateRows, Capacities
<1>4. Cardinality(T) + Cardinality(B) + 1 <= date'[x].capacity + Cardinality(Requests)
  BY <1>2, <1>3
<1> QED BY <1>4 DEF Bounded

\* A request that is armed by its count, or stays armed.
LEMMA ArmingKeeps ==
  ASSUME Typed, NEW x \in Dates, Open(x), date'[x] = date[x], Bounded(x),
         NEW q \in Requests, Asks(q), q \in Armed(x)'
  PROVE  Bounded(x)'
<1>0. /\ UNCHANGED <<ticket, date, room, today>> /\ Asked(q, req'[q])
      /\ \A p \in Requests \ {q} : req'[p] = req[p]
  BY AskOutcome
<1> PICK s : s = req'[q]
  OBVIOUS
<1>1. /\ s.pc \in Counts /\ s.room = date[x].room /\ s.day = date[x].day
      /\ s.pc \in {"booking", "moving"} => s.count < date[x].capacity
  BY <1>0 DEF Armed, Arms
<1>2. Here(x)' = Here(x)
  BY <1>0 DEF Here
<1>3. date[x].capacity \in Nat
  BY ConstantsAssumption, RowsOfTables DEF DateRows, Capacities
<1>4. Here(x) \subseteq Counted(s.room, s.day)
  BY <1>1 DEF Here, Counted, TicketsAt, Live, Classes
<1>5. Counted(s.room, s.day) \in SUBSET Tickets
  BY DEF Counted, TicketsAt
<1>6. CASE s.pc = "booking"
  <2>1. s.count = Cardinality(Counted(s.room, s.day))
    BY <1>0, <1>6 DEF Asked, Idle, AdminPcs
  <2>2. Settled(x)' \in SUBSET Counted(s.room, s.day)
    BY <1>2, <1>4 DEF Settled
  <2> PICK n, m : n = Cardinality(Settled(x)') /\ m = Cardinality(Counted(s.room, s.day))
    OBVIOUS
  <2>3. n <= m /\ n \in Nat /\ m \in Nat
    BY <1>5, <2>2, TicketSets
  <2>4. n < date[x].capacity
    BY <1>1, <1>3, <1>6, <2>1, <2>3
  <2> QED BY <2>4, RoomLeftBounds
<1>7. CASE s.pc = "moving"
  <2>1. s.count = Cardinality(Counted(s.room, s.day) \ {s.ticket}) /\ Live(s.ticket)
    BY <1>0, <1>7 DEF Asked, Idle, AdminPcs
  <2>2. s.ticket \in Tickets => s.ticket \in Carried(x)'
    BY <1>7 DEF Carried
  <2>3. Settled(x)' \in SUBSET (Counted(s.room, s.day) \ {s.ticket})
    BY <1>2, <1>4, <2>2 DEF Settled, Here
  <2> PICK n, m : n = Cardinality(Settled(x)') /\ m = Cardinality(Counted(s.room, s.day) \ {s.ticket})
    OBVIOUS
  <2>4. n <= m /\ n \in Nat /\ m \in Nat
    BY <1>5, <2>3, TicketSets
  <2>5. n < date[x].capacity
    BY <1>1, <1>3, <1>7, <2>1, <2>4
  <2> QED BY <2>5, RoomLeftBounds
<1>8. CASE s.pc \in {"insert", "move"}
  <2>1. /\ req[q].pc \in {"booking", "moving"} /\ SamePlace(req[q], s) /\ s.count = req[q].count
        /\ HasPlace(s.count, s.room, s.day)
        /\ s.pc = "move" <=> req[q].pc = "moving"
        /\ s.pc = "move" => s.ticket = req[q].ticket
    BY <1>0, <1>8 DEF Asked, Idle, AdminPcs
  <2>2. PICK y \in DatesAt(s.room, s.day) : s.count < date[y].capacity
    BY <2>1 DEF HasPlace
  <2>3. y = x
    BY <1>1, <2>2 DEF DatesAt, Typed, OneDate
  <2>4. q \in Armed(x)
    BY <1>1, <2>1, <2>2, <2>3 DEF Armed, Arms, Counts, SamePlace
  <2>5. \A p \in Requests \ {q} : Arms(req[p], x)' <=> Arms(req[p], x)
    BY <1>0, OthersArmed
  <2>6. Armed(x)' = Armed(x)
    BY <2>4, <2>5 DEF Armed
  <2>7. Carried(x) \subseteq Carried(x)'
    BY <1>0, <1>8, <2>1, <2>6 DEF Carried, Armed
  <2> QED BY <1>2, <2>6, <2>7, StayingKeeps
<1> QED BY <1>1, <1>6, <1>7, <1>8 DEF Counts
\* A ticket comes to a date only by being inserted or moved there.
LEMMA HereFollows ==
  ASSUME ~Reverts, Typed, [Next]_vars, NEW x \in Dates, date'[x] = date[x], NEW t \in Here(x)', Follows(t)
  PROVE  t \in Here(x)
<1>1. t \in Tickets /\ ticket'[t].status = "working"
  BY DEF Here
<1>2. ticket[t].status = "working" /\ SamePlace(ticket[t], ticket'[t])
  BY <1>1, WorkersWorked
<1> QED BY <1>1, <1>2 DEF Here, SamePlace

LEMMA BoundedNext ==
  ASSUME ~AdminEdits, ~Reverts, Typed, NoAdmin, Customers, OnDates, [Next]_vars,
         NEW x \in Dates, Open(x), Bounded(x)
  PROVE  Bounded(x)'
<1>0. date'[x] = date[x]
  BY DatesStand
<1>1. CASE \E q \in Requests : Insert(q)
  <2> PICK q \in Requests : Insert(q)
    BY <1>1
  <2>1. PICK t \in Tickets : /\ SamePlace(req[q], ticket'[t])
                             /\ \A o \in Tickets \ {t} : ticket'[o] = ticket[o]
    BY InsertWrites
  <2>2. req[q].pc = "insert" /\ req'[q] = Idle /\ \A p \in Requests \ {q} : req'[p] = req[p]
    BY IdleTyped DEF Insert
  <2>3. q \notin Armed(x)'
    BY <2>2 DEF Armed, Arms, Idle, Counts
  <2>4. Here(x)' \subseteq Here(x) \cup {t}
    BY <1>0, <2>1 DEF Here
  <2>5. q \notin Armed(x) => t \notin Here(x)'
    BY <1>0, <2>1, <2>2 DEF Armed, Arms, Counts, Here, SamePlace
  <2>6. q \notin Armed(x) => Here(x)' \subseteq Here(x)
    BY <2>4, <2>5
  <2> QED BY <1>0, <2>2, <2>3, <2>4, <2>6, LeavingKeeps
<1>2. CASE \E q \in Requests : Move(q)
  <2> PICK q \in Requests : Move(q)
    BY <1>2
  <2> PICK t : t = req[q].ticket
    OBVIOUS
  <2>1. \A o \in Tickets : o # t => ticket'[o] = ticket[o]
    BY MoveWrites
  <2>2. req[q].pc = "move" /\ req'[q] = Idle /\ \A p \in Requests \ {q} : req'[p] = req[p]
    BY IdleTyped DEF Move
  <2>3. q \notin Armed(x)'
    BY <2>2 DEF Armed, Arms, Idle, Counts
  <2>4. Here(x)' \subseteq Here(x) \cup {t}
    BY <1>0, <2>1 DEF Here
  <2>5. q \notin Armed(x) => (t \in Here(x)' => t \in Here(x))
    <3>1. CASE ~Live(t)
      BY <1>0, <3>1, MoveWrites DEF Here
    <3>2. CASE Live(t)
      <4>1. ticket'[t].room = req[q].room /\ ticket'[t].day = req[q].day
        BY <2>2, <3>2, MoveWrites DEF Customers, Owned
      <4> QED BY <1>0, <2>2, <4>1 DEF Armed, Arms, Counts, Here
    <3> QED BY <3>1, <3>2
  <2>6. q \notin Armed(x) => Here(x)' \subseteq Here(x)
    BY <2>4, <2>5
  <2> QED BY <1>0, <2>2, <2>3, <2>4, <2>6, LeavingKeeps
<1>3. CASE ~\E q \in Requests : Insert(q) \/ Move(q)
  <2>1. Here(x)' \subseteq Here(x)
    <3>1. \A t \in Tickets : Follows(t)
      BY <1>3, TicketsFollow
    <3>2. \A t \in Here(x)' : t \in Tickets
      BY DEF Here
    <3> QED BY <1>0, <3>1, <3>2, HereFollows
  <2>2. CASE UNCHANGED req
    <3>1. Armed(x)' = Armed(x)
      BY <1>0, <2>2 DEF Armed, Arms
    <3>2. Carried(x)' = Carried(x)
      BY <2>2, <3>1 DEF Carried
    <3> QED BY <1>0, <2>1, <3>1, <3>2, StayingKeeps
  <2>3. ASSUME NEW q \in Requests, \A p \in Requests \ {q} : req'[p] = req[p], q \notin Armed(x)'
        PROVE  Bounded(x)'
    <3> PICK e : e = req[q].ticket
      OBVIOUS
    <3> QED BY <1>0, <2>1, <2>3, LeavingKeeps
  <2>4. ASSUME NEW q \in Requests, \A p \in Requests \ {q} : req'[p] = req[p], Asks(q), q \in Armed(x)'
        PROVE  Bounded(x)'
    BY <1>0, <2>4, ArmingKeeps
  <2>5. ASSUME NEW q \in Requests, req'[q] = Idle PROVE q \notin Armed(x)'
    BY <2>5 DEF Armed, Arms, Idle, Counts
  <2> QED BY <2>2, <2>3, <2>4, <2>5, OthersStay
<1> QED BY <1>1, <1>2, <1>3

\* A date that is new has no tickets, and nobody has counted them yet.
LEMMA NewDateBounded ==
  ASSUME ~AdminEdits, Typed, NoAdmin, OnDates, [Next]_vars, NEW x \in Dates, ~Open(x), Open(x)'
  PROVE  Bounded(x)'
<1>0. Typed'
  BY TypedNext
<1>1. ASSUME NEW r, NEW d, r = date'[x].room, d = date'[x].day PROVE DatesAt(r, d) = {}
  <2> SUFFICES ASSUME NEW y \in DatesAt(r, d) PROVE FALSE
    OBVIOUS
  <2>1. y \in Dates /\ Open(y) /\ date'[y] = date[y] /\ date[y].room = r /\ date[y].day = d
    BY DatesStand DEF DatesAt
  <2>2. y = x
    BY <1>0, <1>1, <2>1 DEF Typed, OneDate, Open
  <2> QED BY <2>1, <2>2
<1>2. UNCHANGED date => FALSE
  BY DEF Open
<1>3. Armed(x)' = {}
  <2> SUFFICES ASSUME NEW p \in Requests, Arms(req[p], x)' PROVE FALSE
    BY DEF Armed
  <2>1. req'[p].pc \in Counts /\ DatesAt(req'[p].room, req'[p].day) = {}
    BY <1>1 DEF Arms
  <2>2. CASE req'[p] = req[p]
    BY <2>1, <2>2 DEF OnDates
  <2>3. CASE req'[p] = Idle
    BY <2>1, <2>3 DEF Idle, Counts
  <2>4. CASE Asks(p)
    BY <1>2, <2>4, AskOutcome
  <2> QED BY <2>2, <2>3, <2>4, OthersStay
<1>4. Here(x)' = {}
  <2> SUFFICES ASSUME NEW t \in Tickets, ticket'[t].status = "working",
                      ticket'[t].room = date'[x].room, ticket'[t].day = date'[x].day
               PROVE  FALSE
    BY DEF Here
  <2>1. CASE Follows(t)
    <3>1. Live(t) /\ SamePlace(ticket[t], ticket'[t])
      BY <2>1 DEF Follows, Live, Classes
    <3>2. DatesAt(ticket[t].room, ticket[t].day) # {}
      BY <3>1 DEF OnDates
    <3> QED BY <1>1, <3>1, <3>2 DEF SamePlace
  <2>2. ASSUME NEW q \in Requests, Insert(q) \/ Move(q) PROVE FALSE
    BY <1>2, <2>2 DEF Insert, Move
  <2> QED BY <2>1, <2>2, TicketsFollow
<1>5. Settled(x)' = {}
  BY <1>4 DEF Settled
<1>6. date'[x].capacity \in Nat
  BY <1>0, ConstantsAssumption DEF Typed, Open, Unused, Deleted, DateRows, Capacities
<1>7. Cardinality({}) = 0 /\ Cardinality(Requests) \in Nat \ {0}
  BY FS_EmptySet, RequestSets
<1>8. 0 + 0 + 1 <= date'[x].capacity + Cardinality(Requests)
  BY <1>6, <1>7
<1> QED BY <1>3, <1>5, <1>7, <1>8 DEF Bounded

Overbooking ==
  /\ NoAdmin /\ OnDates
  /\ \A x \in Dates : Bounded(x)

LEMMA OverbookingInit == Init => Overbooking
  BY DEF Init, Overbooking, NoAdmin, OnDates, Bounded, Open, Live, Idle, Unused, Classes, Counts, AdminPcs

LEMMA OverbookingNext ==
  ASSUME ~AdminEdits, ~Reverts, Typed, Customers, Overbooking, [Next]_vars
  PROVE  Overbooking'
<1>1. NoAdmin' /\ OnDates'
  BY DatesStand, OnDatesNext DEF Overbooking
<1>2. ASSUME NEW x \in Dates PROVE Bounded(x)'
  <2>1. CASE Open(x)
    BY <2>1, BoundedNext DEF Overbooking
  <2>2. CASE ~Open(x) /\ Open(x)'
    BY <2>2, NewDateBounded DEF Overbooking
  <2>3. CASE ~Open(x)'
    BY <2>3 DEF Bounded
  <2> QED BY <2>1, <2>2, <2>3
<1> QED BY <1>1, <1>2 DEF Overbooking

\* However often customers book and move at the same time, each waiting for the
\* answers, a date has at most as many tickets too many as other requests can be served
\* beside one, as long as staff take nothing back and the dates stay as they are
\* (ticket_service.go: the count, and the write that follows it).
THEOREM OverbookingIsBounded ==
  ASSUME CustomersWait, ~Reverts, ~AdminEdits
  PROVE  Spec => []OverbookingBounded
<1>1. Typed /\ Overbooking => OverbookingBounded
  BY BoundedExcess DEF Overbooking, OverbookingBounded
<1>2. Spec => [](Typed /\ Customers /\ Overbooking)
  BY AlwaysTyped, CustomersInit, CustomersNext, OverbookingInit, OverbookingNext, PTL DEF Spec
<1> QED BY <1>1, <1>2, PTL

\* Rooms with dates, and the rooms dates are about to be opened in, exist.
RoomsStand ==
  /\ \A x \in Dates : Open(x) => Exists(date[x].room)
  /\ \A q \in Requests : req[q].pc = "open" => Exists(req[q].room)

LEMMA RoomsStandNext ==
  ASSUME ~AdminEdits, Typed, NoAdmin, RoomsStand, [Next]_vars
  PROVE  RoomsStand'
<1>1. ASSUME NEW r, Exists(r) PROVE Exists(r)'
  <2>1. ASSUME NEW q \in Requests, RoomWrites(q) PROVE FALSE
    BY <2>1 DEF RoomWrites, Disable, Drop, Enable, FreeForAdmin, NoAdmin, AdminPcs
  <2>2. ASSUME NEW q \in Requests, Insert(q) \/ Move(q) \/ Remove(q) \/ Settles(q)
        PROVE  UNCHANGED room
    BY <2>2 DEF Insert, Move, Remove, Settles, Finish, Revert
  <2>3. ASSUME NEW q \in Requests, OpenDate(q) \/ Edit(q) \/ CloseDate(q) PROVE UNCHANGED room
    BY <2>3 DEF OpenDate, Edit, CloseDate
  <2>4. ASSUME NEW q \in Requests, Asks(q) PROVE UNCHANGED room
    BY <2>4, AskOutcome
  <2>5. ASSUME UNCHANGED vars \/ DayPasses \/ CloseExpired PROVE UNCHANGED room
    BY <2>5 DEF vars, DayPasses, CloseExpired
  <2>6. UNCHANGED room
    BY <2>1, <2>2, <2>3, <2>4, <2>5, NextCases
  <2> QED BY <1>1, <2>6 DEF Exists
<1>2. ASSUME NEW x \in Dates, Open(x)' PROVE Exists(date'[x].room)
  <2>1. CASE Open(x)
    BY <2>1, DatesStand DEF RoomsStand
  <2>2. ASSUME NEW q \in Requests, OpenDate(q), ~Open(x) PROVE Exists(date'[x].room)
    BY <1>2, <2>2, OpenWrites DEF RoomsStand, Open, OpenDate
  <2>3. ASSUME UNCHANGED date PROVE Open(x)
    BY <1>2, <2>3 DEF Open
  <2>4. ASSUME NEW q \in Requests, Edit(q) \/ CloseDate(q) PROVE FALSE
    BY <2>4 DEF Edit, CloseDate, NoAdmin, AdminPcs
  <2>5. ASSUME NEW q \in Requests, Insert(q) \/ Move(q) \/ Remove(q) \/ Settles(q) \/ RoomWrites(q)
        PROVE  UNCHANGED date
    BY <2>5 DEF Insert, Move, Remove, Settles, Finish, Revert, RoomWrites, Disable, Drop, Enable
  <2>6. ASSUME NEW q \in Requests, Asks(q) PROVE UNCHANGED date
    BY <2>6, AskOutcome
  <2>7. ASSUME UNCHANGED vars \/ DayPasses \/ CloseExpired PROVE UNCHANGED date
    <3>1. UNCHANGED date
      BY <2>7 DEF vars, DayPasses, CloseExpired
    <3> QED BY <3>1
  <2> QED BY <2>1, <2>2, <2>3, <2>4, <2>5, <2>6, <2>7, NextCases
<1>3. ASSUME NEW q \in Requests, req'[q].pc = "open" PROVE Exists(req'[q].room)
  <2>1. CASE req'[q] = req[q]
    BY <1>3, <2>1 DEF RoomsStand
  <2>2. CASE req'[q] = Idle
    BY <1>3, <2>2 DEF Idle
  <2>3. CASE Asked(q, req'[q])
    BY <1>3, <2>3 DEF Asked, Idle, AdminPcs
  <2> QED BY <2>1, <2>2, <2>3, OthersStay
<1> QED BY <1>1, <1>2, <1>3 DEF RoomsStand, Exists

\* However many requests are served at a time, while administrators leave the service
\* dates alone and customers wait for their answers every ticket stays on a service date
\* of a room that exists (ticket_service.go: Create and UpdateForUser look both up first,
\* a revert brings a ticket back where it was).
THEOREM TicketsStayWithoutAdmin ==
  ASSUME CustomersWait, ~AdminEdits
  PROVE  Spec => []TicketsOnOpenDates
<1>1. Init => NoAdmin /\ OnDates /\ RoomsStand
  <2>1. Init => NoAdmin /\ OnDates
    BY OverbookingInit DEF Overbooking
  <2>2. Init => RoomsStand
    BY DEF Init, RoomsStand, Open, Unused, Idle
  <2> QED BY <2>1, <2>2
<1>2. Typed /\ Customers /\ NoAdmin /\ OnDates /\ RoomsStand /\ [Next]_vars
        => NoAdmin' /\ OnDates' /\ RoomsStand'
  BY DatesStand, OnDatesNext, RoomsStandNext
<1>3. OnDates /\ RoomsStand => TicketsOnOpenDates
  BY DEF OnDates, RoomsStand, TicketsOnOpenDates, DatesAt
<1> QED BY <1>1, <1>2, <1>3, AlwaysTyped, CustomersInit, CustomersNext, PTL DEF Spec
-----------------------------------------------------------------------------
(***************************************************************************)
(* Requests that are served one at a time: what a request has checked is   *)
(* still so when it writes, midnight and the nightly cleanup included.     *)
(***************************************************************************)
OneAtATime == \A p, q \in Requests : p = q

\* Every service date is in a room that exists.
DatesInRooms == \A x \in Dates : Open(x) => Exists(date[x].room)

\* With the tickets S at (r, d) its date has a place left.
PlaceLeft(S, r, d) == \E x \in DatesAt(r, d) : Cardinality(S) < date[x].capacity

BookingChecked(s) ==
  /\ Exists(s.room) /\ DatesAt(s.room, s.day) # {}
  /\ s.pc = "booking" => Cardinality(WorkingAt(s.room, s.day)) <= s.count
  /\ s.pc = "insert" => PlaceLeft(WorkingAt(s.room, s.day), s.room, s.day)

MoveChecked(s) ==
  /\ Live(s.ticket)
  /\ s.room = Or(s.setRoom, ticket[s.ticket].room) /\ s.day = Or(s.setDay, ticket[s.ticket].day)
  /\ Exists(s.room) /\ DatesAt(s.room, s.day) # {}
  /\ s.pc = "moving" => Cardinality(WorkingAt(s.room, s.day) \ {s.ticket}) <= s.count
  /\ s.pc = "move" => PlaceLeft(WorkingAt(s.room, s.day) \ {s.ticket}, s.room, s.day)

EditChecked(s) ==
  LET r == Or(s.setRoom, date[s.date].room)
      d == Or(s.setDay, date[s.date].day)
  IN /\ s.setRoom # Keep => Exists(s.setRoom)
     /\ MayRelocate(s.date, r, d)
     /\ s.setCapacity # Keep => Cardinality(WorkingAt(r, d)) <= s.setCapacity

Checked(s) ==
  /\ s.pc \in {"booking", "insert"} => BookingChecked(s)
  /\ s.pc \in {"moving", "move"} => MoveChecked(s)
  /\ s.pc = "open" => Exists(s.room)
  /\ s.pc = "edit" => EditChecked(s)
  /\ s.pc = "close" => TicketsAt(date[s.date].room, date[s.date].day) = {}
  /\ s.pc = "disable" => WorkingIn(s.room) = {}
  /\ s.pc = "drop" => RoomUnused(s.room)

SerialInv ==
  /\ TicketsOnOpenDates /\ DatesInRooms
  /\ \A q \in Requests : Checked(req[q])

LEMMA IdleChecked == Checked(Idle) /\ Checked(Idle)'
  BY DEF Checked, Idle

LEMMA WorkingSets ==
  ASSUME NEW r, NEW d
  PROVE  /\ WorkingAt(r, d) \in SUBSET Counted(r, d) /\ Counted(r, d) \in SUBSET Tickets
         /\ Cardinality(WorkingAt(r, d)) \in Nat /\ Cardinality(Counted(r, d)) \in Nat
         /\ Cardinality(WorkingAt(r, d)) <= Cardinality(Counted(r, d))
<1>1. WorkingAt(r, d) \in SUBSET Counted(r, d) /\ Counted(r, d) \in SUBSET Tickets
  BY DEF WorkingAt, Counted, TicketsAt
<1> QED BY <1>1, TicketSets

\* The steps of an administrator's request take what they check along.
LEMMA AdminChecks ==
  ASSUME Typed, NEW q \in Requests, AdminAsks(q)
  PROVE  Checked(req'[q])
<1>1. ASSUME NEW x \in Dates, NEW a \in Rooms \cup {Keep}, NEW b \in Days \cup {Keep},
             NEW c \in Capacities \cup {Keep}, BeginEdit(q, x, a, b, c)
      PROVE  Checked(req'[q])
  <2> PICK r, d : r = Or(a, date[x].room) /\ d = Or(b, date[x].day)
    OBVIOUS
  <2> PICK s : s = [pc |-> "edit", date |-> x, setRoom |-> a, setDay |-> b, setCapacity |-> c]
    OBVIOUS
  <2>1. /\ Become(q, s) /\ (a # Keep => Exists(a)) /\ MayRelocate(x, r, d)
        /\ c # Keep => c >= Cardinality(Counted(r, d))
    BY <1>1 DEF BeginEdit
  <2>2. c # Keep => c \in Nat
    BY ConstantsAssumption DEF Capacities
  <2>3. c # Keep => Cardinality(WorkingAt(r, d)) <= c
    BY <2>1, <2>2, WorkingSets
  <2>4. EditChecked(s)
    BY <2>1, <2>3 DEF EditChecked
  <2>5. req'[q] = s
    BY <2>1, BecomeOnly
  <2> QED BY <2>4, <2>5 DEF Checked
<1>2. ASSUME NEW x \in Dates, BeginClose(q, x) PROVE Checked(req'[q])
  <2> PICK s : s = [pc |-> "close", date |-> x]
    OBVIOUS
  <2>1. Become(q, s) /\ TicketsAt(date[x].room, date[x].day) = {}
    BY <1>2 DEF BeginClose
  <2>2. req'[q] = s
    BY <2>1, BecomeOnly
  <2> QED BY <2>1, <2>2 DEF Checked
<1>3. ASSUME NEW r \in Rooms, BeginDisable(q, r) PROVE Checked(req'[q])
  <2> PICK s : s = [pc |-> "disable", room |-> r]
    OBVIOUS
  <2>1. Become(q, s) /\ WorkingIn(r) = {}
    BY <1>3 DEF BeginDisable
  <2>2. req'[q] = s
    BY <2>1, BecomeOnly
  <2> QED BY <2>1, <2>2 DEF Checked
<1>4. ASSUME NEW r \in Rooms, BeginDrop(q, r) PROVE Checked(req'[q])
  <2> PICK s : s = [pc |-> "drop", room |-> r]
    OBVIOUS
  <2>1. Become(q, s) /\ RoomUnused(r)
    BY <1>4 DEF BeginDrop
  <2>2. req'[q] = s
    BY <2>1, BecomeOnly
  <2> QED BY <2>1, <2>2 DEF Checked
<1> QED BY <1>1, <1>2, <1>3, <1>4 DEF AdminAsks

\* A request's own steps check what it will rely on.
LEMMA AskChecks ==
  ASSUME Typed, SerialInv, NEW q \in Requests, Asks(q)
  PROVE  Checked(req'[q])
<1> PICK s : s = req'[q]
  OBVIOUS
<1>0. UNCHANGED <<ticket, date, room, today>> /\ Asked(q, s)
  BY AskOutcome
<1>1. CASE s.pc = "booking"
  <2>1. /\ Exists(s.room) /\ DatesAt(s.room, s.day) # {}
        /\ s.count = Cardinality(Counted(s.room, s.day))
    BY <1>0, <1>1 DEF Asked, Idle, AdminPcs
  <2> QED BY <1>1, <2>1, WorkingSets DEF Checked, BookingChecked
<1>2. CASE s.pc = "insert"
  <2>1. /\ req[q].pc = "booking" /\ SamePlace(req[q], s) /\ s.count = req[q].count
        /\ HasPlace(s.count, s.room, s.day)
    BY <1>0, <1>2 DEF Asked, Idle, AdminPcs
  <2>2. BookingChecked(req[q]) /\ req[q] \in BookingStates
    BY <2>1, StateOfPc DEF SerialInv, Checked, Typed
  <2>3. /\ Exists(s.room) /\ DatesAt(s.room, s.day) # {}
        /\ Cardinality(WorkingAt(s.room, s.day)) <= s.count /\ s.count \in Nat
    BY <2>1, <2>2 DEF BookingChecked, SamePlace, BookingStates
  <2>4. PICK x \in DatesAt(s.room, s.day) : s.count < date[x].capacity
    BY <2>1 DEF HasPlace
  <2>5. date[x].capacity \in Nat
    BY <2>4, ConstantsAssumption, RowsOfTables DEF DatesAt, DateRows, Capacities
  <2>6. PlaceLeft(WorkingAt(s.room, s.day), s.room, s.day)
    BY <2>3, <2>4, <2>5, WorkingSets DEF PlaceLeft
  <2> QED BY <1>2, <2>3, <2>6 DEF Checked, BookingChecked
<1>3. CASE s.pc = "moving"
  <2>1. /\ Live(s.ticket) /\ s.room = Or(s.setRoom, ticket[s.ticket].room)
        /\ s.day = Or(s.setDay, ticket[s.ticket].day) /\ (s.setRoom # Keep => Exists(s.setRoom))
        /\ DatesAt(s.room, s.day) # {}
        /\ s.count = Cardinality(Counted(s.room, s.day) \ {s.ticket})
    BY <1>0, <1>3 DEF Asked, Idle, AdminPcs
  <2>2. Exists(s.room)
    <3>1. PICK x \in Dates : Open(x) /\ date[x].room = s.room
      BY <2>1 DEF DatesAt
    <3> QED BY <3>1 DEF SerialInv, DatesInRooms
  <2>3. Cardinality(WorkingAt(s.room, s.day) \ {s.ticket}) <= s.count
    BY <2>1, WorkingSets, TicketSets
  <2> QED BY <1>3, <2>1, <2>2, <2>3 DEF Checked, MoveChecked
<1>4. CASE s.pc = "move"
  <2>1. /\ req[q].pc = "moving" /\ SamePlace(req[q], s) /\ s.count = req[q].count
        /\ s.ticket = req[q].ticket /\ s.setRoom = req[q].setRoom /\ s.setDay = req[q].setDay
        /\ HasPlace(s.count, s.room, s.day)
    BY <1>0, <1>4 DEF Asked, Idle, AdminPcs
  <2>2. MoveChecked(req[q]) /\ req[q] \in MovingStates
    BY <2>1, StateOfPc DEF SerialInv, Checked, Typed
  <2> PICK n : n = Cardinality(WorkingAt(s.room, s.day) \ {s.ticket})
    OBVIOUS
  <2>3. /\ Live(s.ticket) /\ s.room = Or(s.setRoom, ticket[s.ticket].room)
        /\ s.day = Or(s.setDay, ticket[s.ticket].day)
        /\ Exists(s.room) /\ DatesAt(s.room, s.day) # {} /\ n <= s.count /\ s.count \in Nat
    BY <2>1, <2>2 DEF MoveChecked, SamePlace, MovingStates
  <2>4. PICK x \in DatesAt(s.room, s.day) : s.count < date[x].capacity
    BY <2>1 DEF HasPlace
  <2>5. date[x].capacity \in Nat
    BY <2>4, ConstantsAssumption, RowsOfTables DEF DatesAt, DateRows, Capacities
  <2>6. n \in Nat
    BY WorkingSets, TicketSets
  <2>7. n < date[x].capacity
    BY <2>3, <2>4, <2>5, <2>6
  <2>8. PlaceLeft(WorkingAt(s.room, s.day) \ {s.ticket}, s.room, s.day)
    BY <2>4, <2>7 DEF PlaceLeft
  <2> QED BY <1>4, <2>3, <2>8 DEF Checked, MoveChecked
<1>5. CASE s.pc = "open"
  BY <1>0, <1>5 DEF Asked, Idle, AdminPcs, Checked
<1>6. CASE s = Idle \/ s.pc = "remove"
  BY <1>6, IdleChecked DEF Checked
<1>7. CASE AdminAsks(q)
  BY <1>7, AdminChecks
<1> QED BY <1>0, <1>1, <1>2, <1>3, <1>4, <1>5, <1>6, <1>7 DEF Asked
\* Ending tickets leaves them where they are and only makes less work.
LEMMA EndedSets ==
  ASSUME Typed, Ended
  PROVE  /\ \A t \in Tickets : Live(t)' <=> Live(t)
         /\ \A t \in Tickets : Live(t) => SamePlace(ticket[t], ticket'[t])
         /\ \A r, d : TicketsAt(r, d)' = TicketsAt(r, d)
         /\ \A r, d : WorkingAt(r, d)' \in SUBSET WorkingAt(r, d)
         /\ \A r : WorkingIn(r)' \in SUBSET WorkingIn(r)
<1>1. \A t \in Tickets : Live(t)' <=> Live(t)
  BY DEF Ended, Live, TicketRows
<1>2. \A t \in Tickets : Live(t) => SamePlace(ticket[t], ticket'[t])
  BY DEF Ended, SamePlace
<1>3. \A t \in Tickets : ticket'[t].status = "working" => Live(t) /\ ticket[t].status = "working"
  BY DEF Ended, Live, Classes
<1>4. ASSUME NEW r, NEW d PROVE TicketsAt(r, d)' = TicketsAt(r, d)
  <2>1. \A t \in Tickets : t \in TicketsAt(r, d)' <=> t \in TicketsAt(r, d)
    BY <1>1, <1>2 DEF TicketsAt, SamePlace
  <2> QED BY <2>1 DEF TicketsAt
<1>5. ASSUME NEW r, NEW d PROVE WorkingAt(r, d)' \in SUBSET WorkingAt(r, d)
  <2>1. \A t \in Tickets : t \in WorkingAt(r, d)' => t \in WorkingAt(r, d)
    BY <1>3, <1>4 DEF WorkingAt
  <2>2. \A t \in WorkingAt(r, d)' : t \in Tickets
    BY <1>4 DEF WorkingAt, TicketsAt
  <2> QED BY <2>1, <2>2
<1>6. ASSUME NEW r PROVE WorkingIn(r)' \in SUBSET WorkingIn(r)
  BY <1>2, <1>3 DEF WorkingIn, SamePlace
<1> QED BY <1>1, <1>2, <1>4, <1>5, <1>6

LEMMA CheckedKept ==
  ASSUME Typed, Ended, UNCHANGED <<date, room>>, NEW s \in RequestStates, Checked(s)
  PROVE  Checked(s)'
<1>0. \A r, d : DatesAt(r, d)' = DatesAt(r, d)
  BY DEF DatesAt, Open
<1>1. \A r : Exists(r)' <=> Exists(r)
  BY DEF Exists
<1>2. ASSUME NEW r, NEW d, NEW X
      PROVE  /\ Cardinality(WorkingAt(r, d)' \ X) <= Cardinality(WorkingAt(r, d) \ X)
             /\ Cardinality(WorkingAt(r, d)' \ X) \in Nat /\ Cardinality(WorkingAt(r, d) \ X) \in Nat
  <2> PICK S, T : S = WorkingAt(r, d) /\ T = WorkingAt(r, d)'
    OBVIOUS
  <2>1. T \in SUBSET S /\ S \in SUBSET Tickets
    BY EndedSets, WorkingSets
  <2>2. T \ X \in SUBSET (S \ X) /\ S \ X \in SUBSET Tickets
    BY <2>1
  <2> QED BY <2>2, TicketSets
<1>3. ASSUME NEW r, NEW d
      PROVE  /\ Cardinality(WorkingAt(r, d)') <= Cardinality(WorkingAt(r, d))
             /\ Cardinality(WorkingAt(r, d)') \in Nat /\ Cardinality(WorkingAt(r, d)) \in Nat
  <2>1. WorkingAt(r, d)' \ {} = WorkingAt(r, d)' /\ WorkingAt(r, d) \ {} = WorkingAt(r, d)
    OBVIOUS
  <2> QED BY <1>2, <2>1
<1>4. ASSUME NEW S, NEW T, Cardinality(T) <= Cardinality(S), Cardinality(S) \in Nat, Cardinality(T) \in Nat,
             NEW r, NEW d, PlaceLeft(S, r, d)
      PROVE  PlaceLeft(T, r, d)'
  <2>1. PICK x \in DatesAt(r, d) : Cardinality(S) < date[x].capacity
    BY <1>4 DEF PlaceLeft
  <2>2. date[x].capacity \in Nat
    BY <2>1, ConstantsAssumption, RowsOfTables DEF DatesAt, DateRows, Capacities
  <2>3. x \in DatesAt(r, d)' /\ Cardinality(T) < date'[x].capacity
    BY <1>0, <1>4, <2>1, <2>2
  <2> QED BY <2>3 DEF PlaceLeft
<1>5. CASE s.pc \in {"booking", "insert"}
  <2>1. BookingChecked(s) /\ s.count \in Nat
    BY <1>5, StateOfPc DEF Checked, BookingStates
  <2>2. Exists(s.room)' /\ DatesAt(s.room, s.day)' # {}
    BY <1>0, <1>1, <2>1 DEF BookingChecked
  <2>3. s.pc = "booking" => Cardinality(WorkingAt(s.room, s.day)') <= s.count
    BY <1>3, <2>1 DEF BookingChecked
  <2>4. s.pc = "insert" => PlaceLeft(WorkingAt(s.room, s.day), s.room, s.day)'
    <3> PICK S, T : S = WorkingAt(s.room, s.day) /\ T = WorkingAt(s.room, s.day)'
      OBVIOUS
    <3>1. s.pc = "insert" => PlaceLeft(T, s.room, s.day)'
      BY <1>3, <1>4, <2>1 DEF BookingChecked
    <3> QED BY <3>1 DEF PlaceLeft
  <2> QED BY <1>5, <2>2, <2>3, <2>4 DEF Checked, BookingChecked
<1>6. CASE s.pc \in {"moving", "move"}
  <2> PICK t, X : t = s.ticket /\ X = {s.ticket}
    OBVIOUS
  <2>1. MoveChecked(s) /\ s.count \in Nat /\ t \in Tickets
    BY <1>6, StateOfPc DEF Checked, MovingStates
  <2>2. /\ Live(t)' /\ SamePlace(ticket[t], ticket'[t])
        /\ Exists(s.room)' /\ DatesAt(s.room, s.day)' # {}
    BY <1>0, <1>1, <2>1, EndedSets DEF MoveChecked
  <2>3. s.room = Or(s.setRoom, ticket'[t].room) /\ s.day = Or(s.setDay, ticket'[t].day)
    BY <2>1, <2>2 DEF MoveChecked, SamePlace
  <2>4. s.pc = "moving" => Cardinality(WorkingAt(s.room, s.day)' \ {s.ticket}) <= s.count
    BY <1>2, <2>1 DEF MoveChecked
  <2>5. s.pc = "move" => PlaceLeft(WorkingAt(s.room, s.day) \ {s.ticket}, s.room, s.day)'
    <3> PICK S, T : S = WorkingAt(s.room, s.day) \ X /\ T = WorkingAt(s.room, s.day)' \ X
      OBVIOUS
    <3>1. s.pc = "move" => PlaceLeft(T, s.room, s.day)'
      BY <1>2, <1>4, <2>1 DEF MoveChecked
    <3> QED BY <3>1 DEF PlaceLeft
  <2>6. MoveChecked(s)'
    BY <2>2, <2>3, <2>4, <2>5 DEF MoveChecked
  <2> QED BY <1>6, <2>6 DEF Checked
<1>7. CASE s.pc = "edit"
  <2>1. EditChecked(s) /\ s \in EditingStates
    BY <1>7, StateOfPc DEF Checked
  <2> PICK x, r, d : x = s.date /\ r = Or(s.setRoom, date[x].room) /\ d = Or(s.setDay, date[x].day)
    OBVIOUS
  <2>2. /\ s.setRoom # Keep => Exists(s.setRoom)'
        /\ MayRelocate(x, r, d)'
    BY <1>1, <2>1, EndedSets DEF EditChecked, MayRelocate
  <2>3. s.setCapacity # Keep => s.setCapacity \in Nat
    BY <2>1, ConstantsAssumption DEF EditingStates, Capacities
  <2>4. s.setCapacity # Keep => Cardinality(WorkingAt(r, d)') <= s.setCapacity
    BY <1>3, <2>1, <2>3 DEF EditChecked
  <2>5. r = Or(s.setRoom, date'[x].room) /\ d = Or(s.setDay, date'[x].day)
    OBVIOUS
  <2>6. EditChecked(s)'
    BY <2>2, <2>4, <2>5 DEF EditChecked, MayRelocate
  <2> QED BY <1>7, <2>6 DEF Checked
<1>8. CASE s.pc = "close"
  <2> PICK r, d : r = date[s.date].room /\ d = date[s.date].day
    OBVIOUS
  <2>1. TicketsAt(r, d)' = {} /\ date'[s.date].room = r /\ date'[s.date].day = d
    BY <1>8, EndedSets DEF Checked
  <2>2. TicketsAt(date[s.date].room, date[s.date].day)' = {}
    BY <2>1 DEF TicketsAt
  <2> QED BY <1>8, <2>2 DEF Checked
<1>9. CASE s.pc = "disable"
  <2>1. WorkingIn(s.room)' = {}
    BY <1>9, EndedSets DEF Checked
  <2> QED BY <1>9, <2>1 DEF Checked
<1>10. CASE s.pc = "drop"
  <2>1. RoomUnused(s.room)
    BY <1>10 DEF Checked
  <2>2. RoomUnused(s.room)'
    <3>1. WorkingIn(s.room)' = {}
      BY <2>1, EndedSets DEF RoomUnused
    <3>2. \A t \in Tickets : Live(t)' => ticket'[t].room # s.room
      BY <2>1, EndedSets DEF RoomUnused, SamePlace
    <3> QED BY <2>1, <3>1, <3>2 DEF RoomUnused, Open
  <2> QED BY <1>10, <2>2 DEF Checked
<1>11. CASE s.pc = "open"
  BY <1>1, <1>11 DEF Checked
<1> QED BY <1>5, <1>6, <1>7, <1>8, <1>9, <1>10, <1>11 DEF Checked
-----------------------------------------------------------------------------
\* A ticket that is written stands where the tables have a date in a room.
LEMMA TicketsStand ==
  ASSUME SerialInv, UNCHANGED <<date, room>>,
         \A t \in Tickets : Live(t)' =>
           \/ Live(t) /\ SamePlace(ticket[t], ticket'[t])
           \/ Exists(ticket'[t].room) /\ DatesAt(ticket'[t].room, ticket'[t].day) # {}
  PROVE  TicketsOnOpenDates' /\ DatesInRooms'
<1>1. ASSUME NEW t \in Tickets, Live(t)'
      PROVE  Exists(ticket'[t].room) /\ DatesAt(ticket'[t].room, ticket'[t].day) # {}
  BY <1>1 DEF SerialInv, TicketsOnOpenDates, SamePlace
<1>2. TicketsOnOpenDates'
  BY <1>1 DEF TicketsOnOpenDates, Exists, DatesAt, Open
<1>3. DatesInRooms'
  BY DEF SerialInv, DatesInRooms, Exists, Open
<1> QED BY <1>2, <1>3

\* A date that is written is in a room, and it leaves no ticket behind.
LEMMA DatesWritten ==
  ASSUME SerialInv, UNCHANGED <<ticket, room>>, NEW x \in Dates,
         \A y \in Dates : y # x => date'[y] = date[y],
         Open(x)' => Exists(date'[x].room),
         Open(x) => \/ TicketsAt(date[x].room, date[x].day) = {}
                    \/ Open(x)' /\ date'[x].room = date[x].room /\ date'[x].day = date[x].day
  PROVE  TicketsOnOpenDates' /\ DatesInRooms'
<1>1. DatesInRooms'
  BY DEF SerialInv, DatesInRooms, Exists, Open
<1>2. ASSUME NEW t \in Tickets, Live(t), NEW r, NEW d, r = ticket[t].room, d = ticket[t].day
      PROVE  Exists(r) /\ DatesAt(r, d)' # {}
  <2>1. Exists(r) /\ DatesAt(r, d) # {}
    BY <1>2 DEF SerialInv, TicketsOnOpenDates
  <2>2. PICK y \in Dates : Open(y) /\ date[y].room = r /\ date[y].day = d
    BY <2>1 DEF DatesAt
  <2>3. TicketsAt(r, d) # {}
    BY <1>2 DEF TicketsAt
  <2>4. y \in DatesAt(r, d)'
    <3>1. CASE y # x
      BY <2>2, <3>1 DEF DatesAt, Open
    <3>2. CASE y = x
      BY <2>2, <2>3, <3>2 DEF DatesAt
    <3> QED BY <3>1, <3>2
  <2> QED BY <2>1, <2>4
<1>3. TicketsOnOpenDates'
  BY <1>2 DEF TicketsOnOpenDates, Live, Exists
<1> QED BY <1>1, <1>3

\* A room that goes is not used.
LEMMA RoomsWritten ==
  ASSUME SerialInv, UNCHANGED <<ticket, date>>,
         \A r \in Rooms : Exists(r) => Exists(r)' \/ RoomUnused(r),
         Typed
  PROVE  TicketsOnOpenDates' /\ DatesInRooms'
<1>1. \A t \in Tickets : Live(t) => ticket[t].room \in Rooms
  BY RowsOfTables DEF TicketRows
<1>2. \A x \in Dates : Open(x) => date[x].room \in Rooms
  BY RowsOfTables DEF DateRows
<1>3. ASSUME NEW t \in Tickets, Live(t)
      PROVE  Exists(ticket[t].room)' /\ DatesAt(ticket[t].room, ticket[t].day) # {}
  BY <1>1, <1>3 DEF SerialInv, TicketsOnOpenDates, RoomUnused, Exists
<1>4. ASSUME NEW x \in Dates, Open(x) PROVE Exists(date[x].room)'
  BY <1>2, <1>4 DEF SerialInv, DatesInRooms, RoomUnused, Exists
<1>5. TicketsOnOpenDates'
  BY <1>3 DEF TicketsOnOpenDates, Live, DatesAt, Open
<1>6. DatesInRooms'
  BY <1>4 DEF DatesInRooms, Open
<1> QED BY <1>5, <1>6

\* When the only request has ended there is nothing left to rely on.
LEMMA NothingChecked ==
  ASSUME OneAtATime, NEW q \in Requests, req'[q] = Idle
  PROVE  \A p \in Requests : Checked(req[p])'
<1> SUFFICES ASSUME NEW p \in Requests PROVE Checked(req[p])'
  OBVIOUS
<1>1. req'[p] = Idle
  BY DEF OneAtATime
<1> QED BY <1>1, IdleChecked DEF Checked
\* A write finds the tables as its request has checked them.
LEMMA WriteChecked ==
  ASSUME Typed, SerialInv, NEW q \in Requests
  PROVE  /\ Insert(q) => req[q].pc = "insert" /\ BookingChecked(req[q])
         /\ Move(q) => req[q].pc = "move" /\ MoveChecked(req[q])
         /\ OpenDate(q) => Exists(req[q].room)
         /\ Edit(q) => EditChecked(req[q])
         /\ CloseDate(q) => TicketsAt(date[req[q].date].room, date[req[q].date].day) = {}
         /\ Disable(q) => WorkingIn(req[q].room) = {}
         /\ Drop(q) => RoomUnused(req[q].room)
<1>1. Checked(req[q])
  BY DEF SerialInv
<1>2. Insert(q) => req[q].pc = "insert"
  BY DEF Insert
<1>3. Move(q) => req[q].pc = "move"
  BY DEF Move
<1>4. OpenDate(q) => req[q].pc = "open"
  BY DEF OpenDate
<1>5. Edit(q) => req[q].pc = "edit"
  BY DEF Edit
<1>6. CloseDate(q) => req[q].pc = "close"
  BY DEF CloseDate
<1>7. Disable(q) => req[q].pc = "disable"
  BY DEF Disable
<1>8. Drop(q) => req[q].pc = "drop"
  BY DEF Drop
<1> QED BY <1>1, <1>2, <1>3, <1>4, <1>5, <1>6, <1>7, <1>8 DEF Checked

\* A date is edited in place, or it had no tickets and goes where there are none.
LEMMA EditChanges ==
  ASSUME Typed, SerialInv, NEW q \in Requests, Edit(q)
  PROVE  \E x \in Dates :
           /\ Open(x) /\ Open(x)' /\ Unique(x, date'[x].room, date'[x].day)
           /\ \A y \in Dates : y # x => date'[y] = date[y]
           /\ Exists(date'[x].room) /\ date'[x].capacity \in Nat
           /\ \/ /\ date'[x].room = date[x].room /\ date'[x].day = date[x].day
                 /\ \/ date'[x].capacity = date[x].capacity
                    \/ Cardinality(WorkingAt(date'[x].room, date'[x].day)) <= date'[x].capacity
              \/ /\ TicketsAt(date[x].room, date[x].day) = {}
                 /\ TicketsAt(date'[x].room, date'[x].day) = {}
<1> PICK x, r, d, c : /\ x = req[q].date /\ r = Or(req[q].setRoom, date[x].room) /\ d = Or(req[q].setDay, date[x].day)
                      /\ c = Or(req[q].setCapacity, date[x].capacity)
  OBVIOUS
<1>1. /\ req[q] \in EditingStates /\ Open(x) /\ Unique(x, r, d)
      /\ date'[x] \in DateRows /\ date'[x].status = "open"
      /\ date'[x].room = r /\ date'[x].day = d /\ date'[x].capacity = c
      /\ \A y \in Dates : y # x => date'[y] = date[y]
  BY EditWrites
<1>2. EditChecked(req[q])
  BY WriteChecked
<1>3. /\ req[q].setRoom # Keep => Exists(req[q].setRoom)
      /\ MayRelocate(x, r, d)
      /\ req[q].setCapacity # Keep => Cardinality(WorkingAt(r, d)) <= req[q].setCapacity
  BY <1>2 DEF EditChecked
<1>4. x \in Dates /\ Open(x)'
  BY <1>1 DEF EditingStates, Open
<1>5. Exists(r)
  BY <1>1, <1>3, <1>4 DEF SerialInv, DatesInRooms, Or
<1>6. c \in Nat
  BY <1>1, ConstantsAssumption DEF DateRows, Capacities
<1>7. c = date[x].capacity \/ Cardinality(WorkingAt(r, d)) <= c
  BY <1>3 DEF Or
<1>8. \/ r = date[x].room /\ d = date[x].day
      \/ TicketsAt(date[x].room, date[x].day) = {} /\ TicketsAt(r, d) = {}
  BY <1>3 DEF MayRelocate
<1> QED BY <1>1, <1>4, <1>5, <1>6, <1>7, <1>8

LEMMA SerialNext ==
  ASSUME OneAtATime, Typed, SerialInv, [Next]_vars
  PROVE  SerialInv'
<1>1. ASSUME Ended, UNCHANGED <<date, room, req>> PROVE SerialInv'
  <2>1. \A t \in Tickets : Live(t)' => Live(t) /\ SamePlace(ticket[t], ticket'[t])
    BY <1>1, EndedSets
  <2>2. TicketsOnOpenDates' /\ DatesInRooms'
    BY <1>1, <2>1, TicketsStand
  <2>3. ASSUME NEW p \in Requests PROVE Checked(req[p])'
    <3> PICK s : s = req[p]
      OBVIOUS
    <3>1. s \in RequestStates /\ Checked(s)
      BY DEF Typed, SerialInv
    <3>2. Checked(s)'
      BY <1>1, <3>1, CheckedKept
    <3> QED BY <1>1, <3>2 DEF Checked
  <2> QED BY <2>2, <2>3 DEF SerialInv
<1>2. ASSUME UNCHANGED <<ticket, date, room, req>> PROVE SerialInv'
  <2>1. Ended
    BY <1>2 DEF Ended
  <2> QED BY <1>1, <1>2, <2>1
<1>3. CASE UNCHANGED vars \/ DayPasses
  BY <1>2, <1>3 DEF vars, DayPasses
<1>4. CASE CloseExpired
  <2>1. UNCHANGED <<date, room, req>>
    BY <1>4 DEF CloseExpired
  <2> QED BY <1>1, <1>4, <2>1, CloseExpiredEnds
<1>5. ASSUME NEW q \in Requests, Asks(q) PROVE SerialInv'
  <2>1. UNCHANGED <<ticket, date, room>> /\ Ended
    BY <1>5, AskOutcome DEF Ended
  <2>2. \A t \in Tickets : Live(t)' => Live(t) /\ SamePlace(ticket[t], ticket'[t])
    BY <2>1, EndedSets
  <2>3. TicketsOnOpenDates' /\ DatesInRooms'
    BY <2>1, <2>2, TicketsStand
  <2>4. ASSUME NEW p \in Requests PROVE Checked(req[p])'
    <3> PICK s : s = req'[p]
      OBVIOUS
    <3>1. Typed' /\ p = q
      BY <1>5, AsksTyped DEF OneAtATime
    <3>2. s \in RequestStates /\ Checked(s)
      BY <1>5, <3>1, AskChecks DEF Typed
    <3>3. Checked(s)'
      BY <2>1, <3>2, CheckedKept
    <3> QED BY <3>3 DEF Checked
  <2> QED BY <2>3, <2>4 DEF SerialInv
<1>6. ASSUME NEW q \in Requests, req'[q] = Idle, TicketsOnOpenDates', DatesInRooms' PROVE SerialInv'
  BY <1>6, NothingChecked DEF SerialInv
<1>7. ASSUME NEW q \in Requests, Insert(q) PROVE SerialInv'
  <2>1. Exists(req[q].room) /\ DatesAt(req[q].room, req[q].day) # {}
    BY <1>7, WriteChecked DEF BookingChecked
  <2>2. \A t \in Tickets : Live(t)' =>
          \/ Live(t) /\ SamePlace(ticket[t], ticket'[t])
          \/ Exists(ticket'[t].room) /\ DatesAt(ticket'[t].room, ticket'[t].day) # {}
    BY <1>7, <2>1, InsertWrites DEF Live, SamePlace
  <2>3. UNCHANGED <<date, room>> /\ req'[q] = Idle
    BY <1>7, IdleTyped DEF Insert
  <2> QED BY <1>6, <2>2, <2>3, TicketsStand
<1>8. ASSUME NEW q \in Requests, Move(q) PROVE SerialInv'
  <2> PICK t : t = req[q].ticket
    OBVIOUS
  <2>1. MoveChecked(req[q])
    BY <1>8, WriteChecked
  <2>2. /\ Live(t) /\ Exists(req[q].room) /\ DatesAt(req[q].room, req[q].day) # {}
        /\ req[q].room = Or(req[q].setRoom, ticket[t].room) /\ req[q].day = Or(req[q].setDay, ticket[t].day)
    BY <2>1 DEF MoveChecked
  <2>3. /\ ticket'[t].room = req[q].room /\ ticket'[t].day = req[q].day
        /\ \A o \in Tickets : o # t => ticket'[o] = ticket[o]
    BY <1>8, <2>2, MoveWrites
  <2>4. \A o \in Tickets : Live(o)' =>
          \/ Live(o) /\ SamePlace(ticket[o], ticket'[o])
          \/ Exists(ticket'[o].room) /\ DatesAt(ticket'[o].room, ticket'[o].day) # {}
    BY <2>2, <2>3 DEF Live, SamePlace
  <2>5. UNCHANGED <<date, room>> /\ req'[q] = Idle
    BY <1>8, IdleTyped DEF Move
  <2> QED BY <1>6, <2>4, <2>5, TicketsStand
<1>9. ASSUME NEW q \in Requests, Remove(q) PROVE SerialInv'
  <2>1. Deleted.status \notin Classes
    BY DEF Deleted, Classes
  <2>2. \A o \in Tickets : Live(o)' => Live(o) /\ SamePlace(ticket[o], ticket'[o])
    BY <1>9, <2>1, RemoveWrites DEF Live, SamePlace
  <2>3. UNCHANGED <<date, room>> /\ req'[q] = Idle
    BY <1>9, IdleTyped DEF Remove
  <2> QED BY <1>6, <2>2, <2>3, TicketsStand
<1>10. ASSUME NEW q \in Requests, OpenDate(q) PROVE SerialInv'
  <2>1. PICK x \in Dates : /\ ~Open(x) /\ date'[x].room = req[q].room
                           /\ \A y \in Dates \ {x} : date'[y] = date[y]
    BY <1>10, OpenWrites
  <2>2. Exists(req[q].room)
    BY <1>10, WriteChecked
  <2>3. UNCHANGED <<ticket, room>> /\ req'[q] = Idle
    BY <1>10, IdleTyped DEF OpenDate
  <2> QED BY <1>6, <2>1, <2>2, <2>3, DatesWritten
<1>11. ASSUME NEW q \in Requests, Edit(q) PROVE SerialInv'
  <2>1. PICK x \in Dates :
          /\ \A y \in Dates : y # x => date'[y] = date[y]
          /\ Open(x)' /\ Exists(date'[x].room)
          /\ \/ TicketsAt(date[x].room, date[x].day) = {}
             \/ date'[x].room = date[x].room /\ date'[x].day = date[x].day
    BY <1>11, EditChanges
  <2>2. UNCHANGED <<ticket, room>> /\ req'[q] = Idle
    BY <1>11, IdleTyped DEF Edit
  <2> QED BY <1>6, <2>1, <2>2, DatesWritten
<1>12. ASSUME NEW q \in Requests, CloseDate(q) PROVE SerialInv'
  <2> PICK x : x = req[q].date
    OBVIOUS
  <2>1. /\ req[q] \in ClosingStates /\ date'[x] = Deleted
        /\ \A y \in Dates : y # x => date'[y] = date[y]
    BY <1>12, CloseWrites
  <2>2. x \in Dates /\ ~Open(x)'
    BY <2>1 DEF ClosingStates, Open, Deleted
  <2>3. TicketsAt(date[x].room, date[x].day) = {}
    BY <1>12, WriteChecked
  <2>4. UNCHANGED <<ticket, room>> /\ req'[q] = Idle
    BY <1>12, IdleTyped DEF CloseDate
  <2> QED BY <1>6, <2>1, <2>2, <2>3, <2>4, DatesWritten
<1>13. ASSUME NEW q \in Requests, RoomWrites(q) PROVE SerialInv'
  <2>1. \A r \in Rooms : Exists(r) => Exists(r)' \/ RoomUnused(r)
    BY <1>13, WriteChecked DEF RoomWrites, Disable, Drop, Enable, Exists, Typed
  <2>2. UNCHANGED <<ticket, date>> /\ req'[q] = Idle
    <3>1. CASE Disable(q) \/ Drop(q)
      BY <3>1, IdleTyped DEF Disable, Drop
    <3>2. CASE \E r \in Rooms : Enable(q, r)
      BY <3>2 DEF Enable, FreeForAdmin
    <3> QED BY <1>13, <3>1, <3>2 DEF RoomWrites
  <2> QED BY <1>6, <2>1, <2>2, RoomsWritten
<1>14. ASSUME NEW q \in Requests, Settles(q) PROVE SerialInv'
  <2>1. UNCHANGED <<date, room>> /\ req'[q] = Idle
    BY <1>14 DEF Settles, Finish, Revert
  <2>2. \A t \in Tickets : Live(t)' => Live(t) /\ SamePlace(ticket[t], ticket'[t])
    <3>1. CASE \E t \in Tickets, s \in {"completed", "closed"} : Finish(q, t, s)
      BY <3>1, FinishEnds, EndedSets
    <3>2. CASE \E t \in Tickets : Revert(q, t)
      BY <3>2, RevertWrites DEF Live, SamePlace
    <3> QED BY <1>14, <3>1, <3>2 DEF Settles
  <2> QED BY <1>6, <2>1, <2>2, TicketsStand
<1> QED BY <1>3, <1>4, <1>5, <1>7, <1>8, <1>9, <1>10, <1>11, <1>12, <1>13, <1>14, NextCases

LEMMA SerialInit == Init => SerialInv
  BY IdleChecked DEF Init, SerialInv, TicketsOnOpenDates, DatesInRooms, Live, Open, Unused, Classes

LEMMA AlwaysSerial ==
  ASSUME OneAtATime
  PROVE  Spec => [](Typed /\ SerialInv)
<1>1. Typed /\ SerialInv /\ [Next]_vars => SerialInv'
  BY SerialNext
<1> QED BY <1>1, SerialInit, TypedInit, TypedNext, PTL DEF Spec

\* Served one at a time, no request takes the date or the room from under a ticket
\* (service_date_service.go, room_service.go: the counts before an update or removal).
THEOREM TicketsStayOnDates ==
  ASSUME OneAtATime
  PROVE  Spec => []TicketsOnOpenDates
<1>1. SerialInv => TicketsOnOpenDates
  BY DEF SerialInv
<1> QED BY <1>1, AlwaysSerial, PTL
\* Served one at a time, a room is disabled without unfinished tickets and deleted
\* without service dates (room_service.go: the counts before an update or removal).
THEOREM RoomsRetireIdle ==
  ASSUME OneAtATime
  PROVE  Spec => RoomsRetiredIdle
<1> DEFINE Idly ==
      \A r \in Rooms :
        /\ room[r] = "enabled" /\ room'[r] = "disabled" => WorkingIn(r)' = {}
        /\ room[r] # "deleted" /\ room'[r] = "deleted" => \A d \in Days : DatesAt(r, d)' = {}
<1>1. ASSUME Typed, SerialInv, [Next]_vars PROVE Idly
  <2>1. ASSUME UNCHANGED room PROVE Idly
    BY <2>1
  <2>2. ASSUME NEW q \in Requests, Disable(q) PROVE Idly
    <3>1. WorkingIn(req[q].room) = {} /\ UNCHANGED ticket
      BY <1>1, <2>2, WriteChecked DEF Disable
    <3>2. \A r \in Rooms : room'[r] = room[r] \/ (r = req[q].room /\ room'[r] = "disabled")
      BY <1>1, <2>2 DEF Disable, Typed
    <3>3. ASSUME NEW r \in Rooms, r = req[q].room PROVE WorkingIn(r)' = {}
      BY <3>1, <3>3 DEF WorkingIn
    <3> QED BY <3>2, <3>3
  <2>3. ASSUME NEW q \in Requests, Drop(q) PROVE Idly
    <3>1. RoomUnused(req[q].room) /\ UNCHANGED date
      BY <1>1, <2>3, WriteChecked DEF Drop
    <3>2. \A r \in Rooms : room'[r] = room[r] \/ (r = req[q].room /\ room'[r] = "deleted")
      BY <1>1, <2>3 DEF Drop, Typed
    <3>3. ASSUME NEW r \in Rooms, r = req[q].room PROVE \A d \in Days : DatesAt(r, d)' = {}
      BY <3>1, <3>3 DEF RoomUnused, DatesAt, Open
    <3> QED BY <3>2, <3>3
  <2>4. ASSUME NEW q \in Requests, NEW o \in Rooms, Enable(q, o) PROVE Idly
    <3>1. \A r \in Rooms : room'[r] = room[r] \/ room'[r] = "enabled"
      BY <1>1, <2>4 DEF Enable, Typed
    <3> QED BY <3>1
  <2>5. CASE UNCHANGED vars \/ DayPasses \/ CloseExpired
    <3>1. UNCHANGED room
      BY <2>5 DEF vars, DayPasses, CloseExpired
    <3> QED BY <2>1, <3>1
  <2>6. ASSUME NEW q \in Requests, Asks(q) PROVE UNCHANGED room
    BY <1>1, <2>6, AskOutcome
  <2>7. ASSUME NEW q \in Requests, Insert(q) \/ Move(q) \/ Remove(q) \/ Settles(q) PROVE UNCHANGED room
    BY <2>7 DEF Insert, Move, Remove, Settles, Finish, Revert
  <2>8. ASSUME NEW q \in Requests, OpenDate(q) \/ Edit(q) \/ CloseDate(q) PROVE UNCHANGED room
    BY <2>8 DEF OpenDate, Edit, CloseDate
  <2>9. ASSUME NEW q \in Requests, RoomWrites(q) PROVE Idly
    BY <2>2, <2>3, <2>4, <2>9 DEF RoomWrites
  <2> QED BY <1>1, <2>1, <2>5, <2>6, <2>7, <2>8, <2>9, NextCases
<1>2. Typed /\ SerialInv /\ [Next]_vars => [Idly]_vars
  BY <1>1
<1>3. Spec => [](Typed /\ SerialInv)
  BY AlwaysSerial
<1>4. Spec => [][Idly]_vars
  BY <1>2, <1>3, PTL DEF Spec
<1> QED BY <1>4 DEF RoomsRetiredIdle
-----------------------------------------------------------------------------
(***************************************************************************)
(* Served one at a time, only a revert makes a date more overbooked.       *)
(***************************************************************************)

\* A date's excess, by the tickets at it.
LEMMA ExcessOfHere ==
  ASSUME NEW x \in Dates
  PROVE  /\ Here(x) = WorkingAt(date[x].room, date[x].day)
         /\ Excess(x) = IF ~Open(x) THEN 0
                        ELSE IF Cardinality(Here(x)) > date[x].capacity
                             THEN Cardinality(Here(x)) - date[x].capacity ELSE 0
         /\ Excess(x)' = IF ~Open(x)' THEN 0
                         ELSE IF Cardinality(Here(x)') > date'[x].capacity
                              THEN Cardinality(Here(x)') - date'[x].capacity ELSE 0
         /\ Cardinality(Here(x)) \in Nat /\ Cardinality(Here(x)') \in Nat
<1>1. Here(x) = WorkingAt(date[x].room, date[x].day)
  BY DEF WorkingAt, TicketsAt, Here, Live, Classes
<1>2. Here(x)' = WorkingAt(date[x].room, date[x].day)'
  BY DEF WorkingAt, TicketsAt, Here, Live, Classes
<1>3. Cardinality(Here(x)) \in Nat /\ Cardinality(Here(x)') \in Nat
  BY TicketSets DEF Here
<1> QED BY <1>1, <1>2, <1>3 DEF Excess

\* A date is no more overbooked when it goes, has room for its tickets, or stays as it
\* is and gets none.
LEMMA ExcessKept ==
  ASSUME Typed, Typed', NEW x \in Dates,
         \/ ~Open(x)'
         \/ Cardinality(Here(x)') <= date'[x].capacity
         \/ date'[x] = date[x] /\ Here(x)' \subseteq Here(x)
         \/ Open(x) /\ date'[x].capacity = date[x].capacity /\ Here(x)' \subseteq Here(x)
  PROVE  ~(Excess(x)' > Excess(x))
<1> PICK n, m, a, b : /\ n = Cardinality(Here(x)) /\ m = Cardinality(Here(x)')
                      /\ a = Excess(x) /\ b = Excess(x)'
  OBVIOUS
<1>1. n \in Nat /\ m \in Nat
  BY ExcessOfHere
<1>2. (Open(x) => date[x].capacity \in Nat) /\ (Open(x)' => date'[x].capacity \in Nat)
  BY ConstantsAssumption DEF Typed, Open, Unused, Deleted, DateRows, Capacities
<1>3. /\ a = IF ~Open(x) THEN 0 ELSE IF n > date[x].capacity THEN n - date[x].capacity ELSE 0
      /\ b = IF ~Open(x)' THEN 0 ELSE IF m > date'[x].capacity THEN m - date'[x].capacity ELSE 0
  BY ExcessOfHere
<1>4. Here(x)' \subseteq Here(x) => m <= n
  <2>1. Here(x) \in SUBSET Tickets
    BY DEF Here
  <2> QED BY <2>1, TicketSets
<1>5. date'[x] = date[x] => (Open(x)' <=> Open(x))
  BY DEF Open
<1>6. a \in Nat /\ b \in Nat
  BY <1>1, <1>2, <1>3
<1>7. b = 0 \/ b <= a
  BY <1>1, <1>2, <1>3, <1>4, <1>5
<1> QED BY <1>6, <1>7

\* The date that has a place left for a booking has one for its tickets and one more.
LEMMA PlaceTaken ==
  ASSUME Typed, Typed', UNCHANGED date, NEW x \in Dates, Open(x), NEW S \in SUBSET Tickets, NEW t \in Tickets,
         PlaceLeft(S, date[x].room, date[x].day), Here(x)' \subseteq S \cup {t}
  PROVE  ~(Excess(x)' > Excess(x))
<1>1. PICK y \in DatesAt(date[x].room, date[x].day) : Cardinality(S) < date[y].capacity
  BY DEF PlaceLeft
<1>2. y = x
  BY <1>1 DEF Typed, OneDate, DatesAt
<1>3. date[x].capacity \in Nat
  BY ConstantsAssumption, RowsOfTables DEF DateRows, Capacities
<1>4. IsFiniteSet(S) /\ Cardinality(S) \in Nat
  BY TicketSets
<1>5. Cardinality(S \cup {t}) <= Cardinality(S) + 1 /\ Cardinality(S \cup {t}) \in Nat
  <2>1. IsFiniteSet(S \cup {t}) /\ (Cardinality(S \cup {t}) = Cardinality(S) \/ Cardinality(S \cup {t}) = Cardinality(S) + 1)
    BY <1>4, FS_AddElement
  <2> QED BY <1>4, <2>1
<1>6. Cardinality(Here(x)') <= Cardinality(S \cup {t}) /\ Cardinality(Here(x)') \in Nat
  BY TicketSets, ExcessOfHere
<1>7. Cardinality(Here(x)') <= date'[x].capacity
  BY <1>1, <1>2, <1>3, <1>4, <1>5, <1>6
<1> QED BY <1>7, ExcessKept
\* Nothing comes to a date when tickets only follow, end or go.
LEMMA HereShrinks ==
  ASSUME \A t \in Tickets : ticket'[t].status = "working" =>
           ticket[t].status = "working" /\ SamePlace(ticket[t], ticket'[t]),
         UNCHANGED date, NEW x
  PROVE  Here(x)' \subseteq Here(x)
  BY DEF Here, SamePlace

LEMMA InsertFits ==
  ASSUME Typed, Typed', SerialInv, NEW q \in Requests, Insert(q), NEW x \in Dates
  PROVE  ~(Excess(x)' > Excess(x))
<1>1. BookingChecked(req[q]) /\ req[q].pc = "insert" /\ UNCHANGED date
  BY WriteChecked DEF Insert
<1>2. PICK t \in Tickets : /\ ~Live(t) /\ SamePlace(req[q], ticket'[t])
                           /\ \A o \in Tickets \ {t} : ticket'[o] = ticket[o]
  BY InsertWrites
<1>3. Here(x)' \subseteq Here(x) \cup {t}
  BY <1>1, <1>2 DEF Here
<1>4. CASE Open(x) /\ date[x].room = req[q].room /\ date[x].day = req[q].day
  <2>1. PlaceLeft(Here(x), date[x].room, date[x].day)
    BY <1>1, <1>4, ExcessOfHere DEF BookingChecked
  <2>2. Here(x) \in SUBSET Tickets
    BY DEF Here
  <2> QED BY <1>1, <1>3, <1>4, <2>1, <2>2, PlaceTaken
<1>5. CASE Open(x) /\ ~(date[x].room = req[q].room /\ date[x].day = req[q].day)
  <2>1. t \notin Here(x)'
    BY <1>1, <1>2, <1>5 DEF Here, SamePlace
  <2> QED BY <1>1, <1>3, <2>1, ExcessKept
<1>6. CASE ~Open(x)
  <2>1. ~Open(x)'
    BY <1>1, <1>6 DEF Open
  <2> QED BY <2>1, ExcessKept
<1> QED BY <1>4, <1>5, <1>6

LEMMA MoveFits ==
  ASSUME Typed, Typed', SerialInv, NEW q \in Requests, Move(q), NEW x \in Dates
  PROVE  ~(Excess(x)' > Excess(x))
<1> PICK t, r, d : t = req[q].ticket /\ r = req[q].room /\ d = req[q].day
  OBVIOUS
<1>1. /\ MoveChecked(req[q]) /\ req[q].pc = "move" /\ UNCHANGED date /\ req[q] \in MovingStates
  BY WriteChecked, MoveWrites DEF Move
<1>2. /\ Live(t) /\ r = Or(req[q].setRoom, ticket[t].room) /\ d = Or(req[q].setDay, ticket[t].day)
      /\ PlaceLeft(WorkingAt(r, d) \ {t}, r, d) /\ t \in Tickets
  BY <1>1 DEF MoveChecked, MovingStates
<1>3. /\ ticket'[t].status = ticket[t].status /\ ticket'[t].room = r /\ ticket'[t].day = d
      /\ \A o \in Tickets : o # t => ticket'[o] = ticket[o]
  BY <1>2, MoveWrites
<1>4. Here(x)' \subseteq (Here(x) \ {t}) \cup {t}
  BY <1>1, <1>3 DEF Here
<1>5. CASE Open(x) /\ date[x].room = r /\ date[x].day = d
  <2>1. PlaceLeft(Here(x) \ {t}, date[x].room, date[x].day)
    BY <1>2, <1>5, ExcessOfHere
  <2>2. Here(x) \ {t} \in SUBSET Tickets
    BY DEF Here
  <2> QED BY <1>1, <1>2, <1>4, <1>5, <2>1, <2>2, PlaceTaken
<1>6. CASE Open(x) /\ ~(date[x].room = r /\ date[x].day = d)
  <2>1. t \notin Here(x)'
    BY <1>1, <1>3, <1>6 DEF Here
  <2>2. Here(x)' \subseteq Here(x)
    BY <1>4, <2>1
  <2> QED BY <1>1, <2>2, ExcessKept
<1>7. CASE ~Open(x)
  <2>1. ~Open(x)'
    BY <1>1, <1>7 DEF Open
  <2> QED BY <2>1, ExcessKept
<1> QED BY <1>5, <1>6, <1>7

\* A date that opens where there is none has no tickets yet.
LEMMA OpenFits ==
  ASSUME Typed, Typed', SerialInv, NEW q \in Requests, OpenDate(q), NEW x \in Dates
  PROVE  ~(Excess(x)' > Excess(x))
<1> PICK r, d : r = req[q].room /\ d = req[q].day
  OBVIOUS
<1>1. PICK y \in Dates :
        /\ ~Open(y) /\ Unique(y, r, d) /\ date'[y].room = r /\ date'[y].day = d
        /\ date'[y] \in DateRows /\ \A z \in Dates \ {y} : date'[z] = date[z]
  BY OpenWrites
<1>2. UNCHANGED ticket
  BY DEF OpenDate
<1>3. CASE x # y
  <2>1. date'[x] = date[x]
    BY <1>1, <1>3
  <2>2. Here(x)' \subseteq Here(x)
    BY <1>2, <2>1 DEF Here
  <2> QED BY <2>1, <2>2, ExcessKept
<1>4. CASE x = y
  <2>1. DatesAt(r, d) = {}
    BY <1>1 DEF Unique, DatesAt
  <2>2. \A t \in Tickets : Live(t) => ~(ticket[t].room = r /\ ticket[t].day = d)
    BY <2>1 DEF SerialInv, TicketsOnOpenDates
  <2>3. Here(x)' = {}
    BY <1>1, <1>2, <1>4, <2>2 DEF Here, Live, Classes
  <2>4. Cardinality(Here(x)') = 0 /\ date'[x].capacity \in Nat
    BY <1>1, <1>4, <2>3, FS_EmptySet, ConstantsAssumption DEF DateRows, Capacities
  <2>5. Cardinality(Here(x)') <= date'[x].capacity
    BY <2>4
  <2> QED BY <2>5, ExcessKept
<1> QED BY <1>3, <1>4

\* An edited date goes where there are no tickets, or its capacity is enough or as before.
LEMMA EditFits ==
  ASSUME Typed, Typed', SerialInv, NEW q \in Requests, Edit(q), NEW x \in Dates
  PROVE  ~(Excess(x)' > Excess(x))
<1>1. PICK y \in Dates :
        /\ Open(y) /\ \A z \in Dates : z # y => date'[z] = date[z]
        /\ date'[y].capacity \in Nat
        /\ \/ /\ date'[y].room = date[y].room /\ date'[y].day = date[y].day
              /\ \/ date'[y].capacity = date[y].capacity
                 \/ Cardinality(WorkingAt(date'[y].room, date'[y].day)) <= date'[y].capacity
           \/ TicketsAt(date'[y].room, date'[y].day) = {}
  BY EditChanges
<1>2. UNCHANGED ticket
  BY DEF Edit
<1>3. CASE x # y
  <2>1. date'[x] = date[x]
    BY <1>1, <1>3
  <2>2. Here(x)' \subseteq Here(x)
    BY <1>2, <2>1 DEF Here
  <2> QED BY <2>1, <2>2, ExcessKept
<1>4. CASE x = y
  <2>0. ASSUME NEW r, NEW d, r = date'[x].room, d = date'[x].day PROVE Here(x)' = WorkingAt(r, d)
    BY <1>2, <2>0 DEF Here, WorkingAt, TicketsAt, Live, Classes
  <2>1. CASE TicketsAt(date'[x].room, date'[x].day) = {}
    <3>1. Here(x)' = {}
      BY <2>0, <2>1 DEF WorkingAt
    <3>2. Cardinality(Here(x)') <= date'[x].capacity
      BY <1>1, <1>4, <3>1, FS_EmptySet
    <3> QED BY <3>2, ExcessKept
  <2>2. CASE Cardinality(WorkingAt(date'[x].room, date'[x].day)) <= date'[x].capacity
    BY <2>0, <2>2, ExcessKept
  <2>3. CASE date'[x].room = date[x].room /\ date'[x].day = date[x].day /\ date'[x].capacity = date[x].capacity
    <3>1. Here(x)' \subseteq Here(x)
      BY <1>2, <2>3 DEF Here
    <3> QED BY <1>1, <1>4, <2>3, <3>1, ExcessKept
  <2> QED BY <1>1, <1>4, <2>1, <2>2, <2>3
<1> QED BY <1>3, <1>4
\* No date is more overbooked after a step that is not a revert.
LEMMA ExcessNeverGrows ==
  ASSUME Typed, Typed', SerialInv, [Next]_vars, NEW x \in Dates,
         ~\E q \in Requests, t \in Tickets : Revert(q, t)
  PROVE  ~(Excess(x)' > Excess(x))
<1>1. ASSUME UNCHANGED date, Ended PROVE ~(Excess(x)' > Excess(x))
  <2>1. \A t \in Tickets : ticket'[t].status = "working" =>
          ticket[t].status = "working" /\ SamePlace(ticket[t], ticket'[t])
    BY <1>1 DEF Ended, SamePlace
  <2>2. Here(x)' \subseteq Here(x)
    BY <1>1, <2>1, HereShrinks
  <2> QED BY <1>1, <2>2, ExcessKept
<1>2. ASSUME UNCHANGED <<ticket, date>> PROVE ~(Excess(x)' > Excess(x))
  <2>1. Ended
    BY <1>2 DEF Ended
  <2> QED BY <1>1, <1>2, <2>1
<1>3. CASE UNCHANGED vars \/ DayPasses
  BY <1>2, <1>3 DEF vars, DayPasses
<1>4. CASE CloseExpired
  <2>1. UNCHANGED date
    BY <1>4 DEF CloseExpired
  <2> QED BY <1>1, <1>4, <2>1, CloseExpiredEnds
<1>5. ASSUME NEW q \in Requests, Asks(q) PROVE ~(Excess(x)' > Excess(x))
  BY <1>2, <1>5, AskOutcome
<1>6. ASSUME NEW q \in Requests, Settles(q) PROVE ~(Excess(x)' > Excess(x))
  <2>1. PICK t \in Tickets, s \in {"completed", "closed"} : Finish(q, t, s)
    BY <1>6 DEF Settles
  <2>2. Ended /\ UNCHANGED date
    BY <2>1, FinishEnds DEF Finish
  <2> QED BY <1>1, <2>2
<1>7. ASSUME NEW q \in Requests, RoomWrites(q) PROVE ~(Excess(x)' > Excess(x))
  <2>1. UNCHANGED <<ticket, date>>
    BY <1>7 DEF RoomWrites, Disable, Drop, Enable
  <2> QED BY <1>2, <2>1
<1>8. ASSUME NEW q \in Requests, Remove(q) PROVE ~(Excess(x)' > Excess(x))
  <2>1. \A t \in Tickets : ticket'[t] = ticket[t] \/ ticket'[t] = Deleted
    BY <1>8, RemoveWrites
  <2>2. \A t \in Tickets : ticket'[t].status = "working" =>
          ticket[t].status = "working" /\ SamePlace(ticket[t], ticket'[t])
    BY <2>1 DEF Deleted, SamePlace
  <2>3. UNCHANGED date
    BY <1>8 DEF Remove
  <2>4. Here(x)' \subseteq Here(x)
    BY <2>2, <2>3, HereShrinks
  <2> QED BY <2>3, <2>4, ExcessKept
<1>9. ASSUME NEW q \in Requests, CloseDate(q) PROVE ~(Excess(x)' > Excess(x))
  <2>1. ~Open(x)' \/ date'[x] = date[x]
    BY <1>9, CloseWrites DEF Open, Deleted
  <2>2. date'[x] = date[x] => Here(x)' \subseteq Here(x)
    BY <1>9 DEF CloseDate, Here
  <2> QED BY <2>1, <2>2, ExcessKept
<1> QED BY <1>3, <1>4, <1>5, <1>6, <1>7, <1>8, <1>9,
          InsertFits, MoveFits, OpenFits, EditFits, NextCases

\* Served one at a time, only a revert makes a date more overbooked: a booking and a
\* move have their place, an administrator does not cut it, and neither midnight nor the
\* nightly cleanup takes it (ticket_service.go, service_date_service.go, record_jobs.go).
THEOREM OnlyRevertsOverbookDates ==
  ASSUME OneAtATime
  PROVE  Spec => OnlyRevertsOverbook
<1> DEFINE Kept ==
      \A x \in Dates : Excess(x)' > Excess(x) => \E q \in Requests, t \in Tickets : Revert(q, t)
<1>1. ASSUME Typed, Typed', SerialInv, [Next]_vars PROVE Kept
  BY <1>1, ExcessNeverGrows
<1>2. Typed /\ Typed' /\ SerialInv /\ [Next]_vars => [Kept]_vars
  BY <1>1
<1>3. Spec => [](Typed /\ SerialInv)
  BY AlwaysSerial
<1>4. Spec => [][Kept]_vars
  BY <1>2, <1>3, PTL DEF Spec
<1> QED BY <1>4 DEF OnlyRevertsOverbook

\* Served one at a time and with nothing taken back, no date ever has more tickets than
\* places, whatever customers, administrators, staff and the calendar do
\* (requirement.md: "the system prevents overbooking").
THEOREM NothingElseOverbooks ==
  ASSUME OneAtATime, ~Reverts
  PROVE  Spec => []NeverOverbooked
<1>1. Init => NeverOverbooked
  BY DEF Init, NeverOverbooked, Excess, Open, Unused
<1>2. Typed /\ Typed' /\ SerialInv /\ NeverOverbooked /\ [Next]_vars => NeverOverbooked'
  <2> SUFFICES ASSUME Typed, Typed', SerialInv, NeverOverbooked, [Next]_vars, NEW x \in Dates
               PROVE  Excess(x)' = 0
    BY DEF NeverOverbooked
  <2>1. ~(Excess(x)' > Excess(x))
    BY ExcessNeverGrows DEF Revert
  <2>2. Excess(x) = 0
    BY DEF NeverOverbooked
  <2>3. Excess(x)' \in Nat
    <3>1. Open(x)' => date'[x].capacity \in Nat
      BY DEF Typed, DateRows, Capacities, Open, Unused, Deleted
    <3> QED BY <3>1, ExcessOfHere
  <2> QED BY <2>1, <2>2, <2>3
<1> QED BY <1>1, <1>2, AlwaysSerial, PTL DEF Spec
=============================================================================
