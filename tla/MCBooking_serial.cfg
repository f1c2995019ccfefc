\* One request at a time, with reverts, administrators and midnight in between.
SPECIFICATION Spec
CONSTANTS
  Tickets = {t1, t2}
  Users = {u1}
  Rooms = {north, south}
  Dates = {x1, x2}
  LastDay = 2
  MaxCapacity = 1
  Requests = {q1}
  Keep = Keep
  Reverts = TRUE
  AdminEdits = TRUE
  CustomersWait = TRUE
SYMMETRY Symmetry
INVARIANTS TypeOK TicketsOnOpenDates
PROPERTIES OnlyRevertsOverbook RoomsRetiredIdle
\* Ids run out and rooms can all be deleted.
CHECK_DEADLOCK FALSE
