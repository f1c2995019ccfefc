\* Two customers' requests at a time, with staff finishing tickets and the calendar.
SPECIFICATION Spec
CONSTANTS
  Tickets = {t1, t2, t3}
  Users = {u1, u2}
  Rooms = {north}
  Dates = {x1, x2}
  LastDay = 2
  MaxCapacity = 1
  Requests = {q1, q2}
  Keep = Keep
  Reverts = FALSE
  AdminEdits = FALSE
  CustomersWait = TRUE
SYMMETRY Symmetry
INVARIANTS OverbookingBounded
PROPERTIES BookedAlone
CHECK_DEADLOCK FALSE
