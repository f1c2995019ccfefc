\* One request at a time; staff undo a rejection after its place was booked again.
SPECIFICATION Spec
CONSTANTS
  Tickets = {t1, t2}
  Users = {u1, u2}
  Rooms = {north}
  Dates = {x1, x2}
  LastDay = 2
  MaxCapacity = 1
  Requests = {q1}
  Keep = Keep
  Reverts = TRUE
  AdminEdits = FALSE
  CustomersWait = TRUE
SYMMETRY Symmetry
INVARIANTS NeverOverbooked
CHECK_DEADLOCK FALSE
