\* One request at a time; a customer moves an old booking to a day to come.
SPECIFICATION Spec
CONSTANTS
  Tickets = {t1, t2}
  Users = {u1}
  Rooms = {north}
  Dates = {x1, x2}
  LastDay = 2
  MaxCapacity = 2
  Requests = {q1}
  Keep = Keep
  Reverts = FALSE
  AdminEdits = FALSE
  CustomersWait = TRUE
SYMMETRY Symmetry
INVARIANTS OneUpcoming
CHECK_DEADLOCK FALSE
