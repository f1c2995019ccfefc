\* Two accounts, three staff rows, two requests at a time and three in all, one redeployment that
\* raises STAFF_VERSION.
SPECIFICATION Spec
CONSTANTS
  alice = alice
  bob = bob
  monday = monday
  Accounts = {alice, bob}
  Groups <- MCGroups
  StaffIds = {1, 2, 3}
  Tokens = {t1, t2}
  Requests = {q1, q2}
  ScheduleIds = {1, 2}
  SlotIds = {1, 2}
  Places = {monday}
  Dates = {1, 2}
  YearOf <- MCYearOf
  Weeks <- MCWeeks
  AnnouncementIds = {1, 2}
  NoRole = NoRole
  Absent = Absent
  Deleted = Deleted
  Keep = Keep
  MaxVersion = 1
  MaxRequests = 3
CHECK_DEADLOCK FALSE
INVARIANTS TypeOK AtMostOne OldSessionsNeedALogin DeletedCannotAct RosterSound HiddenUnlessCut
PROPERTIES AddsBounded
SYMMETRY Symmetry
