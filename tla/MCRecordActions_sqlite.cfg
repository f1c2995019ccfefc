\* Two requests at a time, serialized transactions, Redis failing at will.
SPECIFICATION Spec
CONSTANTS
  Records = {r1}
  Staff = {alice}
  Nobody = Nobody
  NoRow = NoRow
  Requests = {q1, q2}
  MaxSteps = 3
  Serializable = TRUE
  ConsumeMayFail = TRUE
SYMMETRY Symmetry
INVARIANTS StatusBackedByRows DeletedLeavesNoRows PushedSnapshotsExact
\* With every record deleted, or the bound on steps reached, nothing is left to do.
CHECK_DEADLOCK FALSE
