\* Two requests at a time, serialized transactions, a journal that loses nothing
\* that should be removed.
SPECIFICATION Spec
CONSTANTS
  Records = {r1}
  Staff = {alice, bob}
  Nobody = Nobody
  NoRow = NoRow
  Requests = {q1, q2}
  MaxSteps = 3
  Serializable = TRUE
  ConsumeMayFail = FALSE
SYMMETRY Symmetry
PROPERTIES RevertUndoesOwnNewest
CHECK_DEADLOCK FALSE
