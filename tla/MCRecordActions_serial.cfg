\* One request at a time, interleaved with the nightly cleanup; the journal
\* loses entries on the way in, but not on the way out.
SPECIFICATION Spec
CONSTANTS
  Records = {r1}
  Staff = {alice, bob}
  Nobody = Nobody
  NoRow = NoRow
  Requests = {q1}
  MaxSteps = 3
  Serializable = TRUE
  ConsumeMayFail = FALSE
SYMMETRY Symmetry
INVARIANTS TypeOK JournalIsHistory ApprovedOncePastPending
PROPERTIES RevertUndoesOwnNewest UndoStackImplemented
\* With every record deleted, or the bound on steps reached, nothing is left to do.
CHECK_DEADLOCK FALSE
