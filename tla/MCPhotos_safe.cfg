\* Two overlapping requests, with errors and crashes at any point.
SPECIFICATION Spec
CONSTANTS
  Requests = {q1, q2}
  MaxCount = 2
  MaxUploads = 4
  NoRequest = NoRequest
  MayFail = TRUE
SYMMETRY Symmetry
INVARIANTS TypeOK Contiguous RowsHaveObjects KeysUnshared
PROPERTIES PhotosAreAList ReorderIsAsAsked
