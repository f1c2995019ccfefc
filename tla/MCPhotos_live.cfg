\* Two overlapping requests that are all served to the end.
SPECIFICATION FairSpec
CONSTANTS
  Requests = {q1, q2}
  MaxCount = 2
  MaxUploads = 3
  NoRequest = NoRequest
  MayFail = FALSE
PROPERTIES ObjectsNotLeaked DeletedLosesPhotos
