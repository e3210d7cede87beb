SPECIFICATION FairSpec
CONSTANTS
  Clients = {c1}
  Key <- MCKey
  Foreign = {"file"}
  ETag <- MCValidators
  LastModified <- MCValidators
  Requests <- MCRequests
  Kinds = {"html", "pdf", "empty", "malformed_pdf", "undecodable", "shell"}
  Offers <- AllOffers
  Refusals = {"forbidden", "rate_limited"}
  MaxRedirects = 1
  MaxEditions = 1
  MaxTime = 1
  MaxChunks = 1
INVARIANTS TypeOK RedirectsBounded OnlyValidatedCached CancelStops IInv
PROPERTIES StepsRunOut AcquisitionEnds
CHECK_DEADLOCK FALSE
