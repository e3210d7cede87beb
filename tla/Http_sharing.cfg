SPECIFICATION HSpec
CONSTANTS
  Clients = {c1, c2}
  Key <- SharedKey
  Foreign = {}
  ETag <- SharedTags
  LastModified <- SharedDates
  Requests <- OneRequest
  Kinds = {"html"}
  Offers <- OneOffer
  Refusals = {}
  MaxRedirects = 1
  MaxEditions = 2
  MaxTime = 0
  MaxChunks = 0
VIEW SharedView
PROPERTIES RevalidatedIsCurrent NeverOutdated
CHECK_DEADLOCK FALSE
