\* Two sockets over one slot (the server has 12 over 4), with the publisher and the
\* updater broadcasting: another client may hold the slot while one more thing goes
\* wrong, or two things do.  A session found gone counts two of the three failures
\* that close a client; generations never run out.
SPECIFICATION FeedSpec
CONSTANTS
  Sockets = {s1, s2}
  NoSocket = NoSocket
  SlotCount = 1
  Broadcasters = {publisher, ota}
  Publisher = publisher
  FailureLimit = 3
  MaxGeneration = 12
  MaxFaults = 2
INVARIANTS TypeOK InflightIsExact
PROPERTIES SendsComplete FeedResumes
