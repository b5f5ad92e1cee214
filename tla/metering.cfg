SPECIFICATION Spec
CONSTANTS
  Calls = {c1}
  Requests <- MCRequests
  Bodies <- MCBodies
  Streams <- MCStreams
  PendingLimit = 5
  Codes <- MCCodes
  Creations <- MCCreations
  Changes <- MCChanges
  MaxEdits = 1
  Configured = TRUE
INVARIANTS
  TypeOK
  ReservationCovers
  StreamReadAsWhole
  UpstreamNamed
  QuantityOutlivesModel
CHECK_DEADLOCK FALSE
