SPECIFICATION MCSpec
CONSTANTS
  b1 = b1
  Text <- MCText
  Trim <- MCTrim
  Instants <- MCInstants
  Parse <- MCParse
  Local <- MCLocal
  BadTime = BadTime
  Window = 1
  Extractions <- MCExtractions
  EventIds <- MCEventIds
  InitialCalendars <- MCInitialCalendars
  PageSize = 4
  Absent = Absent
  Gone = Gone
  NoExtraction = NoExtraction
  Runes <- MCRunes
  Space <- MCSpace
  UserIds <- MCUserIds
  BotUserID = "bot"
  MaxInt = 10
  Batches <- MCBatches
  Deliveries <- MCDeliveries
  MaxAttempts = 2
  MaxEvents = 2
  Limit = 1
  MaxAge = 3
  WriteTimeouts <- MCWriteTimeouts
  Repeated <- MCRepeated
  Payloads <- MCPayloads
  RestCalls <- NoCalls
  Bodies <- NoCalls
  Requests <- MCRequests
INVARIANTS
  RedeliveryTypeOK
  DuplicatesExplained
  AckedMeansHandled
  LoopTimeBounded
  OverlapOnlyWhenGivenUp
  AcknowledgedWhenItFits
PROPERTIES
  AttemptsSettle
  KeepsDelivering
