SPECIFICATION GateTokenFairSpec
CONSTANTS
  d1 = d1
  c1 = c1
  Text <- MCText
  Trim <- MCTrim
  Instants <- MCInstants
  Parse <- MCParse
  Local <- MCLocal
  BadTime = BadTime
  Window = 1
  Extractions <- MCExtractions
  EventIds <- MCEventIds
  InitialCalendars <- MCInitialCalendars
  PageSize = 4
  Absent = Absent
  Gone = Gone
  NoExtraction = NoExtraction
  Runes <- MCRunes
  Space <- MCSpace
  UserIds <- MCUserIds
  BotUserID = "bot"
  MaxInt = 10
  Deliveries <- NoDeliveries
  MaxEvents = 2
  Payloads <- MCPayloads
  RestCalls <- MCRestCalls
  Bodies <- MCBodies
  Requests <- MCRequests
PROPERTIES
  EveryRestCallAnswered
