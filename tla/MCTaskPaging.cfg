SPECIFICATION Spec
CONSTANTS
  Text <- MCText
  Trim <- MCTrim
  Instants <- MCInstants
  Parse <- MCParse
  Local <- MCLocal
  BadTime = BadTime
  Window = 1
  Requests = {r1, r2}
  Extractions <- MCExtractions
  EventIds <- MCEventIds
  InitialCalendars <- MCInitialCalendars
  PageSize = 1
  Absent = Absent
  Gone = Gone
  NoExtraction = NoExtraction
PROPERTIES
  ListsAllOverlapping
