SPECIFICATION TokenFairSpec
CONSTANTS
  Text <- MCText
  Trim <- MCTrim
  Instants <- MCInstants
  Parse <- MCParse
  Local <- MCLocal
  BadTime = BadTime
  Window = 1
  Requests = {r1, r2}
  Extractions <- MCExtractions
  EventIds <- MCEventIds
  InitialCalendars <- MCInitialCalendars
  PageSize = 4
  Absent = Absent
  Gone = Gone
  NoExtraction = NoExtraction
INVARIANTS
  TypeOK
  OnlyAdmissibleCalls
  ReportsWhatWasAsked
  ReportsStayTrue
  QueryReportsOverlap
  FormatFailureMeansWritten
PROPERTIES
  EventsKeepTheirTimes
  ListsAllOverlapping
  KeepsPromise
  EveryRequestReturns
