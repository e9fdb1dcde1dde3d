SPECIFICATION StartupSpec
CONSTANTS
  Bad = Bad
  Unparseable = Bad
  Values <- MCValues
  Trim <- MCTrim
  Colon <- MCColon
  AsInt <- MCInt
  AsBool <- MCBool
  AsDuration <- MCDuration
  Half = 8
  Environments <- MCEnvironments
  Issued <- MCIssued
  Headers <- MCHeaders
  Asks <- MCAsks
INVARIANTS
  StartupTypeOK
  ServingIsComplete
  IssuedValuesServe
  ConsultsAsConfigured
