SPECIFICATION FairSpec
CONSTANTS
  c1 = c1
  c2 = c2
  c3 = c3
  ownCode = ownCode
  otherCode = otherCode
  Callbacks <- MCCallbacks
  Codes <- MCCodes
  OwnCodes <- MCOwnCodes
  NoCode = NoCode
  OldToken = OldToken
  MaxRuns = 2
INVARIANTS
  FlowTypeOK
  TokensAreOwn
  WedgedOnlyWhenCrowded
PROPERTIES
  FileKeptUntilGranted
  KeepsSignInPromise
  EndsUnlessWedged
