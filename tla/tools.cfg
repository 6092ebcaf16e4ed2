SPECIFICATION FairSpec
CONSTANTS
  sql = sql
  npx = npx
  pdf = pdf
  view = view
  NoFamily = NoFamily
  NoCall = NoCall
  Calls = {sql, npx, pdf, view}
  Consequential = {sql}
  Native = {npx, view}
  ReadOnly = {view}
  Exempt = {view}
  Broken = {pdf}
  Family <- Families
  IdenticalCalls = 2
  IdenticalErrors = 3
  FamilyFailures = 2
  History = 60
  MaxAttempts = 2
  NativeAttempts = 2
  MaxStore = 200
  MaxRuns = 2
  MaxCalls = 3
INVARIANTS
  NoBlindSpinning
  
PROPERTIES
  Permitted
  RefusedStaysRefused
  ToolsReturn
CHECK_DEADLOCK FALSE
