\* A direct task and a board item, two nights of one unit of time, one fault.
SPECIFICATION FairSpecNightShift
CONSTANTS
  direct = direct
  item = item
  p1 = p1
  Task <- TwoTasks
  Project = {p1}
  ProjectOf <- OneProject
  OnBoard = {item}
  Coding = {item}
  Repositories = {p1}
  Permitted <- TwoTasks
  Band <- Bands
  ScopeApproved = {direct}
  Rank <- Ranks
  SizeLabel <- NoLabels
  Complexity <- Complexities
  Migrations = {item}
  SizeTime <- Times
  WrapUp = 0
  StopSpend = 1
  Readings <- WellOrNot
  Night = 1
  MinStart = 1
  LargeMin = 1
  Ticker = {sweeper}
  NoRun = NoRun
  MaxShifts = 2
  MaxRuns = 2
  MaxFaults = 1
CHECK_DEADLOCK FALSE
INVARIANT TypeOKNightShift
 
PROPERTY NightCloses
