\* Two runs of one task, one worker: a coding run under an overnight authority and a
\* general one without, under a fair sweeper.
SPECIFICATION FairSpec
CONSTANTS
  r1 = r1
  r2 = r2
  w1 = w1
  w2 = w2
  t1 = t1
  Task <- OneTask
  TaskOf <- SameTask
  NoWorker = NoWorker
  NoRun = NoRun
  Run <- TwoRuns
  Worker = {w1}
  Overnight = {r1}
  Coding = {r1}
  General = {r2}
  MaxCompletions = 1
CHECK_DEADLOCK FALSE
INVARIANT TypeOK
INVARIANT RunsAreAccounted
PROPERTY RecordStands
PROPERTY ImplementsRunContract
PROPERTY CutoffBites
