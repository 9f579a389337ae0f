\* Two runs, one of them without log output, two lost calls and a crash, every order of
\* calls and answers, under fair timers.
SPECIFICATION FairSpec
CONSTANTS
  r1 = r1
  r2 = r2
  NoRun = NoRun
  Run <- TwoRuns
  Silent = {r2}
  Attempts = 2
  MaxLost = 2
  MaxCrashes = 1
INVARIANT TypeOK
INVARIANT AgentIsAccountable
PROPERTY AgentResponds
