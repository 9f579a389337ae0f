\* One thread, one task and its run; two requests served at once.
SPECIFICATION Spec
CONSTANTS
  c1 = c1
  c2 = c2
  work = work
  words = words
  verdict = verdict
  t1 = t1
  t2 = t2
  r1 = r1
  d1 = d1
  d2 = d2
  d3 = d3
  Caller <- Callers
  Task = {t1, t2}
  Said = {work, words, verdict}
  Typed = {words}
  Dimension = {d1, d2}
  Weight <- Weights
  Fills <- Reading
  Findable = {d1, d2}
  MaxInvestigated = 1
  Manner <- Manners
  Authorised = {work, words, verdict}
  Run = {r1}
  TaskOf <- OneTask
  NoRun = NoRun
  Terms <- SomeTerms
  MaxBriefs = 2
  MaxFaults = 1
  MaxRequests = 2
  MaxInputs = 4
SYMMETRY AnyOrder
CHECK_DEADLOCK FALSE
INVARIANT TypeOK
INVARIANT ActedOnOnce
INVARIANT DecidedOnceAndDone
INVARIANT ReadyAsksNothing
