\* One question; one call goes wrong, on one of its attempts or on both.
SPECIFICATION Spec
CONSTANTS
  Question = {q1}
  Commands <- GitCommands
  MaxQuestions = 1
  Policies <- PoliciesMC
  Confidences <- ConfidencesMC
  Subjects <- SubjectsMC
  Stores <- TwoOnRecord
  Runs <- RunsMC
  Changes <- ChangesMC
  Briefs <- BriefsMC
  MaxRows = 2
  Attempts = 2
  MaxLost = 1
  MaxCommits = 1
  MaxRefused = 1
CHECK_DEADLOCK FALSE
INVARIANT TypeOK
 
INVARIANT AnswersStand
INVARIANT AnswersAreGrounded
