\* One run: three steps, four lookups, one late answer, one failure.
SPECIFICATION FairSpecResearch
CONSTANTS
    policy = policy
    page = page
    blog = blog
    MaxRequests = 2
    Ref <- AllRefs
    Company <- CompanyRefs
    External <- ExternalRefs
    Primary <- PrimaryRefs
    Internal <- InternalLookups
    Web <- WebLookups
    Finds <- Returned
    Allowlisted <- Pages
    Widened = TRUE
    Answers <- ModelAnswersMC
    WriteUps <- WriteUpsMC
    Remedies <- RemediesMC
    Briefs <- BriefsMC
    Wanted <- WantedMC
    MaxSteps = 3
    MaxToolCalls = 4
    Attempts = 2
    MaxLost = 1
    MaxFailures = 1
    MaxToggles = 1
\* The run ends.
CHECK_DEADLOCK FALSE
INVARIANT TypeOKResearch
 
PROPERTY RunEnds
