CONSTANTS
  None = None
  Progress = {"idle"}
  Reported = {"working", "none"}
  Named = {"report"}
  MaxChunks = 2
  MaxReports = 1
  MaxRuns = 1
SPECIFICATION FairSpec
CHECK_DEADLOCK FALSE
PROPERTIES NoIdleOverPrompt LoanReturned BlockerSeen HoldsSettle AgentLeaves
