CONSTANTS
  Jobs <- Mixed
  NoJob = none
  Daemons = {d}
  Ops = {o}
  Skills <- MCSkills
  Plans <- MCPlans
  PlansOf <- GoalPlans
  AskSkills <- MCAsk
  DenySkills <- MCDeny
  GoalJobs <- Goal
  HardJobs = {}
  BadJobs = {}
  AssistantJobs <- Advice
  Intake <- InboxOnly
  ChildrenOf <- NoChildren
  MaxReplans = 1
  Retention = FALSE
  ExclusiveLock = TRUE
  MaxCommands = 3
  MaxStops = 0
SPECIFICATION Spec
INVARIANT ExclusiveExecution
INVARIANT FailedJobsExplained
INVARIANT ParkedJobsResumable
INVARIANT ApprovedJobStays
INVARIANT DoneIsEarned
