CONSTANTS
  Jobs <- Hard
  NoJob = none
  Daemons = {d}
  Ops = {o}
  Skills <- MCSkills
  Plans <- MCPlans
  PlansOf <- TwoAsks
  AskSkills <- MCAsk
  DenySkills <- MCDeny
  GoalJobs = {}
  HardJobs <- Hard
  BadJobs = {}
  AssistantJobs = {}
  Intake <- InboxOnly
  ChildrenOf <- NoChildren
  MaxReplans = 1
  Retention = FALSE
  ExclusiveLock = TRUE
  MaxCommands = 3
  MaxStops = 0
SPECIFICATION Spec
PROPERTY HeldUntilResolved
