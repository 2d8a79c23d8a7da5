CONSTANTS
  Jobs <- Family
  NoJob = none
  Daemons = {d}
  Ops = {o}
  Skills <- MCSkills
  Plans <- MCPlans
  PlansOf <- FamilyPlans
  AskSkills <- MCAsk
  DenySkills <- MCDeny
  GoalJobs <- Goal
  HardJobs = {}
  BadJobs <- Bad
  AssistantJobs = {}
  Intake <- InboxOnly
  ChildrenOf <- OneChild
  MaxReplans = 1
  Retention = TRUE
  ExclusiveLock = TRUE
  MaxCommands = 1
  MaxStops = 1
SPECIFICATION FairSpec
INVARIANT ChildrenComeAfter
PROPERTY InboxDrains
PROPERTY ShutdownCompletes
