CONSTANTS
  Jobs <- Hard
  NoJob = none
  Daemons = {d}
  Ops = {o1, o2}
  Skills <- MCSkills
  Plans <- MCPlans
  PlansOf <- TwoAsks
  AskSkills <- MCAsk
  DenySkills <- MCDeny
  GoalJobs = {}
  HardJobs <- Hard
  BadJobs = {}
  AssistantJobs = {}
  Intake <- Anywhere
  ChildrenOf <- NoChildren
  MaxReplans = 1
  Retention = FALSE
  ExclusiveLock = TRUE
  MaxCommands = 3
  MaxStops = 1
SPECIFICATION Spec
SYMMETRY ProcSymmetry
INVARIANT IInv
INVARIANT HardGateHolds
INVARIANT ResumePointsHold
INVARIANT AskedStepsWereApproved
