SPECIFICATION Spec
CONSTANTS
  Settings <- MCSettings
  LeverText <- MCLeverText
  ProfileLevers = {"SERVE1M"}
  GatedLevers = {"HOT"}
  Perf <- MCPerf
  Benches <- MCBenches
  AcceptPct = 5
  PrefillTol = 5
  FirstLevers <- MCFirst
  Relaunches <- MCRelaunches
  HandSettings <- MCHandSettings
  HandPrefixes <- MCHandPrefixes
  CarefulOperator = TRUE
  ByHand = 2
  Stacks = 1
INVARIANTS TypeOK BaseIsCurrent AcceptedOnOwnRow AcceptedSurvivesRelaunch
PROPERTIES StackEnds
CHECK_DEADLOCK FALSE
