SPECIFICATION Spec
CONSTANTS
  Settings <- MCSettings
  LeverText <- MCLeverText
  ProfileLevers = {"SERVE1M"}
  GatedLevers = {"HOT"}
  Perf <- MCPerf
  Benches <- MCBenches
  AcceptPct = 5
  PrefillTol = 5
  FirstLevers <- MCFirst
  Relaunches <- MCRelaunches
  HandSettings = {}
  HandPrefixes = {}
  CarefulOperator = FALSE
  ByHand = 2
  Stacks = 0
INVARIANT BaseIsCurrent
CHECK_DEADLOCK FALSE
