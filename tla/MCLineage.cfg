SPECIFICATION Spec
CONSTANTS
  Pid = {p1, p2, p3, p4}
  Root = Root
  Absent = Absent
  Kinds = {"claude", "nodeAgent", "shell"}
  MaxTime = 2
  Settings <- UsualAndHooked
SYMMETRY Pids
INVARIANTS NoStrangerBlamed SteadyAgentFound ChainIsTrueLine HookCoversTools
