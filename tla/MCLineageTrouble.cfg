\* Pids are given out again, and answers are cached for ever.
\* The other things that fail: with Settings <- Stale and MaxTime = 2, GuardIsEnough;
\* with Settings <- SameSecond and MaxTime = 2, NoStrangerBlamed; with the constants of
\* MCLineage.cfg, EveryHookCoversTools.
SPECIFICATION Spec
CONSTANTS
  Pid = {p1, p2, p3}
  Root = Root
  Absent = Absent
  Kinds = {"claude", "nodeAgent", "shell"}
  MaxTime = 3
  Settings <- Recycling
SYMMETRY Pids
INVARIANT CacheStaysTrue
