SPECIFICATION ASpec
CONSTANTS
  ProgramSet <- MCPolled
  NodeBound = 2
  PauseNs = 20
  HandoffTolerance = 1
  ClockTolerance = 1
  DriftDivisor = 10
  JointNs = 0
  BlameDepth = 3
  MaxIterationPhases = 2
  MaxSegmentPhases = 3
  LamSteps = 4
  NoiseNs = 1
  EndTolerance = 1
  Shown <- MCShown
  Reruns <- MCReruns
INVARIANT PairsRight
