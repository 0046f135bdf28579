SPECIFICATION Spec
CONSTANTS
  LineMax = 8
  PatternMax = 2
  LinesMax = 3
  KeyMax = 255
  Kilo = 1
  BlockMax = 3
  ParityAt = 46
  Jobs <- FixmodJobs
  Beyond <- MCBeyond
CHECK_DEADLOCK FALSE
INVARIANT EditionAsked
