CONSTANTS
  IntWidth = 8
  Limits = {14, 15, 100, 1000, 1200, 1905, 2000, 2400, 4000}
  PinnedSizes = {1, 8, 127, 128}
  TextLengths = {1, 60, 127, 300}
  OpenFileLimits = {20, 1000}
SPECIFICATION Spec
INVARIANT NextsIsTwiceCurrents
CHECK_DEADLOCK FALSE
