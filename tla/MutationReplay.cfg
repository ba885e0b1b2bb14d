SPECIFICATION FairSpec
CONSTANTS
  Reqs = {r1, r2}
  Paths = {p1}
  Values = {a}
  CacheCap = 2
  MaxBreaks = 1
  MaxTimeouts = 1
INVARIANTS ReplayIsExact ReplyTellsTruth
PROPERTIES CallIsAnswered
CHECK_DEADLOCK FALSE
