SPECIFICATION ApartSpec
CONSTANTS
  j1 = j1
  j2 = j2
  Jobs <- MCJobs
  Attempts = 2
  Tries = 2
  Deadline = 2
  MaxAge = 1
  MaxTime = 5
  MaxFaults = 1
  Handlers = {h1, h2}
  RateCount = 2
  RateSeconds = 3
  MaxDelay = 1
  MaxRestarts = 1
  MaxSecond = 6
  Watched <- MCWatched
  Reminder = 2
  MaxLost = 2
  MaxRuns = 4
  Fresh = 2
  Until = 4
SYMMETRY MCSymmetry
INVARIANTS
  WhatCountsVerifies CurrentIsBackedUp FailsOnlyInTrouble
  RateInShorterWindow HeartbeatIsTruthful VerdictIsTruth
CHECK_DEADLOCK FALSE
