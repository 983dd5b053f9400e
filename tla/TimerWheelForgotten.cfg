SPECIFICATION WheelSpec
CONSTANTS WheelSize = 3
          NumTimers = 3
          Delays = {3}
          CallbackDelays = {3}
          FullTurns = TRUE
          MaxLag = 1
          MaxTime = 7
INVARIANTS NoneForgotten
CHECK_DEADLOCK FALSE
