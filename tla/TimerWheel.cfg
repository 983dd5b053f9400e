SPECIFICATION WheelSpec
CONSTANTS WheelSize = 3
          NumTimers = 3
          Delays = {0, 3, 7}
          CallbackDelays = {1, 3, 5}
          FullTurns = FALSE
          MaxLag = 2
          MaxTime = 7
INVARIANTS WheelIntact
PROPERTIES ImplementsTimers
CHECK_DEADLOCK FALSE
