CONSTANTS Variants = {TRUE}
          None = None
          Capacity = 72
          MaxCompletions = 2
          Wheels = 2
          WheelsAfterRespin = 0
          MaxFaint = 3
SPECIFICATION FairSpec
PROPERTIES LocksAreReleased
CHECK_DEADLOCK FALSE
