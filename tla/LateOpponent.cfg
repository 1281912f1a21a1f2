CONSTANTS Variants = {FALSE}
          None = None
          Capacity = 74
          MaxCompletions = 4
          Wheels = 0
          WheelsAfterRespin = 0
          MaxFaint = 0
SPECIFICATION Spec
PROPERTIES OpponentIsPaced
CHECK_DEADLOCK FALSE
