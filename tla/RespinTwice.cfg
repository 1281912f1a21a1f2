CONSTANTS Variants = {TRUE}
          None = None
          Capacity = 72
          MaxCompletions = 2
          Wheels = 2
          WheelsAfterRespin = 1
          MaxFaint = 3
SPECIFICATION Spec
PROPERTIES RespinChoiceStands
CHECK_DEADLOCK FALSE
