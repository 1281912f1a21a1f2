CONSTANTS Variants = {TRUE, FALSE}
          None = None
          Capacity = 71
          MaxCompletions = 4
          Wheels = 2
          WheelsAfterRespin = 0
          MaxFaint = 3
SPECIFICATION Spec
INVARIANTS NobodyIsStuck InputIsLocked OneOutcomePerBattle
PROPERTIES StaleStepsChangeNothing
CHECK_DEADLOCK FALSE
