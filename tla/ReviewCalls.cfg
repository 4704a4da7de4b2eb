SPECIFICATION Spec
CONSTANTS
  t1 = t1
  t2 = t2
  t3 = t3
  Tasks = {t1, t2, t3}
  Slots = 2
  MaxTries = 1
  MaxPrompts = 2
  NoTask = NoTask
INVARIANTS TypeOK SlotsAccounted NothingLeftRunning OnePrompt
PROPERTY Returns
CHECK_DEADLOCK FALSE
