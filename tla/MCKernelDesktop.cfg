SPECIFICATION MCSpec
INVARIANTS OneFocus FormSound OnScreen
PROPERTIES  ConsoleSound
CHECK_DEADLOCK FALSE
