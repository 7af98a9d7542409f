SPECIFICATION Spec
PROPERTY ActiveModeShown
CHECK_DEADLOCK FALSE
