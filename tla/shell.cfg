SPECIFICATION Spec
INVARIANTS
    ShellSafe
PROPERTIES
    ShellSteps
    ShellSettles
CHECK_DEADLOCK FALSE
