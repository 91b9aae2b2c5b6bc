CONSTANT MaxAttempts = 2
SPECIFICATION ShellFairSpec
PROPERTY KeepsHistory
CHECK_DEADLOCK FALSE
