SPECIFICATION Spec
CONSTANT MaxRestores <- MCMaxRestores
INVARIANT NothingLostSilently
CHECK_DEADLOCK FALSE
