SPECIFICATION Spec
CONSTANT BITSPERLONG = 12
INVARIANT RootAtExit
CHECK_DEADLOCK FALSE
