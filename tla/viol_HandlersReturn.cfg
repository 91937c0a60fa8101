CONSTANT ROUNDS = 1
SPECIFICATION FairSpec
CHECK_DEADLOCK FALSE
PROPERTY HandlersReturn
