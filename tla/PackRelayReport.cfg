\* A push: its report and the close of the connection.
CONSTANT Session <- Pushes
SPECIFICATION Spec
INVARIANT FaultlessSessionsSucceed
CHECK_DEADLOCK FALSE
