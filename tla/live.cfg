SPECIFICATION LiveSpec
PROPERTIES StopEndsReading BothSidesFreed CreditIsTold
CHECK_DEADLOCK FALSE
