\* Every fetch round ends in the interval it fired in: the stream promise holds.
CONSTANTS
    Tf = 2
    TailCount = 3
    FetchTimeout = 1
    Stall = 0
    Prompt = TRUE
    OutageEnd = 14
    MaxTime = 14
SPECIFICATION Spec
PROPERTIES StreamSpec
CHECK_DEADLOCK FALSE
