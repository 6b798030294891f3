\* Late callers and slow answers: rounds overrun the next boundaries; from OutageEnd
\* on the venue answers.
CONSTANTS
    Tf = 2
    TailCount = 7
    FetchTimeout = 2
    Stall = 1
    Prompt = FALSE
    OutageEnd = 4
    MaxTime = 13
SPECIFICATION FairSpec
INVARIANTS OnlyFinalBars OnlyNewerBars
PROPERTIES GiveUpDefers BarRecovered
CHECK_DEADLOCK FALSE
