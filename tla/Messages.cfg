\* Trades and their messages, days, restarts, refused messages; alerts on shared streams; every
\* service and kind of destination, and every answer.  All of them end.
CONSTANT Areas = {"news", "services"}
SPECIFICATION Spec
INVARIANTS Reported AlertsFire SentIsWhatArrived
CHECK_DEADLOCK FALSE
