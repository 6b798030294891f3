\* A pair may have no candle at the last timestamp of the others.
CONSTANT Areas = {"sim"}
SPECIFICATION Spec
INVARIANTS FinalBalanceIsWallet
CHECK_DEADLOCK FALSE
