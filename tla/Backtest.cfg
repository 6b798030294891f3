\* Exports with holes and duplicates; every indicator; every stop and take-profit mode; every
\* way to size; every short curve and list of trades.  All of them end.
CONSTANT Areas = {"data", "series", "sim", "size", "report"}
SPECIFICATION Spec
INVARIANTS ConversionIsExact StreamIsBatch WalletConserved FillsInsideCandle StopsLeaveNoDebt ReportIsRight
PROPERTIES StopKeepsWhatIsSecured
CHECK_DEADLOCK FALSE
