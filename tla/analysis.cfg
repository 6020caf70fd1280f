SPECIFICATION AnalysisSpec
CONSTANTS
  Impls = {"go", "rust", "js"}
  Addr = {pub, pub2, priv}
  External = {pub, pub2}
  MaxSpans = 4
INVARIANTS AnalysisTypeOK LatestVerdict AnnouncedIsReachable ParsersAgree GoFalsePositiveIsLoss
CHECK_DEADLOCK FALSE
