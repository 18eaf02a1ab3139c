SPECIFICATION FairSpec
CONSTANTS
  Nobody = Nobody
  People = {p1, p2, p3}
INVARIANTS
  FailClosed
  OneDecider
  ReportMatchesRow
PROPERTIES
  GateAnswers
CHECK_DEADLOCK FALSE
