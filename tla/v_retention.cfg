SPECIFICATION Spec
CONSTANTS
  r1 = r1
  ka = ka
  Contents = {x}
  Writers = {w1}
  MaxDeaths = 0
  Requirements = {r1}
  Must = {r1}
  Criteria = {ka}
  CriterionOf <- CriteriaOf
  Mandatory = {ka}
  Reporters = {p1}
INVARIANT VerifiedStaysReadable
CHECK_DEADLOCK FALSE
