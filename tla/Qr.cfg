\* Seven payloads; the search of the last one visits every version and level.
CONSTANT Inputs <- MCInputs
SPECIFICATION Spec
INVARIANTS StrongestOfTheSmallest ReadBack DamageIsRepaired
  EveryPlaceOnce LinesScoredAsDefined
CHECK_DEADLOCK FALSE
