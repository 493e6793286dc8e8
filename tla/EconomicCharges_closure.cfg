CONSTANTS
  Amounts = {0, 1, 2}
  Currencies = {usd, eur}
  Home = usd
  Instants = {1, 2}
  MaxRows = 5
  MaxOfKind <- FewOfEach
SPECIFICATION Spec
INVARIANT EveryRowRevalidates
INVARIANT PositionNeverNegative
INVARIANT AllocationConserved
INVARIANT EffectiveIsLastAsserted
CHECK_DEADLOCK FALSE
