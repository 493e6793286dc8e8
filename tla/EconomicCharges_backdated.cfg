CONSTANTS
  Amounts = {0, 1, 2}
  Currencies = {usd, eur}
  Home = usd
  Instants = {1, 2}
  MaxRows = 3
  MaxOfKind <- FewOfEach
SPECIFICATION Spec
INVARIANT ReplayNeverNegative
CHECK_DEADLOCK FALSE
