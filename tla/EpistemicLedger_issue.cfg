CONSTANTS
  Item <- Study
  Derivations <- Steps
  Dependencies <- Acts
  Events = {"v1", "v2"}
  Revocable = {"id", "estimate"}
  Times = {1, 2, 3}
  MaxDerivations = 2
  MaxDependencies = 1
  MaxRevocations = 1
  MaxBatch = 4
SPECIFICATION Spec
INVARIANT CausalGrounded
INVARIANT MoneyWitnessed
INVARIANT ChainHolds
INVARIANT EventNamesOneTarget
INVARIANT OneRevision
INVARIANT RevocationReaches
PROPERTY HistoryStable
PROPERTY RevocationPermanent
