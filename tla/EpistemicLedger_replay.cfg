CONSTANTS
  Item <- Study
  Derivations <- Steps
  Dependencies <- Acts
  Events = {"v1", "v2"}
  Revocable = {"id"}
  Times = {1, 2, 3}
  MaxDerivations = 2
  MaxDependencies = 1
  MaxRevocations = 1
  MaxBatch = 4
SPECIFICATION Spec
INVARIANT ReplayIdempotent
