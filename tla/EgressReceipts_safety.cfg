CONSTANTS
  Procs = {p1, p2}
  Receipts = {r1, r2, r3}
  None = None
  MaxFaults = 2
  MaxInterventions = 2
SPECIFICATION LogSpec
SYMMETRY Symmetric
INVARIANTS SectionExclusive ChainLinked DeletionLeavesTrace
PROPERTIES VerdictHonest DamagedNeverExtended ImplementsHistory
