CONSTANT MaxRuns = 3
SPECIFICATION Spec
INVARIANTS LastPairRecoverable StaleBackupKept OutcomeHonest
PROPERTY ImplementsAtomicPublish
CHECK_DEADLOCK FALSE
