SPECIFICATION MigrationSpec
CONSTANTS
    Environments = {"browser"}
    Steps = {1, 2, 3}
    MaxAttempts = 2
INVARIANTS
    UpgradeSucceeds
CHECK_DEADLOCK FALSE
