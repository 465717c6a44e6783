SPECIFICATION Spec
CONSTANTS
    Revisions <- MCRevisions
    MaxInserts = 1
    MaxDowngrades = 2
INVARIANTS
    TypeOK
    SchemaOfRevision
    HeadServesModels
    BlockedByRowsOnly
    BlockedByOthersOnly
PROPERTY
    UpgradeKeepsRows
CHECK_DEADLOCK FALSE
