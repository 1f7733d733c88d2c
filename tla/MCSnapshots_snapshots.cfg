SPECIFICATION SnapshotSpec
CONSTANTS
    Settings <- MCSettings
    NotSet = NotSet
    KeepRecent = 1
    MaxHeight = 15
    Width = 4
CONSTRAINT OneDamaged
INVARIANTS
    SnapshotTypeOK
    OfferedAreWhole
    LatestIsNewest
