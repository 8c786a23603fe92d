CONSTANTS
    MaxEntries = 4
    MaxFiles = 3
    NoFile = NoFile
SPECIFICATION AuditSpec
PROPERTY
    OthersKept
