\* Violation run: a backup without a start timestamp is in the listing.
CONSTANTS
    mc = mc
    creds = creds
    res = res
    Nil = Nil
    Latest = Latest
    Skip = Skip
    Categories <- MCCategories
    MCCat = mc
    BackupNames <- MCBackupNames
    SelChoices <- MCSelChoices
    InitStore <- MCInitStore
    MaxBackups = 3
    MaxErrors = 1
    MaxTime = 2
    MaxReadFailures = 0
    MaxCreateFailures = 0
    MaxStatusFailures = 0

SPECIFICATION Spec
PROPERTY SelectsBest
CHECK_DEADLOCK FALSE
