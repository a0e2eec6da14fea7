\* Violation run: one Create of a velero Restore fails.
CONSTANTS
    mc = mc
    creds = creds
    res = res
    Nil = Nil
    Latest = Latest
    Skip = Skip
    Categories <- MCCategories
    MCCat = mc
    BackupNames <- MCBackupNames
    SelChoices <- MCNoNames
    InitStore <- MCFullStore
    MaxBackups = 3
    MaxErrors = 1
    MaxTime = 2
    MaxReadFailures = 0
    MaxCreateFailures = 1
    MaxStatusFailures = 0

SPECIFICATION FairSpec
PROPERTY EveryCategoryRestored
CHECK_DEADLOCK FALSE
