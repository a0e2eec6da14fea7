\* Violation run: one read of the velero Backups fails.
CONSTANTS
    mc = mc
    creds = creds
    res = res
    Nil = Nil
    Latest = Latest
    Skip = Skip
    Categories <- MCCategories
    MCCat = mc
    BackupNames <- MCBackupNames
    SelChoices <- MCNoNames
    InitStore <- MCFullStore
    MaxBackups = 3
    MaxErrors = 1
    MaxTime = 2
    MaxReadFailures = 1
    MaxCreateFailures = 0
    MaxStatusFailures = 0

SPECIFICATION FairSpec
PROPERTY EveryCategoryRestored
CHECK_DEADLOCK FALSE
