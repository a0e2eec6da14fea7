\* Violation run: the resources category asks for "latest".
CONSTANTS
    mc = mc
    creds = creds
    res = res
    Nil = Nil
    Latest = Latest
    Skip = Skip
    Categories <- MCCategories
    MCCat = mc
    BackupNames <- MCBackupNames
    SelChoices <- MCLatestSel
    InitStore <- MCFullStore
    MaxBackups = 3
    MaxErrors = 1
    MaxTime = 2
    MaxReadFailures = 0
    MaxCreateFailures = 0
    MaxStatusFailures = 0

SPECIFICATION FairSpec
PROPERTY EveryCategoryRestored
CHECK_DEADLOCK FALSE
