\* Passing run: backups appear and start before the Restore is reconciled;
\* status updates may fail once.
CONSTANTS
    mc = mc
    creds = creds
    res = res
    Nil = Nil
    Latest = Latest
    Skip = Skip
    Categories <- MCCategories
    MCCat = mc
    BackupNames <- MCBackupNames
    SelChoices <- MCSelChoices
    InitStore <- MCInitStore
    MaxBackups = 3
    MaxErrors = 1
    MaxTime = 2
    MaxReadFailures = 0
    MaxCreateFailures = 0
    MaxStatusFailures = 1

SPECIFICATION FairSpec
INVARIANT TypeOK
INVARIANT SortPicksFewest
PROPERTY SelectionSound
PROPERTY RestoreConverges
\* Once every velero Restore has finished and the status is saved, nothing
\* enqueues the Restore again.
CHECK_DEADLOCK FALSE
