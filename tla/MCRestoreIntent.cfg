\* Passing run: the reconciler refines RestoreIntent; a Create and a
\* status update may each fail once, and two categories may name the same
\* backup.
CONSTANTS
    mc = mc
    creds = creds
    res = res
    Nil = Nil
    Latest = Latest
    Skip = Skip
    Categories <- MCCategories
    MCCat = mc
    BackupNames <- MCBackupNames
    SelChoices <- MCIntentSelChoices
    InitStore <- MCInitStore
    MaxBackups = 3
    MaxErrors = 1
    MaxTime = 2
    MaxReadFailures = 0
    MaxCreateFailures = 1
    MaxStatusFailures = 1

SPECIFICATION Spec
INVARIANT RestoreCompleteJustified
PROPERTY RefinesIntent
\* Once every velero Restore has finished and the status is saved, nothing
\* enqueues the Restore again.
CHECK_DEADLOCK FALSE
