\* Passing run: status updates may fail, Create/Delete do not.
CONSTANTS
    mc = mc
    creds = creds
    res = res
    c1 = c1
    c2 = c2
    bad = bad
    h1 = h1
    h2 = h2
    Categories <- MCCategories
    ResourcesCat = res
    Crons <- MCCrons
    ValidCrons <- MCValidCrons
    TTLs = {0, 1500}
    Hubs <- MCHubs
    ThisHub = h1
    MaxEdits = 2
    MaxStatusFailures = 1
    MaxWriteFailures = 0
    MaxTime = 2

SPECIFICATION FairSpec
INVARIANT TypeOK
INVARIANT NoLostWakeup
PROPERTY Converges
\* The controller goes idle after reporting FailedValidation (no requeue)
\* once the bounded environment has stopped.
CHECK_DEADLOCK FALSE
