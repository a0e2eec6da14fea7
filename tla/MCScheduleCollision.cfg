\* Violation run: another hub's backup becomes the latest and stays so.
CONSTANTS
    mc = mc
    creds = creds
    res = res
    c1 = c1
    c2 = c2
    bad = bad
    h1 = h1
    h2 = h2
    Categories <- MCCategories
    ResourcesCat = res
    Crons <- MCCrons
    ValidCrons <- MCValidCrons
    TTLs = {1500}
    Hubs <- MCHubs
    ThisHub = h1
    MaxEdits = 0
    MaxStatusFailures = 0
    MaxWriteFailures = 0
    MaxTime = 2

SPECIFICATION FairSpec
\* The controller goes idle after reporting FailedValidation (no requeue)
\* once the bounded environment has stopped.
CHECK_DEADLOCK FALSE
PROPERTY CollisionReported
