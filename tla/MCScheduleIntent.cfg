\* Passing run: the reconciler refines ScheduleIntent; a Create or Delete
\* and a status update may each fail once, backups come from both hubs.
CONSTANTS
    mc = mc
    creds = creds
    res = res
    c1 = c1
    c2 = c2
    bad = bad
    h1 = h1
    h2 = h2
    Categories <- MCCategories
    ResourcesCat = res
    Crons <- MCCrons
    ValidCrons <- MCValidCrons
    TTLs = {0, 1500}
    Hubs <- MCHubs
    ThisHub = h1
    MaxEdits = 2
    MaxStatusFailures = 1
    MaxWriteFailures = 1
    MaxTime = 2

SPECIFICATION Spec
PROPERTY RefinesIntent
\* Without fairness the bounded environment and the controller may stop.
CHECK_DEADLOCK FALSE
