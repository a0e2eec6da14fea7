------------------------------ MODULE Schedule ------------------------------
(***************************************************************************)
(* The BackupSchedule reconciler (src/controllers/schedule_controller.go,  *)
(* src/controllers/schedule.go) together with the parts of its environment *)
(* it reacts to: the user editing the BackupSchedule spec, the Velero      *)
(* engine validating the owned velero Schedules and producing backups, and *)
(* another hub writing backups to the same storage location.               *)
(*                                                                         *)
(* One Reconcile step is one call of BackupScheduleReconciler.Reconcile;   *)
(* the upstream work queue serialises calls for the one BackupSchedule, so *)
(* a call is atomic with respect to other calls.  Its API writes (Create,  *)
(* Delete, Status().Update) may fail: a failed Create or Delete leaves the *)
(* writes made before it in place, a failed status update loses the        *)
(* in-memory status.  Both kinds of failure are bounded by named budgets.  *)
(***************************************************************************)
EXTENDS Naturals, Functions

CONSTANTS
    Categories,        \* the backup categories (resourceTypes)
    ResourcesCat,      \* the "resources" category, whose backups the collision check reads
    Crons,             \* cron expressions a user may write
    ValidCrons,        \* those cron.ParseStandard accepts
    TTLs,              \* TTLs (in milliseconds) a user may write
    Hubs,              \* hub identities writing to the storage location
    ThisHub,           \* the identity of the hub running this controller
    MaxEdits,          \* bound on user edits of the spec
    MaxStatusFailures, \* bound on failed Status().Update calls
    MaxWriteFailures,  \* bound on failed Create/Delete calls of velero Schedules
    MaxTime            \* bound on backup start times (seconds)

ASSUME ScheduleAssumption ==
    /\ ResourcesCat \in Categories
    /\ ValidCrons \subseteq Crons
    /\ TTLs \subseteq Nat
    /\ ThisHub \in Hubs
    /\ MaxEdits \in Nat
    /\ MaxStatusFailures \in Nat
    /\ MaxWriteFailures \in Nat
    /\ MaxTime \in Nat

VARIABLES
    spec,            \* BackupSchedule.Spec: [cron, ttl]
    edits,           \* number of user edits so far
    queued,          \* the BackupSchedule is in the work queue (event or requeue pending)
    phase,           \* BackupSchedule.Status.Phase
    statusRefs,      \* categories whose Status.VeleroScheduleX is set
    sched,           \* owned velero Schedules, a function from their categories
    backups,         \* velero Backups of the resources category in the storage location
    clock,           \* latest backup start time used so far
    statusFailures,  \* failed status updates so far
    writeFailures    \* failed Create/Delete calls so far

ctrlVars == <<phase, statusRefs, sched, queued, statusFailures, writeFailures>>
envVars == <<spec, edits, backups, clock>>
vars == <<spec, edits, queued, phase, statusRefs, sched, backups, clock,
          statusFailures, writeFailures>>

-----------------------------------------------------------------------------
(* Values. *)

\* Go's empty phase string, before any phase is written, is "Unset" here.
SchedulePhases ==
    {"Unset", "New", "FailedValidation", "Failed", "Unknown", "Enabled", "BackupCollision"}

VeleroPhases == {"Unset", "New", "Enabled", "FailedValidation"}

ScheduleSpecs == [cron : Crons, ttl : TTLs]

\* A velero Schedule as the properties tell it apart: its cron, its backup
\* template TTL and the phase Velero reported for it.
VeleroSchedule == [cron : ValidCrons, ttl : TTLs \cup {0}, phase : VeleroPhases]

Backup == [time : 1..MaxTime, hub : Hubs, deleting : BOOLEAN]

-----------------------------------------------------------------------------
(* Helpers translated from the code. *)

\* parseCronSchedule returns no error: the expression is non-empty and
\* cron.ParseStandard neither fails nor panics on it.
CronValid(c) == c \in ValidCrons

\* time.Duration.Truncate(time.Second) for a non-negative duration in ms.
Truncate(d) == d - (d % 1000)

\* Faulty variant: the template gets the truncated TTL.
TemplateTTLTruncated(ttl) == IF Truncate(ttl) # 0 THEN Truncate(ttl) ELSE 0

\* The TTL initVeleroSchedules puts in the template: the spec's TTL unless
\* it truncates to zero seconds, when the template keeps its zero TTL.
TemplateTTL(ttl) == IF Truncate(ttl) # 0 THEN ttl ELSE 0

\* The velero Schedule initVeleroSchedules creates for a category.
NewSchedule(s) == [cron |-> s.cron, ttl |-> TemplateTTL(s.ttl), phase |-> "Unset"]

\* Faulty variant: only the cron expression is compared.
IsScheduleCronUpdated(s, sp) == \E c \in DOMAIN s : s[c].cron # sp.cron

\* isScheduleSpecUpdated: some owned schedule has a different TTL or cron
\* (no validation schedule is ever created, so the TTL is always compared).
IsScheduleSpecUpdated(s, sp) ==
    \E c \in DOMAIN s : s[c].ttl # sp.ttl \/ s[c].cron # sp.cron

\* Faulty variant: a schedule with no phase yet is taken as enabled.
ChildPhaseUnsetEnabled(vp) ==
    CASE vp = "New"   -> "New"
      [] vp = "FailedValidation" -> "FailedValidation"
      [] OTHER        -> "Enabled"

\* The status phase setSchedulePhase writes for a velero Schedule that is
\* not Enabled.
ChildPhase(vp) ==
    CASE vp = "Unset" -> "Unknown"
      [] vp = "New"   -> "New"
      [] OTHER        -> "FailedValidation"

\* setSchedulePhase: the phases it may write.  It returns at the first
\* schedule of the list that is not Enabled; the cache lists them in no
\* fixed order, so any of them may come first.
SetSchedulePhase(ph, s) ==
    IF ph = "BackupCollision" THEN {ph}
    ELSE IF DOMAIN s = {} THEN {"New"}
    ELSE LET notEnabled == {c \in DOMAIN s : s[c].phase # "Enabled"}
         IN IF notEnabled = {} THEN {"Enabled"}
            ELSE {ChildPhase(s[c].phase) : c \in notEnabled}

\* The backups scheduleOwnsLatestStorageBackups considers.
LiveBackups == {b \in backups : ~b.deleting}

\* scheduleOwnsLatestStorageBackups: the latest live backup (by start time,
\* unique since backup names embed their start second) was produced by this
\* hub, or there is none.  No code under src/ calls it: Reconcile never runs
\* the collision check, and only CollisionReported uses this definition.
ScheduleOwnsLatestStorageBackups ==
    \/ LiveBackups = {}
    \/ \E b \in LiveBackups :
          /\ \A o \in LiveBackups : o.time <= b.time
          /\ b.hub = ThisHub

\* Faulty variant: the event filter drops every update event.
UpdateIgnored(old, new) == FALSE

\* The event filter: an update event enqueues the BackupSchedule only when
\* metadata.generation changed, i.e. when the spec changed.
UpdateTriggersReconcile(old, new) == old # new

\* r.Client.Status().Update at the end of a Reconcile branch, and the
\* result it returns: on success the new status is stored and the request is
\* requeued iff the branch asks for it; on failure the status is lost and
\* the error requeues the request.
WriteStatus(ph, refs, requeue) ==
    \/ /\ phase' = ph
       /\ statusRefs' = refs
       /\ queued' = requeue
       /\ UNCHANGED statusFailures
    \/ /\ statusFailures < MaxStatusFailures
       /\ statusFailures' = statusFailures + 1
       /\ queued' = TRUE
       /\ UNCHANGED <<phase, statusRefs>>

-----------------------------------------------------------------------------
(* The branches of Reconcile, in the order the code tries them. *)

\* len(veleroScheduleList.Items) == 0: the BackupSchedule owns no velero
\* Schedule.
NoOwnedSchedules == DOMAIN sched = {}

\* The cron expression does not parse: FailedValidation, no requeue.
ReconcileInvalid ==
    /\ ~CronValid(spec.cron)
    /\ WriteStatus("FailedValidation", statusRefs, FALSE)
    /\ UNCHANGED <<sched, writeFailures>>

\* No owned velero Schedules: create one per category.  initVeleroSchedules
\* stops at the first failing Create, leaving the ones created before it
\* (the map is iterated in random order, so any proper subset).
ReconcileInit ==
    /\ CronValid(spec.cron)
    /\ NoOwnedSchedules
    /\ \/ /\ sched' = [c \in Categories |-> NewSchedule(spec)]
          /\ UNCHANGED writeFailures
          /\ WriteStatus("New", statusRefs \cup Categories, TRUE)
       \/ /\ writeFailures < MaxWriteFailures
          /\ writeFailures' = writeFailures + 1
          /\ \E created \in (SUBSET Categories) \ {Categories} :
                /\ sched' = [c \in created |-> NewSchedule(spec)]
                /\ WriteStatus("Failed", statusRefs \cup created, TRUE)

\* The owned schedules drifted from the spec: delete them all, reset the
\* phase to New and clear the status references.  deleteVeleroSchedules
\* stops at the first failing Delete and returns its error before any
\* status update.
ReconcileDrift ==
    /\ CronValid(spec.cron)
    /\ DOMAIN sched # {}
    /\ IsScheduleSpecUpdated(sched, spec)
    /\ \/ /\ sched' = Restrict(sched, {})
          /\ UNCHANGED writeFailures
          /\ WriteStatus("New", {}, TRUE)
       \/ /\ writeFailures < MaxWriteFailures
          /\ writeFailures' = writeFailures + 1
          /\ \E kept \in (SUBSET DOMAIN sched) \ {{}} :
                sched' = Restrict(sched, kept)
          /\ queued' = TRUE
          /\ UNCHANGED <<phase, statusRefs, statusFailures>>

\* The owned schedules match the spec: copy them into the status, compute
\* the phase with setSchedulePhase, run the retention sweep (not modelled)
\* and save the status.  No collision check runs here.
ReconcileAggregate ==
    /\ CronValid(spec.cron)
    /\ DOMAIN sched # {}
    /\ ~IsScheduleSpecUpdated(sched, spec)
    /\ \E ph \in SetSchedulePhase(phase, sched) :
          WriteStatus(ph, statusRefs \cup DOMAIN sched, TRUE)
    /\ UNCHANGED <<sched, writeFailures>>

Reconcile ==
    /\ queued
    /\ \/ ReconcileInvalid
       \/ ReconcileInit
       \/ ReconcileDrift
       \/ ReconcileAggregate
    /\ UNCHANGED envVars

-----------------------------------------------------------------------------
(* The environment. *)

\* The user edits the spec; the changed generation enqueues a reconcile.
UserEditSpec ==
    /\ edits < MaxEdits
    /\ \E s \in ScheduleSpecs \ {spec} :
          /\ spec' = s
          /\ queued' = (queued \/ UpdateTriggersReconcile(spec, s))
    /\ edits' = edits + 1
    /\ UNCHANGED <<phase, statusRefs, sched, backups, clock,
                   statusFailures, writeFailures>>

\* Velero validates a new schedule.  Status-only updates do not change the
\* generation, so the event filter drops them: no reconcile is enqueued.
VeleroValidate(c) ==
    /\ c \in DOMAIN sched
    /\ sched[c].phase \in {"Unset", "New"}
    /\ \E p \in {"Enabled", "FailedValidation"} :
          sched' = [sched EXCEPT ![c].phase = p]
    /\ UNCHANGED <<spec, edits, queued, phase, statusRefs, backups, clock,
                   statusFailures, writeFailures>>

\* Velero runs the enabled resources schedule: a new backup by this hub.
VeleroBackup ==
    /\ ResourcesCat \in DOMAIN sched
    /\ sched[ResourcesCat].phase = "Enabled"
    /\ clock < MaxTime
    /\ clock' = clock + 1
    /\ backups' = backups \cup {[time |-> clock + 1, hub |-> ThisHub, deleting |-> FALSE]}
    /\ UNCHANGED <<spec, edits>>
    /\ UNCHANGED ctrlVars

\* Another hub writes a resources backup to the same storage location.
OtherHubBackup ==
    /\ clock < MaxTime
    /\ \E h \in Hubs \ {ThisHub} :
          backups' = backups \cup {[time |-> clock + 1, hub |-> h, deleting |-> FALSE]}
    /\ clock' = clock + 1
    /\ UNCHANGED <<spec, edits>>
    /\ UNCHANGED ctrlVars

\* A backup is being deleted (retention sweep or user).
BackupDeletion(b) ==
    /\ b \in backups
    /\ ~b.deleting
    /\ backups' = (backups \ {b}) \cup {[b EXCEPT !.deleting = TRUE]}
    /\ UNCHANGED <<spec, edits, clock>>
    /\ UNCHANGED ctrlVars

-----------------------------------------------------------------------------

Init ==
    /\ spec \in ScheduleSpecs
    /\ edits = 0
    /\ queued = TRUE
    /\ phase = "Unset"
    /\ statusRefs = {}
    /\ sched = Restrict(<<>>, {})
    /\ backups = {}
    /\ clock = 0
    /\ statusFailures = 0
    /\ writeFailures = 0

Next ==
    \/ Reconcile
    \/ UserEditSpec
    \/ \E c \in Categories : VeleroValidate(c)
    \/ VeleroBackup
    \/ OtherHubBackup
    \/ \E b \in backups : BackupDeletion(b)

\* The work queue runs every queued request eventually (every branch but
\* FailedValidation requeues); Velero's schedule controller processes every
\* new schedule eventually.
Fairness ==
    /\ WF_vars(Reconcile)
    /\ \A c \in Categories : WF_vars(VeleroValidate(c))

Spec == Init /\ [][Next]_vars

FairSpec == Spec /\ Fairness

-----------------------------------------------------------------------------
(* Properties. *)

TypeOK ==
    /\ spec \in ScheduleSpecs
    /\ edits \in 0..MaxEdits
    /\ queued \in BOOLEAN
    /\ phase \in SchedulePhases
    /\ statusRefs \in SUBSET Categories
    /\ DOMAIN sched \subseteq Categories
    /\ sched \in [DOMAIN sched -> VeleroSchedule]
    /\ backups \in SUBSET Backup
    /\ clock \in 0..MaxTime
    /\ statusFailures \in 0..MaxStatusFailures
    /\ writeFailures \in 0..MaxWriteFailures

\* No lost wake-up: whenever the BackupSchedule is out of the work queue,
\* the controller has reported FailedValidation for the spec as it is now.
\* A branch of Reconcile that returned without a requeue, or a spec edit the
\* event filter dropped, would leave the status stale for ever.
NoLostWakeup ==
    ~queued => (phase = "FailedValidation" /\ ~CronValid(spec.cron))

\* The engine state the controller converges to for the current spec: one
\* velero Schedule per category carrying the spec's cron and TTL, all of
\* them referenced by the status, and a phase that reports Velero's verdict
\* on them, or FailedValidation for an unparsable cron.
Settled ==
    \/ ~CronValid(spec.cron) /\ phase = "FailedValidation"
    \/ /\ CronValid(spec.cron)
       /\ DOMAIN sched = Categories
       /\ \A c \in Categories :
             /\ sched[c].cron = spec.cron
             /\ sched[c].ttl = spec.ttl
             /\ sched[c].phase \in {"Enabled", "FailedValidation"}
       /\ statusRefs = Categories
       /\ phase = IF \A c \in Categories : sched[c].phase = "Enabled"
                  THEN "Enabled" ELSE "FailedValidation"

\* Once the user, Velero and the other hub stop, Reconcile brings the engine
\* to the settled state for the current spec and keeps it there.
Converges == <>[]Settled

\* Spec 4.1: the owning loop runs the collision check, so when another
\* hub's backup stays the latest in the storage location while the cron is
\* valid, the BackupSchedule eventually reports BackupCollision.  The
\* aggregate branch of Reconcile calls setSchedulePhase only.
CollisionReported ==
    <>[](~ScheduleOwnsLatestStorageBackups /\ CronValid(spec.cron))
       => <>(phase = "BackupCollision")

-----------------------------------------------------------------------------
(* Refinement of ScheduleIntent: the owned velero Schedules are the       *)
(* engine; the work queue, the status references, the edit count, the     *)
(* failure budgets, the backups and the clock are hidden.                  *)

Intent == INSTANCE ScheduleIntent WITH engine <- sched

\* The reconciler implements the intent: with its work queue, event filter,
\* partial Creates and Deletes and lost status writes it only installs the
\* current spec's Schedules when none are owned, deletes only drifted ones
\* and never edits one in place, and reports only phases the Schedules'
\* own phases justify, whatever order the cache lists them in.
RefinesIntent == Intent!ISpec

=============================================================================
