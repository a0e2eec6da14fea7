--------------------------- MODULE ScheduleProofs ---------------------------
(***************************************************************************)
(* Proofs about the BackupSchedule reconciler model, for every value of    *)
(* the constants satisfying ScheduleAssumption.                            *)
(***************************************************************************)
EXTENDS Schedule, TLAPS

USE ScheduleAssumption

-----------------------------------------------------------------------------
(* Type correctness. *)

\* A status write keeps the status variables and the failure count typed.
LEMMA WriteStatusTyped ==
    ASSUME TypeOK,
           NEW ph \in SchedulePhases, NEW refs \in SUBSET Categories,
           NEW rq \in BOOLEAN,
           WriteStatus(ph, refs, rq)
    PROVE  /\ phase' \in SchedulePhases
           /\ statusRefs' \in SUBSET Categories
           /\ queued' \in BOOLEAN
           /\ statusFailures' \in 0..MaxStatusFailures
<1>1. CASE /\ phase' = ph
           /\ statusRefs' = refs
           /\ queued' = rq
           /\ UNCHANGED statusFailures
  BY <1>1 DEF TypeOK
<1>2. CASE /\ statusFailures < MaxStatusFailures
           /\ statusFailures' = statusFailures + 1
           /\ queued' = TRUE
           /\ UNCHANGED <<phase, statusRefs>>
  BY <1>2 DEF TypeOK
<1>3. QED
  BY <1>1, <1>2 DEF WriteStatus

\* The velero Schedule created from a spec is a velero Schedule.
LEMMA NewScheduleTyped ==
    ASSUME NEW s \in ScheduleSpecs, CronValid(s.cron)
    PROVE  NewSchedule(s) \in VeleroSchedule
<1>1. TemplateTTL(s.ttl) \in TTLs \cup {0}
  BY DEF TemplateTTL, ScheduleSpecs
<1>2. QED
  BY <1>1 DEF NewSchedule, VeleroSchedule, CronValid, VeleroPhases

\* Restricting the owned schedules to some of their categories keeps them typed.
LEMMA RestrictTyped ==
    ASSUME TypeOK, NEW K \in SUBSET DOMAIN sched
    PROVE  /\ DOMAIN Restrict(sched, K) \subseteq Categories
           /\ Restrict(sched, K) \in [DOMAIN Restrict(sched, K) -> VeleroSchedule]
BY DEF Restrict, TypeOK

THEOREM TypeCorrect == Spec => []TypeOK
<1>1. Init => TypeOK
  <2> SUFFICES ASSUME Init PROVE TypeOK
    OBVIOUS
  <2>1. sched = [c \in {} |-> <<>>[c]]
    BY DEF Init, Restrict
  <2>2. DOMAIN sched = {} /\ sched \in [DOMAIN sched -> VeleroSchedule]
    BY <2>1
  <2>3. "Unset" \in SchedulePhases
    BY DEF SchedulePhases
  <2>4. QED
    BY <2>2, <2>3 DEF Init, TypeOK
<1>2. TypeOK /\ [Next]_vars => TypeOK'
  <2> SUFFICES ASSUME TypeOK, [Next]_vars PROVE TypeOK'
    OBVIOUS
  <2>1. CASE ReconcileInvalid /\ UNCHANGED envVars
    <3>1. "FailedValidation" \in SchedulePhases
      BY DEF SchedulePhases
    <3>2. QED
      BY <2>1, <3>1, WriteStatusTyped DEF ReconcileInvalid, TypeOK, envVars
  <2>2. CASE ReconcileInit /\ UNCHANGED envVars
    <3>1. CronValid(spec.cron) /\ spec \in ScheduleSpecs
      BY <2>2 DEF ReconcileInit, TypeOK
    <3>2. NewSchedule(spec) \in VeleroSchedule
      BY <3>1, NewScheduleTyped
    <3>3. {"New", "Failed"} \subseteq SchedulePhases
      BY DEF SchedulePhases
    <3>4. CASE /\ sched' = [c \in Categories |-> NewSchedule(spec)]
               /\ UNCHANGED writeFailures
               /\ WriteStatus("New", statusRefs \cup Categories, TRUE)
      BY <2>2, <3>2, <3>3, <3>4, WriteStatusTyped DEF TypeOK, envVars
    <3>5. CASE /\ writeFailures < MaxWriteFailures
               /\ writeFailures' = writeFailures + 1
               /\ \E created \in (SUBSET Categories) \ {Categories} :
                     /\ sched' = [c \in created |-> NewSchedule(spec)]
                     /\ WriteStatus("Failed", statusRefs \cup created, TRUE)
      <4>1. PICK created \in (SUBSET Categories) \ {Categories} :
                     /\ sched' = [c \in created |-> NewSchedule(spec)]
                     /\ WriteStatus("Failed", statusRefs \cup created, TRUE)
        BY <3>5
      <4>2. writeFailures' \in 0..MaxWriteFailures
        BY <3>5 DEF TypeOK
      <4>3. QED
        BY <2>2, <3>2, <3>3, <4>1, <4>2, WriteStatusTyped DEF TypeOK, envVars
    <3>6. QED
      BY <2>2, <3>4, <3>5 DEF ReconcileInit
  <2>3. CASE ReconcileDrift /\ UNCHANGED envVars
    <3>1. "New" \in SchedulePhases
      BY DEF SchedulePhases
    <3>2. CASE /\ sched' = Restrict(sched, {})
               /\ UNCHANGED writeFailures
               /\ WriteStatus("New", {}, TRUE)
      BY <2>3, <3>1, <3>2, RestrictTyped, WriteStatusTyped DEF TypeOK, envVars
    <3>3. CASE /\ writeFailures < MaxWriteFailures
               /\ writeFailures' = writeFailures + 1
               /\ \E kept \in (SUBSET DOMAIN sched) \ {{}} :
                     sched' = Restrict(sched, kept)
               /\ queued' = TRUE
               /\ UNCHANGED <<phase, statusRefs, statusFailures>>
      <4>1. PICK kept \in (SUBSET DOMAIN sched) \ {{}} : sched' = Restrict(sched, kept)
        BY <3>3
      <4>2. QED
        BY <2>3, <3>3, <4>1, RestrictTyped DEF TypeOK, envVars
    <3>4. QED
      BY <2>3, <3>2, <3>3 DEF ReconcileDrift
  <2>4. CASE ReconcileAggregate /\ UNCHANGED envVars
    <3>1. SetSchedulePhase(phase, sched) \subseteq SchedulePhases
      <4>1. \A vp \in VeleroPhases : ChildPhase(vp) \in SchedulePhases
        BY DEF ChildPhase, SchedulePhases, VeleroPhases
      <4>2. \A c \in DOMAIN sched : sched[c].phase \in VeleroPhases
        BY DEF TypeOK, VeleroSchedule
      <4>3. QED
        BY <4>1, <4>2 DEF SetSchedulePhase, SchedulePhases, TypeOK
    <3>2. PICK ph \in SetSchedulePhase(phase, sched) :
                 WriteStatus(ph, statusRefs \cup DOMAIN sched, TRUE)
      BY <2>4 DEF ReconcileAggregate
    <3>3. QED
      BY <2>4, <3>1, <3>2, WriteStatusTyped DEF ReconcileAggregate, TypeOK, envVars
  <2>5. CASE UserEditSpec
    BY <2>5 DEF UserEditSpec, TypeOK, UpdateTriggersReconcile
  <2>6. ASSUME NEW c \in Categories, VeleroValidate(c)
        PROVE  TypeOK'
    <3>1. PICK p \in {"Enabled", "FailedValidation"} :
                 sched' = [sched EXCEPT ![c].phase = p]
      BY <2>6 DEF VeleroValidate
    <3>2. p \in VeleroPhases
      BY DEF VeleroPhases
    <3>3. QED
      BY <2>6, <3>1, <3>2 DEF VeleroValidate, TypeOK, VeleroSchedule
  <2>7. CASE VeleroBackup
    <3>1. [time |-> clock + 1, hub |-> ThisHub, deleting |-> FALSE] \in Backup
      BY <2>7 DEF VeleroBackup, TypeOK, Backup
    <3>2. UNCHANGED <<spec, edits, phase, statusRefs, sched, queued,
                       statusFailures, writeFailures>>
      BY <2>7 DEF VeleroBackup, ctrlVars
    <3>3. clock' = clock + 1 /\ clock < MaxTime
      BY <2>7 DEF VeleroBackup
    <3>4. backups' \in SUBSET Backup
      BY <2>7, <3>1 DEF VeleroBackup, TypeOK
    <3>5. QED
      BY <3>2, <3>3, <3>4 DEF TypeOK
  <2>8. CASE OtherHubBackup
    <3>1. PICK h \in Hubs \ {ThisHub} :
                 backups' = backups \cup {[time |-> clock + 1, hub |-> h, deleting |-> FALSE]}
      BY <2>8 DEF OtherHubBackup
    <3>2. [time |-> clock + 1, hub |-> h, deleting |-> FALSE] \in Backup
      BY <2>8 DEF OtherHubBackup, TypeOK, Backup
    <3>3. UNCHANGED <<spec, edits, phase, statusRefs, sched, queued,
                       statusFailures, writeFailures>>
      BY <2>8 DEF OtherHubBackup, ctrlVars
    <3>4. clock' = clock + 1 /\ clock < MaxTime
      BY <2>8 DEF OtherHubBackup
    <3>5. backups' \in SUBSET Backup
      BY <3>1, <3>2 DEF TypeOK
    <3>6. QED
      BY <3>3, <3>4, <3>5 DEF TypeOK
  <2>9. ASSUME NEW b \in backups, BackupDeletion(b)
        PROVE  TypeOK'
    BY <2>9 DEF BackupDeletion, TypeOK, Backup, ctrlVars
  <2>10. CASE UNCHANGED vars
    BY <2>10 DEF vars, TypeOK
  <2>11. QED
    BY <2>1, <2>2, <2>3, <2>4, <2>5, <2>6, <2>7, <2>8, <2>9, <2>10
       DEF Next, Reconcile
<1>3. QED
  BY <1>1, <1>2, PTL DEF Spec

-----------------------------------------------------------------------------
(* No lost wake-up. *)

\* The BackupSchedule leaves the work queue only through the FailedValidation
\* branch; the spec edits that could make that status stale re-enqueue it.
THEOREM NoLostWakeupInvariant == Spec => []NoLostWakeup
<1> DEFINE IInv == TypeOK /\ NoLostWakeup
<1>1. Init => IInv
  BY TypeCorrect DEF Init, NoLostWakeup, IInv, TypeOK, Restrict, SchedulePhases
<1>2. IInv /\ [Next]_vars => NoLostWakeup'
  <2> SUFFICES ASSUME TypeOK, NoLostWakeup, [Next]_vars PROVE NoLostWakeup'
    BY DEF IInv
  <2>1. CASE ReconcileInvalid /\ UNCHANGED envVars
    <3>1. CASE /\ phase' = "FailedValidation"
               /\ statusRefs' = statusRefs
               /\ queued' = FALSE
               /\ UNCHANGED statusFailures
      BY <2>1, <3>1 DEF ReconcileInvalid, NoLostWakeup, envVars
    <3>2. CASE queued' = TRUE
      BY <3>2 DEF NoLostWakeup
    <3>3. QED
      BY <2>1, <3>1, <3>2 DEF ReconcileInvalid, WriteStatus
  <2>2. CASE (ReconcileInit \/ ReconcileDrift \/ ReconcileAggregate)
             /\ UNCHANGED envVars
    <3>1. queued' = TRUE
      BY <2>2 DEF ReconcileInit, ReconcileDrift, ReconcileAggregate, WriteStatus
    <3>2. QED
      BY <3>1 DEF NoLostWakeup
  <2>3. CASE UserEditSpec
    <3>1. PICK s \in ScheduleSpecs \ {spec} :
                 /\ spec' = s
                 /\ queued' = (queued \/ UpdateTriggersReconcile(spec, s))
      BY <2>3 DEF UserEditSpec
    <3>2. queued' = TRUE
      BY <3>1 DEF UpdateTriggersReconcile
    <3>3. QED
      BY <3>2 DEF NoLostWakeup
  <2>4. CASE \/ \E c \in Categories : VeleroValidate(c)
             \/ VeleroBackup \/ OtherHubBackup
             \/ \E b \in backups : BackupDeletion(b)
    <3>1. UNCHANGED <<spec, queued, phase>>
      BY <2>4 DEF VeleroValidate, VeleroBackup, OtherHubBackup, BackupDeletion, ctrlVars
    <3>2. QED
      BY <3>1 DEF NoLostWakeup, CronValid
  <2>5. CASE UNCHANGED vars
    BY <2>5 DEF vars, NoLostWakeup, CronValid
  <2>6. QED
    BY <2>1, <2>2, <2>3, <2>4, <2>5 DEF Next, Reconcile
<1>3. QED
  BY <1>1, <1>2, TypeCorrect, PTL DEF Spec, IInv

=============================================================================
