----------------------- MODULE ScheduleRefinementProofs -----------------------
(***************************************************************************)
(* The BackupSchedule reconciler implements ScheduleIntent, for every      *)
(* value of the constants satisfying ScheduleAssumption.                   *)
(***************************************************************************)
EXTENDS ScheduleProofs

USE ScheduleAssumption

-----------------------------------------------------------------------------
(* Status writes. *)

\* A status write leaves the phase as it was or writes the given one.
LEMMA WriteStatusPhase ==
    ASSUME NEW ph, NEW refs, NEW rq, WriteStatus(ph, refs, rq)
    PROVE  phase' \in {ph, phase}
BY DEF WriteStatus

-----------------------------------------------------------------------------
(* The refinement: every step of the reconciler is a step of the intent. *)

\* The intent's operators from the standard modules are the model's own.
LEMMA IntentRestrict ==
    ASSUME NEW f, NEW S
    PROVE  Intent!Restrict(f, S) = Restrict(f, S)
BY DEF Intent!Restrict, Restrict

\* isScheduleSpecUpdated is the intent's Drifted.
LEMMA IntentDrifted ==
    Intent!Drifted <=> IsScheduleSpecUpdated(sched, spec)
BY DEF Intent!Drifted, IsScheduleSpecUpdated

LEMMA RefInit ==
    ASSUME Init
    PROVE  Intent!IInit
BY IntentRestrict DEF Init, Intent!IInit, Intent!Specs, ScheduleSpecs

LEMMA RefInvalid ==
    ASSUME ReconcileInvalid, UNCHANGED envVars
    PROVE  Intent!ReportInvalid
BY WriteStatusPhase DEF ReconcileInvalid, Intent!ReportInvalid, CronValid, envVars

\* The TTL initVeleroSchedules writes is the spec's or the template's zero.
LEMMA TemplateTTLChoice ==
    ASSUME NEW t
    PROVE  TemplateTTL(t) \in {t, 0}
BY DEF TemplateTTL

LEMMA RefInstall ==
    ASSUME ReconcileInit, UNCHANGED envVars
    PROVE  Intent!Install
<1> DEFINE t == TemplateTTL(spec.ttl)
           E(S) == [c \in S |-> [cron |-> spec.cron, ttl |-> t, phase |-> "Unset"]]
<1>1. t \in {spec.ttl, 0}
  BY TemplateTTLChoice
<1>2. \A S : [c \in S |-> NewSchedule(spec)] = E(S)
  BY DEF NewSchedule
<1>3. CronValid(spec.cron) /\ DOMAIN sched = {}
  BY DEF ReconcileInit, NoOwnedSchedules
<1>4. \E S \in SUBSET Categories :
         sched' = E(S) /\ phase' \in {IF S = Categories THEN "New" ELSE "Failed", phase}
  <2>1. CASE /\ sched' = [c \in Categories |-> NewSchedule(spec)]
             /\ WriteStatus("New", statusRefs \cup Categories, TRUE)
    BY <2>1, <1>2, WriteStatusPhase
  <2>2. CASE \E created \in (SUBSET Categories) \ {Categories} :
                /\ sched' = [c \in created |-> NewSchedule(spec)]
                /\ WriteStatus("Failed", statusRefs \cup created, TRUE)
    <3>1. PICK created \in (SUBSET Categories) \ {Categories} :
                /\ sched' = [c \in created |-> NewSchedule(spec)]
                /\ WriteStatus("Failed", statusRefs \cup created, TRUE)
      BY <2>2
    <3>2. created # Categories /\ phase' \in {"Failed", phase}
      BY <3>1, WriteStatusPhase
    <3>3. QED
      BY <3>1, <3>2, <1>2
  <2>3. QED
    BY <2>1, <2>2 DEF ReconcileInit
<1>5. QED
  BY <1>1, <1>3, <1>4 DEF Intent!Install, CronValid, envVars

LEMMA RefDrift ==
    ASSUME ReconcileDrift, UNCHANGED envVars
    PROVE  Intent!Retire
<1>1. CronValid(spec.cron) /\ DOMAIN sched # {} /\ Intent!Drifted
  BY IntentDrifted DEF ReconcileDrift
<1>2. \E K \in SUBSET DOMAIN sched :
         sched' = Intent!Restrict(sched, K) /\ phase' \in IF K = {} THEN {"New", phase} ELSE {phase}
  <2>1. CASE sched' = Restrict(sched, {}) /\ WriteStatus("New", {}, TRUE)
    BY <2>1, WriteStatusPhase, IntentRestrict
  <2>2. CASE /\ \E kept \in (SUBSET DOMAIN sched) \ {{}} : sched' = Restrict(sched, kept)
             /\ UNCHANGED phase
    BY <2>2, IntentRestrict
  <2>3. QED
    BY <2>1, <2>2 DEF ReconcileDrift
<1>3. QED
  BY <1>1, <1>2 DEF Intent!Retire, CronValid, envVars


\* Every phase setSchedulePhase may write, whichever Schedule the cache
\* lists first, is one the intent justifies.
LEMMA AggregateJustified ==
    ASSUME TypeOK, DOMAIN sched # {}, NEW ph \in SetSchedulePhase(phase, sched)
    PROVE  /\ ph \in {"New", "Unknown", "FailedValidation", "Enabled", "BackupCollision"}
           /\ Intent!Justified(ph)
<1>1. CASE phase = "BackupCollision"
  <2>1. ph = "BackupCollision"
    BY <1>1 DEF SetSchedulePhase
  <2>2. QED
    BY <1>1, <2>1 DEF Intent!Justified
<1>2. CASE phase # "BackupCollision"
  <2> DEFINE notEnabled == {c \in DOMAIN sched : sched[c].phase # "Enabled"}
  <2>1. Intent!Justified(ph) <=>
          \/ ph = "Enabled" /\ \A c \in DOMAIN sched : sched[c].phase = "Enabled"
          \/ ph = "Unknown" /\ \E c \in DOMAIN sched : sched[c].phase = "Unset"
          \/ ph = "New" /\ \E c \in DOMAIN sched : sched[c].phase = "New"
          \/ ph = "FailedValidation"
                /\ \E c \in DOMAIN sched : sched[c].phase = "FailedValidation"
    BY <1>2 DEF Intent!Justified
  <2>2. ph \in IF notEnabled = {} THEN {"Enabled"}
               ELSE {ChildPhase(sched[c].phase) : c \in notEnabled}
    BY <1>2 DEF SetSchedulePhase
  <2>3. CASE notEnabled = {}
    BY <2>1, <2>2, <2>3
  <2>4. CASE notEnabled # {}
    <3>1. PICK c \in notEnabled : ph = ChildPhase(sched[c].phase)
      BY <2>2, <2>4
    <3>2. sched[c].phase \in {"Unset", "New", "FailedValidation"}
      BY <3>1 DEF TypeOK, VeleroSchedule, VeleroPhases
    <3>3. QED
      BY <2>1, <3>1, <3>2 DEF ChildPhase
  <2>5. QED
    BY <2>3, <2>4
<1>3. QED
  BY <1>1, <1>2

LEMMA RefAggregate ==
    ASSUME TypeOK, ReconcileAggregate, UNCHANGED envVars
    PROVE  Intent!Report
<1>1. PICK ph \in SetSchedulePhase(phase, sched) :
             WriteStatus(ph, statusRefs \cup DOMAIN sched, TRUE)
  BY DEF ReconcileAggregate
<1>2. phase' \in {ph, phase}
  BY <1>1, WriteStatusPhase
<1>3. DOMAIN sched # {} /\ CronValid(spec.cron) /\ ~Intent!Drifted /\ UNCHANGED sched
  BY IntentDrifted DEF ReconcileAggregate
<1>4. QED
  BY <1>1, <1>2, <1>3, AggregateJustified DEF Intent!Report, CronValid, envVars

LEMMA RefEdit ==
    ASSUME UserEditSpec
    PROVE  Intent!Edit
BY DEF UserEditSpec, Intent!Edit, Intent!Specs, ScheduleSpecs

LEMMA RefValidate ==
    ASSUME NEW c \in Categories, VeleroValidate(c)
    PROVE  Intent!Validate(c)
BY DEF VeleroValidate, Intent!Validate

\* Backups and their deletion change nothing the intent sees.
LEMMA RefBackups ==
    ASSUME \/ VeleroBackup \/ OtherHubBackup
           \/ \E b \in backups : BackupDeletion(b)
    PROVE  UNCHANGED Intent!ivars
BY DEF VeleroBackup, OtherHubBackup, BackupDeletion, ctrlVars, Intent!ivars

\* Every step of the reconciler model is a step of the intent or leaves
\* its variables alone.
LEMMA RefStep ==
    ASSUME TypeOK, [Next]_vars
    PROVE  [Intent!INext]_Intent!ivars
<1>1. CASE Reconcile
  <2>1. UNCHANGED envVars
    BY <1>1 DEF Reconcile
  <2>2. CASE ReconcileInvalid
    BY <2>1, <2>2, RefInvalid DEF Intent!INext
  <2>3. CASE ReconcileInit
    BY <2>1, <2>3, RefInstall DEF Intent!INext
  <2>4. CASE ReconcileDrift
    BY <2>1, <2>4, RefDrift DEF Intent!INext
  <2>5. CASE ReconcileAggregate
    BY <2>1, <2>5, RefAggregate DEF Intent!INext
  <2>6. QED
    BY <1>1, <2>2, <2>3, <2>4, <2>5 DEF Reconcile
<1>2. CASE UserEditSpec
  BY <1>2, RefEdit DEF Intent!INext
<1>3. CASE \E c \in Categories : VeleroValidate(c)
  BY <1>3, RefValidate DEF Intent!INext
<1>4. CASE VeleroBackup \/ OtherHubBackup \/ \E b \in backups : BackupDeletion(b)
  BY <1>4, RefBackups
<1>5. CASE UNCHANGED vars
  BY <1>5 DEF vars, Intent!ivars
<1>6. QED
  BY <1>1, <1>2, <1>3, <1>4, <1>5 DEF Next

\* The reconciler implements ScheduleIntent under the mapping that hides
\* the work queue, the edit count, the status references, the failure
\* budgets and the backups, for all constants: it installs Schedules only
\* while none is owned, deletes only drifted ones, never edits one in
\* place, and writes only phases the Schedules' own phases justify.
THEOREM ScheduleRefinement == Spec => RefinesIntent
<1>1. Init => Intent!IInit
  BY RefInit
<1>2. TypeOK /\ [Next]_vars => [Intent!INext]_Intent!ivars
  BY RefStep
<1>3. QED
  BY <1>1, <1>2, TypeCorrect, PTL DEF Spec, RefinesIntent, Intent!ISpec

=============================================================================
