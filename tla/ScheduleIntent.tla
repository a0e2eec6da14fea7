--------------------------- MODULE ScheduleIntent ---------------------------
(***************************************************************************)
(* What the BackupSchedule reconciler promises, without its work queue,    *)
(* event filter, status references and failure budgets (spec 4.1): while   *)
(* the cron parses, it installs the velero Schedules of the current spec   *)
(* when none are owned (all categories, or some of them when a Create      *)
(* fails), deletes owned Schedules that drifted from the spec and never    *)
(* edits one in place, and reports a phase justified by the Schedules'     *)
(* own phases.  Any status write may be lost, which leaves the reported    *)
(* phase as it was.  Velero validates the Schedules as in Schedule; the    *)
(* backups they produce play no part in what the reconciler decides.      *)
(***************************************************************************)
EXTENDS Naturals, Functions

CONSTANTS Categories, Crons, ValidCrons, TTLs

VARIABLES
    spec,      \* the BackupSchedule spec: [cron, ttl]
    engine,    \* the owned velero Schedules: category -> [cron, ttl, phase]
    phase      \* the reported BackupSchedule phase

ivars == <<spec, engine, phase>>

Specs == [cron : Crons, ttl : TTLs]

\* Some owned Schedule differs from the spec in its cron or its TTL.
Drifted == \E c \in DOMAIN engine : engine[c].cron # spec.cron \/ engine[c].ttl # spec.ttl

\* A phase the aggregation may report: a BackupCollision already reported
\* is left as it is (spec 4 step 4); otherwise Enabled when every Schedule
\* is, or the phase some Schedule's own phase shows.
Justified(p) ==
    IF phase = "BackupCollision" THEN p = "BackupCollision"
    ELSE \/ p = "Enabled" /\ \A c \in DOMAIN engine : engine[c].phase = "Enabled"
         \/ p = "Unknown" /\ \E c \in DOMAIN engine : engine[c].phase = "Unset"
         \/ p = "New" /\ \E c \in DOMAIN engine : engine[c].phase = "New"
         \/ p = "FailedValidation"
               /\ \E c \in DOMAIN engine : engine[c].phase = "FailedValidation"

\* An unparsable cron is reported.
ReportInvalid ==
    /\ spec.cron \notin ValidCrons
    /\ phase' \in {"FailedValidation", phase}
    /\ UNCHANGED <<spec, engine>>

\* With none owned, the Schedules of the current spec are installed for
\* the categories S, with the spec's TTL or the template's default of 0.
Install ==
    /\ spec.cron \in ValidCrons
    /\ DOMAIN engine = {}
    /\ \E S \in SUBSET Categories, t \in {spec.ttl, 0} :
          /\ engine' = [c \in S |-> [cron |-> spec.cron, ttl |-> t, phase |-> "Unset"]]
          /\ phase' \in {IF S = Categories THEN "New" ELSE "Failed", phase}
    /\ UNCHANGED spec

\* Drifted Schedules are deleted, all of them or (when a Delete fails) all
\* but a remainder K; the phase is reset to New only when all are gone.
Retire ==
    /\ spec.cron \in ValidCrons
    /\ DOMAIN engine # {}
    /\ Drifted
    /\ \E K \in SUBSET DOMAIN engine :
          /\ engine' = Restrict(engine, K)
          /\ phase' \in IF K = {} THEN {"New", phase} ELSE {phase}
    /\ UNCHANGED spec

\* The phase of Schedules that match the spec is reported.
Report ==
    /\ spec.cron \in ValidCrons
    /\ DOMAIN engine # {}
    /\ ~Drifted
    /\ \E p \in {"New", "Unknown", "FailedValidation", "Enabled", "BackupCollision"} :
          phase' \in {p, phase} /\ Justified(p)
    /\ UNCHANGED <<spec, engine>>

\* The environment: the user and Velero.
Edit ==
    /\ \E s \in Specs \ {spec} : spec' = s
    /\ UNCHANGED <<engine, phase>>

Validate(c) ==
    /\ c \in DOMAIN engine
    /\ engine[c].phase \in {"Unset", "New"}
    /\ \E p \in {"Enabled", "FailedValidation"} : engine' = [engine EXCEPT ![c].phase = p]
    /\ UNCHANGED <<spec, phase>>

IInit ==
    /\ spec \in Specs
    /\ engine = Restrict(<<>>, {})
    /\ phase = "Unset"

INext ==
    \/ ReportInvalid \/ Install \/ Retire \/ Report
    \/ Edit
    \/ \E c \in Categories : Validate(c)

ISpec == IInit /\ [][INext]_ivars

=============================================================================
