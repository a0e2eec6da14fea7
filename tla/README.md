# TLA+ verification of the cluster-backup-operator controllers

This directory models the two reconcilers of the cluster backup operator
(`src/controllers/`) in TLA+. The models are checked with TLC on small
instances, and the main invariants are proved with TLAPS.

## The system

| Part | Source | What it does |
|---|---|---|
| BackupSchedule reconciler | `schedule_controller.go`, `schedule.go` | Validates the cron, then takes one of three branches. If the BackupSchedule owns no velero Schedules, it creates one per backup category. If the owned schedules differ from the spec, it deletes them all. Otherwise it copies them into the status, computes the phase with `setSchedulePhase` and runs the retention sweep. It does not run the collision check: `scheduleOwnsLatestStorageBackups` (`schedule.go:206`) has no caller under `src/`. Each branch ends with a status update. Every branch except FailedValidation requeues after 60 minutes. |
| Restore reconciler | `restore_controller.go` | Chooses a velero Backup for each category (`getVeleroBackupName`, `mostRecentWithLessErrors`). Creates the velero Restores once, then reads the phases Velero reports for them into the `RestoreStarted` and `RestoreComplete` conditions. |
| Backup selection | `restore_controller.go:195-260` | Sorts the backups with `sort.Sort`, which is an insertion sort for short lists, using the start timestamp and the error count. Picks the first one. |
| Secret labelling | `schedule.go:251-408` | Labels the secrets and config maps before a backup. |
| Wiring | `schedule_controller.go:290-320`, `restore_controller.go:171-192` | The owner field indexes. The BackupSchedule controller's event filter drops updates that do not change the generation. The Restore controller has no filter, and its `Owns` watch on velero Restores wakes it up. |

How they interact:
- The user edits the BackupSchedule.
- Velero validates the owned schedules and produces backups.
- Another hub that writes to the same storage location can produce newer backups. The spec (4.1) says the collision check then reports BackupCollision; the code never runs that check (run schedule_collision_unreported).
- The restore side reads the backups that the schedules produce, and Velero runs the velero Restores it creates.

## Modules

- `Schedule.tla` models the BackupSchedule reconciler and its environment.
  - **State:**
    - `spec` holds the cron and the TTL.
    - `queued` is true when the BackupSchedule is in the work queue.
    - `phase` and `statusRefs` hold the status.
    - `sched` is the set of owned velero Schedules, a function from category to cron, template TTL and Velero phase.
    - `backups` holds the resources-category backups in storage: start time, hub, and whether a deletion is in progress.
    - Counters bound the user edits and the failed API writes.
  - **Reconcile** is one call of `Reconcile`. The work queue serialises calls for one object, so a call is one atomic step. It is split into four branches, in code order:
    - `ReconcileInvalid`
    - `ReconcileInit`: `initVeleroSchedules`. A failing Create keeps any proper subset of the schedules, because Go iterates the map in random order.
    - `ReconcileDrift`: `deleteVeleroSchedules`. A failing Delete keeps a nonempty subset and returns before the status update.
    - `ReconcileAggregate`: `updateScheduleStatus`, then `setSchedulePhase` (the phases it may write, over every list order), then the status update.
  - `ScheduleOwnsLatestStorageBackups` translates the collision check. No action uses it, because no code calls it; only the property `CollisionReported` does.
  - Every branch ends in `WriteStatus`. That write either stores the status and the requeue decision, or fails: the status is lost and the error requeues the request.
  - **Environment:**
    - `UserEditSpec` is a user edit. The changed generation passes the event filter.
    - `VeleroValidate` is Velero setting a schedule to Enabled or FailedValidation. This is a status-only change, so the filter drops it.
    - `VeleroBackup` and `OtherHubBackup` produce backups.
    - `BackupDeletion` marks a backup as being deleted.
- `Restore.tla` models the Restore reconciler and Velero.
  - **State:**
    - `sel` is the spec's backup name per category: nil/empty (`Nil`), the sentinels `Latest` and `Skip`, or a backup name.
    - `store` holds the velero Backups, a function from name to errors and start timestamp (`Nil` before the backup starts). A backup name is `<<category, id>>`, because a name contains the schedule name of exactly one category.
    - `vrest` holds the owned velero Restores, keyed by the backup they restore (the restore name is `restore.Name-backup`), with the category they were created for and their Velero phase.
    - `statusNames` and `conds` are the status: the per-category restore names and the `RestoreStarted` and `RestoreComplete` conditions (status, reason, and the restore named in the message).
    - `queued` is true when the Restore is in the work queue. Counters bound the failed reads, Creates and status updates.
  - **Selection:** `ResolveBackupName` is `getVeleroBackupName`. A non-empty name goes to `Get`. A nil name lists, filters by category and sorts. `InsertionSort` is Go's insertion sort (what `sort.Sort` does on at most 6 elements) under `Less` (`mostRecentWithLessErrors.Less`, with `metav1.Time.Before` false on nil). The listing may come in any order (`SetToSeqs`).
  - **Reconcile** is one call, with two branches:
    - `InitVeleroRestores` runs when no velero Restore is owned (`NoOwnedRestores`). It loops over the categories in any map order (`order`): it skips a category whose name does not resolve or whose read fails, and the first failing Create (transient or AlreadyExists, when an earlier iteration created the restore of the same backup) returns before the status update.
    - The loop is written in closed form, by what it computes: `CreateFails(o, pick, fc, i)` says iteration `i` fails, `CreatedAt` are the iterations that create a velero Restore (they resolve a name and no iteration up to them fails), and `LoopRestores`, `LoopNames` and `LoopStarted` are the velero Restores, the status names and `RestoreStarted` after the loop. The closed form is what the provers can reason about. `MCRestore.tla` keeps the loop as it is written, a `FoldLeft` over the order (`LoopByIteration`), and `ASSUME LoopClosedForm` checks that both agree on every order, every resolution and every failing category of the TLC instance; TLC evaluates it at the start of every Restore run.
    - `UpdateConditions` keeps the last writer of each condition type, in any list order.
    - Each branch ends with `WriteStatus`. A successful update enqueues the Restore again only if it changed the object (this controller has no event filter).
  - **Environment:** `NewBackup` and `StartBackup` (while no velero Restore exists; afterwards Reconcile never reads the backups again), and `VeleroRestoreProgress`, whose change of an owned object enqueues the Restore (`Owns`).
  - `isVeleroRestoreFinished` and `isVeleroRestoreRunning` are not under src/. `Finished` and `Running` follow the spec and the tests in `restore_test.go`: Completed, Failed, PartiallyFailed and FailedValidation are finished; New and InProgress are running; a restore with no phase is neither.
- `RestoreIntent.tla` is the abstract specification of what the Restore reconciler promises:
  - it starts restores once, for some categories, each of an allowed backup (the named one, or one with the fewest errors);
  - a restore is never replaced and eventually finishes;
  - completion is reported only after a restore outside the managed-clusters category has finished.
  `Restore.tla` instantiates it with the refinement mapping `RestoredFor`, and states `RefinesIntent`. TLC checks it, and `RestoreRefinementProofs.tla` proves it.
- `MCRestore.tla` is the TLC instance: the three categories, one backup name each for managed clusters and credentials, and two for resources.
- `RestoreIntentProofs.tla` proves `IntentCompleteJustified`.
- `RestoreProofs.tla` proves the type and `RestoreCompleteJustified` for `Restore`.
- `RestoreRefinementProofs.tla` proves that `Restore` refines `RestoreIntent`, given `SortPicksFewest`.
- `ScheduleIntent.tla` is the abstract specification of what the BackupSchedule reconciler promises, with no work queue, edit count, status references or failure budgets:
  - while the cron parses, it installs the Schedules of the current spec only when none is owned (`Install`: all categories, or some when a Create fails, with the spec's TTL or the template's zero);
  - it deletes drifted Schedules (`Retire`: all, or all but a remainder), never editing one in place;
  - it reports a phase that `Justified` allows (`Report`): a BackupCollision already set is left as it is; otherwise Enabled when every Schedule is Enabled, or the phase that some non-Enabled Schedule's own phase gives;
  - any status write may be lost, which leaves the phase as it was.
  `Schedule.tla` instantiates it with `engine <- sched` and hides the other variables, the backups included. It states `RefinesIntent`. TLC checks it, and `ScheduleRefinementProofs.tla` proves it.
- `MCSchedule.tla` is the TLC instance. It has 3 categories, 2 valid crons and 1 invalid cron, and 2 hubs.
- `ScheduleProofs.tla` proves the type and `NoLostWakeup`. `ScheduleRefinementProofs.tla` proves the refinement.
- Set differences under `SUBSET` are written `(SUBSET S) \ {x}`. TLC and tlapm parse `SUBSET S \ {x}` differently: TLC reads `(SUBSET S) \ {x}`, tlapm reads `SUBSET (S \ {x})`. The parentheses make both tools see the meaning TLC checks.

## Runs

| Run | cfg | Expect | Shows |
|---|---|---|---|
| schedule_core | MCSchedule.cfg | pass | `TypeOK`, `NoLostWakeup` and `Converges` hold under 2 spec edits (over 2 TTLs and 3 crons), 1 failing status update, backups from both hubs and deletions. The run reaches about 228k distinct states. |
| schedule_partial_init | MCSchedulePartialInit.cfg | violation | A Create that fails part-way leaves some categories without a schedule for ever, yet the phase reaches Enabled. |
| schedule_subsecond_ttl | MCScheduleSubSecondTTL.cfg | violation | A TTL of 500 ms is not copied into the template (`schedule_controller.go:212`), so the drift check deletes and recreates the schedules for ever. |
| schedule_collision_unreported | MCScheduleCollision.cfg | violation | `CollisionReported`: another hub's backup becomes the latest and stays so while the cron is valid, and under the work queue's fairness the phase never becomes BackupCollision. The aggregate branch (`schedule_controller.go:160-177`) never calls `scheduleOwnsLatestStorageBackups`. The spec (4.1) says the owning loop runs it. |
| schedule_refines_intent | MCScheduleIntent.cfg | pass | `Schedule` refines `ScheduleIntent`, with one failing Create or Delete and one lost status write. Every phase written is one some Schedule's own phase justifies, whatever order the cache lists them in. Taking a Schedule with no phase as Enabled in `setSchedulePhase` breaks this. The run reaches about 850k distinct states in under a minute. |
| restore_core | MCRestore.cfg | pass | `TypeOK`, `SortPicksFewest`, `SelectionSound` and `RestoreConverges` hold over 1.04 M states. For every listing order the first element of the sorted list has the fewest errors of its category (a `Less` without the error key breaks this). The selected backup is the best one whenever all candidates have started. Under fairness the conditions settle once Velero finishes, with one failing status update. |
| restore_refines_intent | MCRestoreIntent.cfg | pass | With a failing Create, a failing status update, and a spec in which the credentials and resources categories name the same backup (the second Create fails with AlreadyExists, `restore_controller.go:280`), `Restore` refines `RestoreIntent` and keeps `RestoreCompleteJustified`. The run reaches 2.30 M states in about 3.5 minutes. |
| restore_nil_start | MCRestoreNilStart.cfg | violation | A backup with no start timestamp is never Less than, nor greater than, a started one. The insertion sort can leave it first, so it is selected over the started backup with the same errors. |
| restore_latest_sentinel | MCRestoreLatest.cfg | violation | The selection `"latest"` goes to `Get` as a name; the lookup fails and the category is never restored. |
| restore_read_failure | MCRestoreReadFailure.cfg | violation | One failed `List` in `getVeleroBackupName` is swallowed by the `continue` at `restore_controller.go:270`, and nothing retries the category. |
| restore_partial_create | MCRestorePartialCreate.cfg | violation | A failed Create returns before the status update. The next call sees velero Restores and never runs the initialisation again. |

Why these bounds are enough:
- Two edits allow an edit away from a value and back again.
- One failure budget per kind of write reaches every error path.
- `MaxTime = 2` allows one backup by each hub, in either order. That is enough to make this hub's backup either the latest or not.
- schedule_refines_intent keeps `MaxWriteFailures = 1`, so it still reaches a partial Create and a partial Delete.
- schedule_collision_unreported has no edits and no failures: the cron stays valid and nothing but the missing check keeps the phase from BackupCollision.

Deadlock checking is off for one reason: after FailedValidation the controller goes idle without a requeue, once the bounded environment stops.

For the Restore runs:
- `MaxBackups = 3` with two resources names allows two candidates in one category, so the sort and its tie-breaking are exercised.
- `MaxErrors = 1` and `MaxTime = 2` make both sort keys differ.
- Read failures are left to `restore_read_failure`, so that the passing runs stay under a few minutes.

Fairness:
- `Reconcile` gets weak fairness, because the work queue eventually serves every queued request and every branch except FailedValidation requeues.
- Each `VeleroValidate(c)` gets weak fairness, because Velero's schedule controller eventually processes every new schedule.
- The user, the other hub and backup creation get no fairness. They may stop at any time.
- In `Restore`, `Reconcile` gets weak fairness for the same work-queue reason. Each `VeleroRestoreProgress(n)` gets weak fairness, because Velero runs every restore to a terminal phase. `RestoreConverges` asks only that the condition statuses settle: the message names a restore chosen by list order, and with two finished restores the Restore can be rewritten again and again. Random order ends that with probability one, but fairness cannot express it.

## Proofs

- `TypeCorrect`: `Spec => []TypeOK`. The proof has one step per action, and uses lemmas for `WriteStatus`, `NewSchedule` and `Restrict`.
- `NoLostWakeupInvariant`: `Spec => []NoLostWakeup`.
  - The inductive invariant is `TypeOK /\ NoLostWakeup`. The type facts are needed so that the step cases can unfold `WriteStatus` and the event filter.
  - Every branch of `Reconcile` except `ReconcileInvalid` sets `queued`.
  - `ReconcileInvalid` either stores FailedValidation for the current spec or fails, and a failure requeues.
  - A spec edit requeues whenever the spec changes.
  - No other action touches `spec`, `queued` or `phase`.

For the same model (`ScheduleRefinementProofs.tla`):
- `ScheduleRefinement`: `Spec => RefinesIntent`. The proof is step by step:
  - `RefInit`: the initial states map to initial states.
  - `RefInvalid`, `RefInstall` (with `TemplateTTLChoice`), `RefDrift` and `RefAggregate` map the four branches of Reconcile. A lost status write is the phase-unchanged alternative of each.
  - `AggregateJustified` shows that every phase `setSchedulePhase` may write, in any list order, is one `Justified` allows: the early return for BackupCollision, Enabled when no Schedule is otherwise, and else the `ChildPhase` of a non-Enabled Schedule. This needs `TypeOK`: an owned Schedule's phase is one of Velero's four, so the `OTHER` arm of `ChildPhase` is FailedValidation.
  - The user's edits and Velero's validation map to `Edit` and `Validate`. New backups and deletions leave every mapped variable alone (`RefBackups`), since the reconciler never reads the backups.
  - `RefStep` combines them, and `PTL` gives the theorem with `TypeCorrect`.

These proofs hold for every value of the constants allowed by `ScheduleAssumption`.

- `IntentCompleteJustified` (`RestoreIntentProofs.tla`): `ISpec => []CompleteJustified`.
  - The inductive invariant adds that every finished category has a restore.
  - So while no restore has started, nothing is finished and nothing is reported complete, and `StartRestores` keeps `CompleteJustified` true.

For `Restore` (`RestoreProofs.tla`), under `RestoreAssumption`:
- `TypeCorrect`: `Spec => []TypeOK`. Lemmas give the type of what the closed-form loop returns (`LoopTyped`), of `getVeleroBackupName` (`ResolveTyped`) and of a status write (`WriteStatusTyped`). `GreatestExists` gives the last iteration that creates, for `LoopStarted`.
- `CompleteJustifiedInvariant`: `Spec => []RestoreCompleteJustified`. That property is `RestoreIntent`'s `CompleteJustified` under the refinement mapping, so the proof is about the code, not the abstraction.
  - It is not inductive as it stands: `RestoredFor(c)` picks *a* velero Restore of category `c`, and a finished restore of `c` proves nothing about the picked one.
  - The inductive invariant `IInv` is `TypeOK`, plus `OneRestorePerCategory` (no two owned velero Restores were created for the same category), plus `CompleteWitnessed` (while `RestoreComplete` is True some owned, finished, non-managed-clusters velero Restore exists). TLC checked `IInv` on the restore_refines_intent instance before it was proved.
  - `OneRestorePerCategory` holds because the loop visits each category once, and because a category whose backup an earlier iteration already used fails with AlreadyExists (`CreatedDistinct`). `CompleteWitnessed` holds because `UpdateConditions` writes True only with a finished writer, and Velero never leaves a terminal phase.

For the refinement (`RestoreRefinementProofs.tla`):
- `RefinementGivenSort`: `Spec /\ []SortPicksFewest => RefinesIntent`. The proof is step by step:
  - `RefInit`: the initial states map to initial states.
  - `RefStart`: the creating branch of Reconcile is `StartRestores`, with `S` the created categories and `f` the resolved names. `LoopRestoredFor` shows that the mapped `RestoredFor` is the resolved name exactly for the created categories. `CreatedDistinct` shows that the names are all different. `SortPicksFewest` shows that a name chosen by the sort is allowed.
  - `RefUpdate`: `UpdateConditions` is `ReportComplete`, or a stutter. `RestoredForOwn` (with `OneRestorePerCategory`) turns the finished writer into the restore recorded for its category.
  - `RefProgress`: Velero's move of a restore to a terminal phase is `FinishRestore` of its category. Any other move is a stutter.
  - `RefBackups`: backup changes are `ChangeBackups`.
  - `RefStep` combines them, and the theorem follows by `PTL` from `IInv`.
- The hypothesis `[]SortPicksFewest` is the one part that is not proved. It says that the backup `FoldLeft(SinkInto, <<>>, l)` puts first has the fewest errors. That is a fact about what a fold computes for every listing, which needs induction over the list, and the library's induction rules cannot be instantiated by the provers here. It is a state invariant, and restore_core checks it on every reachable state. The rest of the refinement is proved for all constants.

The assumptions are all checked by TLC in every Restore run:
- `Categories` is finite.
- `Nil` is neither a backup name, nor a sentinel, nor a Velero phase.
- Backup names are pairs `<<category, id>>`.
- The bounds are natural numbers.

These stay with TLC and are not proved:
- Liveness (`Converges`, `RestoreConverges`), under the fairness above. Anything that needs ENABLED.
- The violations the violation runs find. Those are counterexamples, which TLC produces.
- What the insertion sort computes (`SortPicksFewest`, `SelectionSound`), because it is induction over data.
- That the closed form of the loop is the loop (`LoopClosedForm`). This too is induction over the fold, and is checked on the TLC instance.

## Not modelled yet, and the plan

- **Restore phase, sync and reactivation.** The spec's restore phase, sync polling and cluster reactivation (`setRestorePhase`, `sendResult`, `isValidSyncOptions`, `isSkipAllRestores`, `postRestoreActivation`) are exercised by `restore_test.go`, but this version of `restore_controller.go` has no code for them. They are not modelled.
- **Backup phase.** The selector ignores the backup phase (`restore_controller.go:249`). The model keeps only the start timestamp and the error count.
- **Aggregation order.** `RefinesIntent` shows that whichever Schedule `setSchedulePhase` meets first, the phase it writes is justified by that Schedule's phase (`schedule.go:107`). The choice among them is left open, as the code leaves it.
- **Collision check internals.** `scheduleOwnsLatestStorageBackups` fails open when listing backups fails (`schedule.go:214`), and it is ambiguous for equal or nil start times (`schedule.go:226`). It is dead code in this version, so neither is a hazard of the running system.
- **Out of scope.**
  - The secret labelling and the retention sweep `cleanupBackups`. Neither has a decision that any property of the schedule depends on.
  - Logging and message text.
