------------------------------ MODULE Restore ------------------------------
(***************************************************************************)
(* The Restore reconciler (src/controllers/restore_controller.go): on the  *)
(* first call it picks a velero Backup per category and creates one velero *)
(* Restore for it; on later calls it reads the phases Velero reports for   *)
(* the owned velero Restores into the RestoreStarted and RestoreComplete   *)
(* conditions.  The environment is Velero (creating and running backups,   *)
(* running restores).                                                      *)
(*                                                                         *)
(* A backup name contains the schedule name of exactly one category, so a  *)
(* name is modelled as <<category, id>>.  The velero Restore created for   *)
(* backup n is named restore.Name + "-" + n, so it is keyed by n here.     *)
(* Lists read from the cache come in no fixed order: every loop over a     *)
(* list or over the category map may visit its elements in any order.      *)
(***************************************************************************)
EXTENDS Naturals, FiniteSets, Sequences, SequencesExt

CONSTANTS
    Categories,        \* the keys of veleroScheduleNames
    MCCat,             \* the ManagedClusters category
    BackupNames,       \* the backup names: <<category, time suffix>>
    Latest, Skip,      \* the selections "latest" and "skip", which name no backup
    Nil,               \* a nil pointer, an empty string, an absent value
    SelChoices,        \* the Restore specs considered: category -> selection
    InitStore,         \* the velero Backups present when the Restore is created
    MaxBackups,        \* bound on the number of velero Backups
    MaxErrors,         \* bound on Status.Errors of a backup
    MaxTime,           \* bound on backup start times
    MaxReadFailures,   \* bound on failed Get/List calls of velero Backups
    MaxCreateFailures, \* bound on failed Create calls of velero Restores
    MaxStatusFailures  \* bound on failed Status().Update calls

BackupInfo == [errors : 0..MaxErrors, start : (1..MaxTime) \cup {Nil}]

Selections == {Nil, Latest, Skip} \cup BackupNames

ASSUME RestoreAssumption ==
    /\ IsFiniteSet(Categories) /\ MCCat \in Categories
    /\ \A n \in BackupNames : n = <<n[1], n[2]>> /\ n[1] \in Categories
    /\ Nil \notin {Latest, Skip} \cup BackupNames
    /\ Nil \notin {"New", "InProgress", "Completed", "PartiallyFailed", "Failed",
                   "FailedValidation"}
    /\ Latest # Skip /\ {Latest, Skip} \cap BackupNames = {}
    /\ SelChoices \subseteq [Categories -> Selections]
    /\ DOMAIN InitStore \subseteq BackupNames
    /\ InitStore \in [DOMAIN InitStore -> BackupInfo]
    /\ {MaxBackups, MaxErrors, MaxTime, MaxReadFailures,
        MaxCreateFailures, MaxStatusFailures} \subseteq Nat

VARIABLES
    sel,            \* restore.Spec.Velero<Category>BackupName
    store,          \* velero Backups in the namespace: name -> [errors, start]
    clock,          \* latest backup start time so far
    vrest,          \* owned velero Restores: backup name -> [cat, phase]
    statusNames,    \* restore.Status.Velero<Category>RestoreName
    conds,          \* restore.Status.Conditions: RestoreStarted, RestoreComplete
    queued,         \* the Restore is in the work queue
    readFailures, createFailures, statusFailures

vars == <<sel, store, clock, vrest, statusNames, conds, queued,
          readFailures, createFailures, statusFailures>>

VeleroRestorePhases ==
    {Nil, "New", "InProgress", "Completed", "PartiallyFailed", "Failed", "FailedValidation"}

Condition == [status : {"Absent", "True", "False"},
              reason : {Nil, "Started", "Running", "Finished"},
              by : BackupNames \cup {Nil}]

NoCondition == [status |-> "Absent", reason |-> Nil, by |-> Nil]

-----------------------------------------------------------------------------
(* Backup selection (getVeleroBackupName). *)

\* metav1.Time.Before on pointers: false when either timestamp is nil.
Before(t, u) == t # Nil /\ u # Nil /\ t < u

\* Faulty variant: the error counts are not compared.
LessByStartOnly(x, y) == Before(store[y].start, store[x].start)

\* mostRecentWithLessErrors.Less: fewer errors first, then the more recent
\* start first.
Less(x, y) ==
    \/ store[x].errors < store[y].errors
    \/ /\ store[x].errors = store[y].errors
       /\ Before(store[y].start, store[x].start)

\* One pass of Go's insertionSort: the element appended to the sorted prefix
\* s is swapped left while it is Less than its left neighbour.
SinkInto(s, x) ==
    LET moves == {m \in 0..Len(s) :
                    \A q \in (Len(s) - m + 1)..Len(s) : Less(x, s[q])}
    IN  InsertAt(s, Len(s) + 1 - Max(moves), x)

\* sort.Sort on at most 6 elements is an insertion sort (Go's pre-pass
\* with gap 6 does nothing on so short a list).
InsertionSort(l) == FoldLeft(SinkInto, <<>>, l)

\* filterBackups with strings.Contains(name, veleroScheduleNames[c]).
RelatedBackups(c) == {n \in DOMAIN store : n[1] = c}

\* The backups getVeleroBackupName may return for category c when no name
\* is given: the related backup that the sort puts first, for some order
\* of the listing.
SelectBackup(c) ==
    {n \in RelatedBackups(c) :
       \E l \in SetToSeqs(RelatedBackups(c)) : InsertionSort(l)[1] = n}

\* Faulty variant: a given name is returned without checking that Get found it.
ResolveBackupNameUnchecked(c) ==
    IF sel[c] # Nil
    THEN {sel[c]}
    ELSE IF RelatedBackups(c) = {} THEN {Nil} ELSE SelectBackup(c)

\* The results getVeleroBackupName may return for category c (Nil is an
\* error) when its reads succeed: a non-empty name is looked up with Get.
ResolveBackupName(c) ==
    IF sel[c] # Nil
    THEN IF sel[c] \in DOMAIN store THEN {sel[c]} ELSE {Nil}
    ELSE IF RelatedBackups(c) = {} THEN {Nil} ELSE SelectBackup(c)

-----------------------------------------------------------------------------
(* Reconcile. *)

\* Classification of a velero Restore phase (isVeleroRestoreFinished,
\* isVeleroRestoreRunning).
Finished(p) == p \in {"Completed", "PartiallyFailed", "Failed", "FailedValidation"}
Running(p) == p \in {"New", "InProgress"}

\* Faulty variant: no restore is taken for a managed-clusters restore.
NoMCRestore(n) == FALSE

\* strings.Contains(veleroRestore.Name, veleroScheduleNames[ManagedClusters]).
IsMCRestore(n) == n[1] = MCCat

\* Status().Update of the new status.  On success an update event enqueues
\* the Restore again iff the stored object changed (the controller has no
\* event filter); on failure the status is lost and the error requeues.
WriteStatus(names, cs, changedChildren) ==
    \/ /\ statusNames' = names
       /\ conds' = cs
       /\ queued' = (changedChildren \/ names # statusNames \/ cs # conds)
       /\ UNCHANGED statusFailures
    \/ /\ statusFailures < MaxStatusFailures
       /\ statusFailures' = statusFailures + 1
       /\ queued' = TRUE
       /\ UNCHANGED <<statusNames, conds>>

(* initVeleroRestores loops over the categories in map order o.  pick is  *)
(* the name resolved per category (Nil: the read failed or found nothing,  *)
(* and the category is skipped), fc the category whose Create fails for a  *)
(* transient reason (or Nil).  A Create also fails with AlreadyExists when *)
(* an earlier iteration created the velero Restore of the same backup.     *)
(* The loop returns at the first failing Create, so the iterations that    *)
(* create a velero Restore are those that resolve a name before it.        *)

\* Iteration i resolves a backup name (else the loop continues).
Resolved(o, pick, i) == pick[o[i]] # Nil

\* The Create of iteration i returns an error.
CreateFails(o, pick, fc, i) ==
    /\ Resolved(o, pick, i)
    /\ \/ o[i] = fc
       \/ \E j \in 1..(i - 1) : Resolved(o, pick, j) /\ pick[o[j]] = pick[o[i]]

\* The loop returns an error.
LoopFails(o, pick, fc) == \E i \in 1..Len(o) : CreateFails(o, pick, fc, i)

\* The iterations whose velero Restore is created.
CreatedAt(o, pick, fc) ==
    {i \in 1..Len(o) :
       Resolved(o, pick, i) /\ \A j \in 1..i : ~CreateFails(o, pick, fc, j)}

CreatedFor(o, pick, fc) == {o[i] : i \in CreatedAt(o, pick, fc)}

\* The velero Restores the loop creates, keyed by backup name.
LoopRestores(o, pick, fc) ==
    [n \in {pick[c] : c \in CreatedFor(o, pick, fc)} |->
       [cat |-> CHOOSE c \in CreatedFor(o, pick, fc) : pick[c] = n, phase |-> Nil]]

\* Status.Velero<Category>RestoreName after the loop.
LoopNames(o, pick, fc, names) ==
    [c \in Categories |-> IF c \in CreatedFor(o, pick, fc) THEN pick[c] ELSE names[c]]

\* RestoreStarted after the loop: set by the last iteration that created.
LoopStarted(o, pick, fc, started) ==
    LET last == CHOOSE i \in CreatedAt(o, pick, fc) :
                  \A j \in CreatedAt(o, pick, fc) : j <= i
    IN  IF CreatedAt(o, pick, fc) = {} THEN started
        ELSE [status |-> "True", reason |-> "Started", by |-> pick[o[last]]]

\* len(veleroRestoreList.Items) == 0: the Restore owns no velero Restore.
NoOwnedRestores == DOMAIN vrest = {}

\* The branch for no owned velero Restore: initVeleroRestores, then the
\* status update unless it returned an error.  readFail is the category
\* whose Get or List fails (or Nil).
InitVeleroRestores ==
    /\ NoOwnedRestores
    /\ \E readFail \in IF readFailures < MaxReadFailures
                       THEN Categories \cup {Nil} ELSE {Nil},
          failCreate \in IF createFailures < MaxCreateFailures
                         THEN Categories \cup {Nil} ELSE {Nil},
          order \in SetToSeqs(Categories) :
       \E pick \in [Categories -> UNION {ResolveBackupName(c) : c \in Categories} \cup {Nil}] :
         /\ \A c \in Categories :
               pick[c] \in IF c = readFail THEN {Nil} ELSE ResolveBackupName(c)
         /\ vrest' = LoopRestores(order, pick, failCreate)
         /\ IF LoopFails(order, pick, failCreate)
            THEN /\ queued' = TRUE
                 /\ UNCHANGED <<statusNames, conds, statusFailures>>
            ELSE WriteStatus(LoopNames(order, pick, failCreate, statusNames),
                             [conds EXCEPT !.Started =
                                LoopStarted(order, pick, failCreate, conds.Started)],
                             vrest' # vrest)
         /\ readFailures' = readFailures + (IF readFail = Nil THEN 0 ELSE 1)
         /\ createFailures' = createFailures + (IF failCreate = Nil THEN 0 ELSE 1)

\* The branch for existing velero Restores: each one, in list order, sets
\* RestoreComplete when finished and not a managed-clusters restore, and
\* otherwise (unless finished) RestoreStarted, True when running.  Only the
\* last writer of each condition type survives.
UpdateConditions ==
    /\ ~NoOwnedRestores
    /\ LET completeWriters ==
             {n \in DOMAIN vrest : Finished(vrest[n].phase) /\ ~IsMCRestore(n)}
           startedWriters == {n \in DOMAIN vrest : ~Finished(vrest[n].phase)}
           completes ==
             IF completeWriters = {} THEN {conds.Complete}
             ELSE {[status |-> "True", reason |-> "Finished", by |-> n] :
                     n \in completeWriters}
           starts ==
             IF startedWriters = {} THEN {conds.Started}
             ELSE {[status |-> IF Running(vrest[n].phase) THEN "True" ELSE "False",
                    reason |-> "Running", by |-> n] : n \in startedWriters}
       IN \E cc \in completes, cs \in starts :
             WriteStatus(statusNames, [Started |-> cs, Complete |-> cc], FALSE)
    /\ UNCHANGED <<vrest, readFailures, createFailures>>

Reconcile ==
    /\ queued
    /\ \/ InitVeleroRestores
       \/ UpdateConditions
    /\ UNCHANGED <<sel, store, clock>>

-----------------------------------------------------------------------------
(* The environment: Velero. *)

\* Backups change only while no velero Restore exists: once they exist
\* Reconcile never reads the backups again, so later changes are left out.
BackupsRead == DOMAIN vrest = {}

\* A scheduled backup is created; it has no start timestamp yet.
NewBackup ==
    /\ BackupsRead
    /\ Cardinality(DOMAIN store) < MaxBackups
    /\ \E n \in BackupNames \ DOMAIN store :
          store' = [m \in DOMAIN store \cup {n} |->
                      IF m = n THEN [errors |-> 0, start |-> Nil] ELSE store[m]]
    /\ UNCHANGED <<sel, clock, vrest, statusNames, conds, queued,
                   readFailures, createFailures, statusFailures>>

\* Velero runs a backup: it gets its start timestamp and its error count.
StartBackup(n) ==
    /\ BackupsRead
    /\ store[n].start = Nil
    /\ clock < MaxTime
    /\ clock' = clock + 1
    /\ \E e \in 0..MaxErrors :
          store' = [store EXCEPT ![n] = [errors |-> e, start |-> clock + 1]]
    /\ UNCHANGED <<sel, vrest, statusNames, conds, queued,
                   readFailures, createFailures, statusFailures>>

RestoreSuccessors(p) ==
    CASE p = Nil          -> {"New"}
      [] p = "New"        -> {"InProgress", "FailedValidation"}
      [] p = "InProgress" -> {"Completed", "Failed"}
      [] OTHER            -> {}

\* Faulty variant: changes of owned velero Restores are not watched.
OwnsIgnored == FALSE

\* Velero advances a velero Restore; the owned object's update enqueues the
\* Restore (Owns, no event filter).
OwnsTriggersReconcile == TRUE

VeleroRestoreProgress(n) ==
    /\ n \in DOMAIN vrest
    /\ \E p \in RestoreSuccessors(vrest[n].phase) :
          vrest' = [vrest EXCEPT ![n].phase = p]
    /\ queued' = (queued \/ OwnsTriggersReconcile)
    /\ UNCHANGED <<sel, store, clock, statusNames, conds,
                   readFailures, createFailures, statusFailures>>

-----------------------------------------------------------------------------

Init ==
    /\ sel \in SelChoices
    /\ store = InitStore
    /\ clock = 0
    /\ vrest = [n \in {} |-> [cat |-> MCCat, phase |-> Nil]]
    /\ statusNames = [c \in Categories |-> Nil]
    /\ conds = [Started |-> NoCondition, Complete |-> NoCondition]
    /\ queued = TRUE
    /\ readFailures = 0
    /\ createFailures = 0
    /\ statusFailures = 0

Next ==
    \/ Reconcile
    \/ NewBackup
    \/ \E n \in DOMAIN store : StartBackup(n)
    \/ \E n \in BackupNames : VeleroRestoreProgress(n)

\* The work queue serves every queued request; Velero's restore controller
\* processes every velero Restore to a terminal phase.
Fairness ==
    /\ WF_vars(Reconcile)
    /\ \A n \in BackupNames : WF_vars(VeleroRestoreProgress(n))

Spec == Init /\ [][Next]_vars

FairSpec == Spec /\ Fairness

-----------------------------------------------------------------------------
(* Properties. *)

TypeOK ==
    /\ sel \in SelChoices
    /\ DOMAIN store \subseteq BackupNames
    /\ store \in [DOMAIN store -> BackupInfo]
    /\ clock \in 0..MaxTime
    /\ DOMAIN vrest \subseteq BackupNames
    /\ vrest \in [DOMAIN vrest -> [cat : Categories, phase : VeleroRestorePhases]]
    /\ statusNames \in [Categories -> BackupNames \cup {Nil}]
    /\ conds \in [{"Started", "Complete"} -> Condition]
    /\ queued \in BOOLEAN
    /\ readFailures \in 0..MaxReadFailures
    /\ createFailures \in 0..MaxCreateFailures
    /\ statusFailures \in 0..MaxStatusFailures

\* The velero Restores a step creates for a category with no backup name.
SelectedInStep ==
    {n \in DOMAIN vrest' \ DOMAIN vrest : sel[vrest'[n].cat] = Nil}

\* The reference choice of the spec: the fewest errors, then the latest
\* start; a backup that has not started is older than one that has.
StartedLater(m, n) ==
    store[m].start # Nil /\ (store[n].start = Nil \/ store[m].start > store[n].start)

BestBackups(c) ==
    {n \in RelatedBackups(c) :
       \A m \in RelatedBackups(c) :
          \/ store[n].errors < store[m].errors
          \/ store[n].errors = store[m].errors /\ ~StartedLater(m, n)}

\* Whatever the listing order, the backup the insertion sort under
\* mostRecentWithLessErrors.Less puts first has the fewest errors of its
\* category: the errors key decides before the timestamps, which are no
\* strict weak order.
SortPicksFewest ==
    \A c \in Categories : \A n \in SelectBackup(c) : \A m \in RelatedBackups(c) :
       store[n].errors <= store[m].errors

\* The backup getVeleroBackupName picks for a category without a name has
\* the fewest errors among the category's backups, whatever the listing
\* order, and it is the reference choice whenever all of them have started:
\* the insertion sort under mostRecentWithLessErrors.Less finds the best
\* backup although Less is no strict weak order once a timestamp is nil.
SelectionSound ==
    [][\A n \in SelectedInStep :
         LET c == vrest'[n].cat IN
         /\ \A m \in RelatedBackups(c) : store[n].errors <= store[m].errors
         /\ (\A m \in RelatedBackups(c) : store[m].start # Nil)
              => n \in BestBackups(c)]_vars

\* The spec's selection rule, for every listing: the picked backup is a
\* best one (fewest errors, then latest start).
SelectsBest ==
    [][\A n \in SelectedInStep : n \in BestBackups(vrest'[n].cat)]_vars

\* The state Reconcile converges to once Velero is done: every owned velero
\* Restore finished, and RestoreComplete raised exactly when one of them is
\* not a managed-clusters restore.
RestoreSettled ==
    /\ \A n \in DOMAIN vrest : Finished(vrest[n].phase)
    /\ (conds.Complete.status = "True") = (\E n \in DOMAIN vrest : ~IsMCRestore(n))

\* Under the work queue's and Velero's fairness the conditions settle: no
\* phase change of a velero Restore goes unnoticed by Reconcile.
RestoreConverges == <>[]RestoreSettled

\* A category the spec says to restore: not "skip", and either an existing
\* backup named, or "latest"/no name with a backup of the category present.
Restorable(c) ==
    \/ sel[c] \in BackupNames /\ sel[c] \in DOMAIN store
    \/ sel[c] \in {Nil, Latest} /\ RelatedBackups(c) # {}

\* Every restorable category eventually has its own velero Restore,
\* recorded in the status (spec 2 and 4.4 step 2: one owned restore per
\* category that is not skipped, its name recorded in status).
EveryCategoryRestored ==
    <>[](\A c \in Categories :
           Restorable(c) =>
              \E n \in DOMAIN vrest : vrest[n].cat = c /\ statusNames[c] = n)

-----------------------------------------------------------------------------
(* Refinement of RestoreIntent. *)

\* The velero Restore created for category c, or Nil.
RestoredFor(c) ==
    IF \E n \in DOMAIN vrest : vrest[n].cat = c
    THEN CHOOSE n \in DOMAIN vrest : vrest[n].cat = c
    ELSE Nil

Intent == INSTANCE RestoreIntent WITH
    restored <- [c \in Categories |-> RestoredFor(c)],
    finished <- {c \in Categories :
                   RestoredFor(c) # Nil /\ Finished(vrest[RestoredFor(c)].phase)},
    complete <- (conds.Complete.status = "True")

\* The reconciler implements the intent: with its map-order loop, listing
\* orders and failing calls it still starts each category's restore at
\* most once and from an allowed backup, never replaces one, and raises
\* RestoreComplete only after a restore outside the managed-clusters
\* category has finished (the strings.Contains check of Reconcile).
RefinesIntent == Intent!ISpec

\* RestoreComplete is True only when a velero Restore that is not a
\* managed-clusters restore has finished, the one recorded for its category.
RestoreCompleteJustified == Intent!CompleteJustified

=============================================================================
