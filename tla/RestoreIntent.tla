--------------------------- MODULE RestoreIntent ---------------------------
(***************************************************************************)
(* What the Restore reconciler promises, without its loops, listing orders *)
(* and failures: once, it starts restores for some of the categories, each *)
(* of a backup the category's selection allows (the named backup, or one   *)
(* with the fewest errors of the category when no name is given); a       *)
(* started restore is never replaced and eventually finishes; the Restore  *)
(* is reported complete only after a restore outside the managed-clusters  *)
(* category has finished.  The backups evolve as in Restore.               *)
(***************************************************************************)
EXTENDS Naturals, FiniteSets

CONSTANTS Categories, MCCat, BackupNames, Latest, Skip, Nil, SelChoices,
          InitStore, MaxBackups, MaxErrors, MaxTime

VARIABLES
    sel,        \* the Restore spec's selection per category
    store,      \* the velero Backups: name -> [errors, start]
    clock,      \* latest backup start time so far
    restored,   \* the backup restored for each category, or Nil
    finished,   \* the categories whose restore has finished
    complete    \* the Restore is reported complete

ivars == <<sel, store, clock, restored, finished, complete>>

CategoryBackups(c) == {n \in DOMAIN store : n[1] = c}

\* The backups a category may be restored from.
Allowed(c) ==
    IF sel[c] = Nil
    THEN {n \in CategoryBackups(c) :
            \A m \in CategoryBackups(c) : store[n].errors <= store[m].errors}
    ELSE {sel[c]} \cap DOMAIN store

\* Restores start, once, for some categories.
StartRestores ==
    /\ \A c \in Categories : restored[c] = Nil
    /\ \E S \in SUBSET Categories :
         \E f \in [S -> BackupNames] :
            /\ \A c \in S : f[c] \in Allowed(c)
            /\ \A c, d \in S : c # d => f[c] # f[d]
            /\ restored' = [c \in Categories |-> IF c \in S THEN f[c] ELSE Nil]
    /\ UNCHANGED <<sel, store, clock, finished, complete>>

\* The restore of a category finishes.
FinishRestore(c) ==
    /\ restored[c] # Nil
    /\ c \notin finished
    /\ finished' = finished \cup {c}
    /\ UNCHANGED <<sel, store, clock, restored, complete>>

\* The Restore is reported complete.
ReportComplete ==
    /\ ~complete
    /\ \E c \in finished : restored[c][1] # MCCat
    /\ complete' = TRUE
    /\ UNCHANGED <<sel, store, clock, restored, finished>>

\* The backups change while no restore has started.
ChangeBackups ==
    /\ \A c \in Categories : restored[c] = Nil
    /\ \/ /\ Cardinality(DOMAIN store) < MaxBackups
          /\ \E n \in BackupNames \ DOMAIN store :
                store' = [m \in DOMAIN store \cup {n} |->
                            IF m = n THEN [errors |-> 0, start |-> Nil] ELSE store[m]]
          /\ UNCHANGED clock
       \/ \E n \in DOMAIN store, e \in 0..MaxErrors :
             /\ store[n].start = Nil
             /\ clock < MaxTime
             /\ clock' = clock + 1
             /\ store' = [store EXCEPT ![n] = [errors |-> e, start |-> clock + 1]]
    /\ UNCHANGED <<sel, restored, finished, complete>>

IInit ==
    /\ sel \in SelChoices
    /\ store = InitStore
    /\ clock = 0
    /\ restored = [c \in Categories |-> Nil]
    /\ finished = {}
    /\ complete = FALSE

INext ==
    \/ StartRestores
    \/ \E c \in Categories : FinishRestore(c)
    \/ ReportComplete
    \/ ChangeBackups

ISpec == IInit /\ [][INext]_ivars

\* The Restore is reported complete only when the restore of some category
\* outside the managed-clusters one has finished.
CompleteJustified ==
    complete => \E c \in finished : restored[c] # Nil /\ restored[c][1] # MCCat

=============================================================================
