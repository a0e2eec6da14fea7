---------------------- MODULE RestoreRefinementProofs -----------------------
(***************************************************************************)
(* The Restore reconciler implements RestoreIntent under the refinement    *)
(* mapping of Restore (RestoredFor, the finished categories, the           *)
(* RestoreComplete status), provided the insertion sort puts a backup with *)
(* the fewest errors first (SortPicksFewest).  What the sort computes for   *)
(* every listing is a fact about a fold over the list, beyond the provers  *)
(* here (induction over data); TLC checks SortPicksFewest on every state   *)
(* of the run restore_core.  Everything else of the refinement is proved   *)
(* for all values of the constants.                                        *)
(***************************************************************************)
EXTENDS RestoreProofs

\* The refinement mapping, named.
rMap == [c \in Categories |-> RestoredFor(c)]
fMap == {c \in Categories :
           RestoredFor(c) # Nil /\ Finished(vrest[RestoredFor(c)].phase)}
cMap == conds.Complete.status = "True"

-----------------------------------------------------------------------------
(* Lemmas about the restores of a category. *)

\* In a function whose entries have distinct categories, the entry chosen
\* for the category of n is n.
LEMMA CatChoice ==
    ASSUME NEW V, \A m, n \in DOMAIN V : V[m].cat = V[n].cat => m = n,
           NEW n \in DOMAIN V
    PROVE  (CHOOSE k \in DOMAIN V : V[k].cat = V[n].cat) = n
OBVIOUS

\* With one velero Restore per category, the one recorded for the category
\* of n is n.
LEMMA RestoredForOwn ==
    ASSUME OneRestorePerCategory, NEW n \in DOMAIN vrest
    PROVE  RestoredFor(vrest[n].cat) = n
BY CatChoice DEF RestoredFor, OneRestorePerCategory

\* Two categories the loop creates for get different backups: the Create
\* of the later one would fail with AlreadyExists.
LEMMA CreatedDistinct ==
    ASSUME NEW o \in SetToSeqs(Categories),
           NEW pick \in [Categories -> BackupNames \cup {Nil}], NEW fc,
           NEW c \in CreatedFor(o, pick, fc), NEW d \in CreatedFor(o, pick, fc),
           c # d
    PROVE  pick[c] # pick[d]
<1>1. Len(o) \in Nat /\ o \in [1..Len(o) -> Categories]
  BY OrderIsSeq
<1>2. PICK i \in CreatedAt(o, pick, fc) : o[i] = c
  BY DEF CreatedFor
<1>3. PICK j \in CreatedAt(o, pick, fc) : o[j] = d
  BY DEF CreatedFor
<1>4. i \in 1..Len(o) /\ j \in 1..Len(o) /\ i # j
  BY <1>2, <1>3 DEF CreatedAt
<1>5. Resolved(o, pick, i) /\ Resolved(o, pick, j)
      /\ ~CreateFails(o, pick, fc, i) /\ ~CreateFails(o, pick, fc, j)
  BY <1>2, <1>3, <1>4 DEF CreatedAt
<1>6. CASE i < j
  BY <1>1, <1>2, <1>3, <1>4, <1>5, <1>6 DEF CreateFails
<1>7. CASE j < i
  BY <1>1, <1>2, <1>3, <1>4, <1>5, <1>7 DEF CreateFails
<1>8. QED
  BY <1>4, <1>6, <1>7

\* The category a created velero Restore is recorded for is the category
\* whose iteration created it, and only created categories have one.
LEMMA LoopRestoredFor ==
    ASSUME NEW o \in SetToSeqs(Categories),
           NEW pick \in [Categories -> BackupNames \cup {Nil}], NEW fc,
           NEW c \in Categories
    PROVE  LET R == LoopRestores(o, pick, fc) IN
           /\ (\E n \in DOMAIN R : R[n].cat = c) <=> c \in CreatedFor(o, pick, fc)
           /\ c \in CreatedFor(o, pick, fc) =>
                 (CHOOSE n \in DOMAIN R : R[n].cat = c) = pick[c]
<1> DEFINE CF == CreatedFor(o, pick, fc)
           R == LoopRestores(o, pick, fc)
<1>1. DOMAIN R = {pick[d] : d \in CF}
  BY DEF LoopRestores
<1>2. ASSUME NEW n \in DOMAIN R
      PROVE  R[n].cat \in CF /\ pick[R[n].cat] = n
  <2>1. \E d \in CF : pick[d] = n
    BY <1>1
  <2>2. QED
    BY <2>1 DEF LoopRestores
<1>3. ASSUME c \in CF PROVE pick[c] \in DOMAIN R /\ R[pick[c]].cat = c
  <2>1. pick[c] \in DOMAIN R
    BY <1>1, <1>3
  <2>2. R[pick[c]].cat \in CF /\ pick[R[pick[c]].cat] = pick[c]
    BY <1>2, <2>1
  <2>3. CF \subseteq Categories
    <3>1. o \in [1..Len(o) -> Categories]
      BY OrderIsSeq
    <3>2. QED
      BY <3>1 DEF CreatedFor, CreatedAt
  <2>4. R[pick[c]].cat = c
    BY <1>3, <2>2, <2>3, CreatedDistinct
  <2>5. QED
    BY <2>1, <2>4
<1>4. \A m, n \in DOMAIN R : R[m].cat = R[n].cat => m = n
  BY <1>2
<1>5. QED
  BY <1>2, <1>3, <1>4, CatChoice

-----------------------------------------------------------------------------
(* The steps of Restore, mapped. *)

\* The initial states map to initial states of RestoreIntent.
LEMMA RefInit == Init => Intent!IInit
<1> SUFFICES ASSUME Init PROVE Intent!IInit
  OBVIOUS
<1>1. DOMAIN vrest = {}
  BY DEF Init
<1>2. \A c \in Categories : RestoredFor(c) = Nil
  BY <1>1 DEF RestoredFor
<1>3. conds.Complete.status # "True"
  BY DEF Init, NoCondition
<1>4. QED
  BY <1>2, <1>3 DEF Init, Intent!IInit

\* While no velero Restore exists nothing is restored.
LEMMA NothingRestored ==
    ASSUME DOMAIN vrest = {}
    PROVE  /\ \A c \in Categories : RestoredFor(c) = Nil
           /\ fMap = {}
BY DEF RestoredFor, fMap

\* A step that leaves the velero Restores and the conditions alone leaves
\* the mapped restore state alone.
LEMMA MappedUnchanged ==
    ASSUME UNCHANGED <<vrest, conds>>
    PROVE  /\ rMap' = rMap
           /\ fMap' = fMap
           /\ cMap' = cMap
BY DEF rMap, fMap, cMap, RestoredFor

\* Velero's backups change as RestoreIntent lets them.
LEMMA RefBackups ==
    ASSUME IInv, NewBackup \/ \E n \in DOMAIN store : StartBackup(n)
    PROVE  Intent!ChangeBackups
<1>1. DOMAIN vrest = {} /\ UNCHANGED <<vrest, conds, sel>>
  BY DEF NewBackup, StartBackup, BackupsRead
<1>2. \A c \in Categories : rMap[c] = Nil
  BY <1>1, NothingRestored DEF rMap
<1>3. rMap' = rMap /\ fMap' = fMap /\ cMap' = cMap
  BY <1>1, MappedUnchanged
<1>4. \/ /\ Cardinality(DOMAIN store) < MaxBackups
         /\ \E n \in BackupNames \ DOMAIN store :
               store' = [m \in DOMAIN store \cup {n} |->
                           IF m = n THEN [errors |-> 0, start |-> Nil] ELSE store[m]]
         /\ UNCHANGED clock
      \/ \E n \in DOMAIN store, e \in 0..MaxErrors :
            /\ store[n].start = Nil
            /\ clock < MaxTime
            /\ clock' = clock + 1
            /\ store' = [store EXCEPT ![n] = [errors |-> e, start |-> clock + 1]]
  BY DEF NewBackup, StartBackup
<1>5. \A c \in Categories : [d \in Categories |-> RestoredFor(d)][c] = Nil
  BY <1>2 DEF rMap
<1>6. UNCHANGED <<sel, [c \in Categories |-> RestoredFor(c)],
                 {c \in Categories :
                    RestoredFor(c) # Nil /\ Finished(vrest[RestoredFor(c)].phase)},
                 conds.Complete.status = "True">>
  BY <1>1, <1>3 DEF rMap, fMap, cMap
<1>7. Intent!Cardinality(DOMAIN store) = Cardinality(DOMAIN store)
  BY DEF Intent!Cardinality, Cardinality
<1>8. QED
  BY <1>4, <1>5, <1>6, <1>7, Zenon DEF Intent!ChangeBackups


\* The branch of Reconcile that creates the velero Restores starts the
\* restores of the categories whose iteration created one, each of the
\* backup getVeleroBackupName resolved, all different.
LEMMA RefStart ==
    ASSUME IInv, SortPicksFewest, InitVeleroRestores, UNCHANGED <<sel, store, clock>>
    PROVE  Intent!StartRestores
<1>1. PICK readFail \in IF readFailures < MaxReadFailures
                        THEN Categories \cup {Nil} ELSE {Nil},
           failCreate \in IF createFailures < MaxCreateFailures
                          THEN Categories \cup {Nil} ELSE {Nil},
           order \in SetToSeqs(Categories),
           pick \in [Categories -> UNION {ResolveBackupName(c) : c \in Categories} \cup {Nil}] :
         /\ \A c \in Categories :
               pick[c] \in IF c = readFail THEN {Nil} ELSE ResolveBackupName(c)
         /\ vrest' = LoopRestores(order, pick, failCreate)
  BY DEF InitVeleroRestores
<1> DEFINE CF == CreatedFor(order, pick, failCreate)
           f == [c \in CF |-> pick[c]]
<1>2. pick \in [Categories -> BackupNames \cup {Nil}]
  BY <1>1, ResolveTyped DEF IInv
<1>3. DOMAIN vrest = {}
  BY DEF InitVeleroRestores, NoOwnedRestores
<1>4. \A c \in Categories : rMap[c] = Nil
  BY <1>3, NothingRestored DEF rMap
<1>5. CF \subseteq Categories /\ \A c \in CF : pick[c] # Nil
  <2>1. order \in [1..Len(order) -> Categories]
    BY <1>1, OrderIsSeq
  <2>2. QED
    BY <2>1 DEF CreatedFor, CreatedAt, Resolved
<1>6. ASSUME NEW c \in Categories
      PROVE  RestoredFor(c)' = IF c \in CF THEN pick[c] ELSE Nil
  <2>1. LET R == LoopRestores(order, pick, failCreate) IN
        /\ (\E n \in DOMAIN R : R[n].cat = c) <=> c \in CF
        /\ c \in CF => (CHOOSE n \in DOMAIN R : R[n].cat = c) = pick[c]
    BY <1>1, <1>2, LoopRestoredFor
  <2>2. /\ (\E n \in DOMAIN vrest' : vrest'[n].cat = c) <=> c \in CF
        /\ c \in CF => (CHOOSE n \in DOMAIN vrest' : vrest'[n].cat = c) = pick[c]
    BY <1>1, <2>1
  <2>3. QED
    BY <2>2 DEF RestoredFor
<1>7. ASSUME NEW c \in CF PROVE f[c] \in Intent!Allowed(c)
  <2>1. pick[c] \in ResolveBackupName(c) /\ pick[c] # Nil
    BY <1>1, <1>5
  <2>2. CASE sel[c] # Nil
    BY <2>1, <2>2 DEF ResolveBackupName, Intent!Allowed
  <2>3. CASE sel[c] = Nil
    <3>1. pick[c] \in SelectBackup(c)
      BY <2>1, <2>3 DEF ResolveBackupName
    <3>2. pick[c] \in RelatedBackups(c)
      BY <3>1 DEF SelectBackup
    <3>3. \A m \in RelatedBackups(c) : store[pick[c]].errors <= store[m].errors
      BY <1>5, <3>1 DEF SortPicksFewest
    <3>4. QED
      BY <2>3, <3>2, <3>3 DEF Intent!Allowed, Intent!CategoryBackups, RelatedBackups
  <2>4. QED
    BY <2>2, <2>3
<1>8. \A c, d \in CF : c # d => f[c] # f[d]
  BY <1>1, <1>2, CreatedDistinct
<1>9. f \in [CF -> BackupNames]
  BY <1>2, <1>5
<1>10. rMap' = [c \in Categories |-> IF c \in CF THEN f[c] ELSE Nil]
  BY <1>6 DEF rMap
<1>11. fMap' = {} /\ fMap = {}
  <2>1. ASSUME NEW c \in CF PROVE vrest'[pick[c]].phase = Nil
    BY <1>1 DEF LoopRestores
  <2>2. ~Finished(Nil)
    BY RestoreAssumption DEF Finished
  <2>3. fMap' = {}
    BY <1>6, <2>1, <2>2 DEF fMap
  <2>4. QED
    BY <1>3, <2>3, NothingRestored
<1>12. cMap' = cMap
  BY InitVeleroRestoresStep DEF IInv, cMap
<1>13. \E S \in SUBSET Categories :
         \E g \in [S -> BackupNames] :
            /\ \A c \in S : g[c] \in Intent!Allowed(c)
            /\ \A c, d \in S : c # d => g[c] # g[d]
            /\ rMap' = [c \in Categories |-> IF c \in S THEN g[c] ELSE Nil]
  BY <1>5, <1>7, <1>8, <1>9, <1>10
<1>14. QED
  BY <1>4, <1>11, <1>12, <1>13 DEF Intent!StartRestores, rMap, fMap, cMap


\* The branch for existing velero Restores reports the Restore complete, by
\* the finished restore of a category outside the managed-clusters one, or
\* leaves the mapped state alone.
LEMMA RefUpdate ==
    ASSUME IInv, UpdateConditions, UNCHANGED <<sel, store, clock>>
    PROVE  \/ Intent!ReportComplete
           \/ UNCHANGED <<sel, store, clock, rMap, fMap, cMap>>
<1> DEFINE writers == {n \in DOMAIN vrest : Finished(vrest[n].phase) /\ ~IsMCRestore(n)}
<1>1. UNCHANGED vrest /\ rMap' = rMap /\ fMap' = fMap
  BY DEF UpdateConditions, rMap, fMap, RestoredFor
<1>2. PICK cc \in IF writers = {} THEN {conds.Complete}
                  ELSE {[status |-> "True", reason |-> "Finished", by |-> n] : n \in writers} :
         \E cs : WriteStatus(statusNames, [Started |-> cs, Complete |-> cc], FALSE)
  BY DEF UpdateConditions
<1>3. PICK cs : WriteStatus(statusNames, [Started |-> cs, Complete |-> cc], FALSE)
  BY <1>2
<1>4. CASE UNCHANGED conds
  BY <1>1, <1>4 DEF cMap
<1>5. CASE conds' = [Started |-> cs, Complete |-> cc] /\ writers = {}
  BY <1>1, <1>2, <1>5 DEF cMap
<1>6. CASE conds' = [Started |-> cs, Complete |-> cc] /\ writers # {}
  <2>1. PICK n \in writers : cc = [status |-> "True", reason |-> "Finished", by |-> n]
    BY <1>2, <1>6
  <2>2. cMap'
    BY <1>6, <2>1 DEF cMap
  <2>3. CASE cMap
    BY <1>1, <2>2, <2>3 DEF cMap
  <2>4. CASE ~cMap
    <3> DEFINE c == vrest[n].cat
    <3>1. c \in Categories /\ n \in BackupNames
      BY DEF IInv, TypeOK
    <3>2. rMap[c] = n
      BY <3>1, RestoredForOwn DEF IInv, rMap
    <3>3. n # Nil /\ n[1] # MCCat
      BY <3>1, RestoreAssumption DEF IsMCRestore
    <3>4. c \in fMap
      BY <3>1, <3>2, <3>3 DEF rMap, fMap
    <3>5. QED
      BY <1>1, <2>2, <2>4, <3>2, <3>3, <3>4 DEF Intent!ReportComplete, rMap, fMap, cMap
  <2>5. QED
    BY <2>3, <2>4
<1>7. QED
  BY <1>3, <1>4, <1>5, <1>6 DEF WriteStatus

\* Changing only phases keeps the category each velero Restore was created
\* for, and so the restore recorded for each category.
LEMMA PhasesOnly ==
    ASSUME DOMAIN vrest' = DOMAIN vrest,
           \A n \in DOMAIN vrest : vrest'[n].cat = vrest[n].cat
    PROVE  rMap' = rMap
BY DEF rMap, RestoredFor

\* Velero advancing a velero Restore to a terminal phase finishes the
\* restore of its category; any other advance leaves the mapped state alone.
LEMMA RefProgress ==
    ASSUME IInv, NEW m \in BackupNames, VeleroRestoreProgress(m)
    PROVE  \/ \E c \in Categories : Intent!FinishRestore(c)
           \/ UNCHANGED <<sel, store, clock, rMap, fMap, cMap>>
<1>1. m \in DOMAIN vrest /\ UNCHANGED <<sel, store, clock, conds>>
  BY DEF VeleroRestoreProgress
<1>2. PICK p \in RestoreSuccessors(vrest[m].phase) : vrest' = [vrest EXCEPT ![m].phase = p]
  BY DEF VeleroRestoreProgress
<1>3. ~Finished(vrest[m].phase)
  BY <1>2, RestoreAssumption DEF RestoreSuccessors, Finished
<1> DEFINE c == vrest[m].cat
<1>4. /\ DOMAIN vrest' = DOMAIN vrest
      /\ \A n \in DOMAIN vrest : vrest'[n].cat = vrest[n].cat
      /\ \A k \in DOMAIN vrest \ {m} : vrest'[k] = vrest[k]
      /\ vrest'[m].phase = p
  BY <1>1, <1>2 DEF IInv, TypeOK
<1>5. rMap' = rMap /\ cMap' = cMap
  BY <1>1, <1>4, PhasesOnly DEF cMap
<1>6. c \in Categories /\ rMap[c] = m
  BY <1>1, RestoredForOwn DEF IInv, TypeOK, rMap
<1>7. \A d \in Categories : d # c => RestoredFor(d) # m
  BY RestoreAssumption DEF RestoredFor
<1>8. ASSUME NEW d \in Categories, RestoredFor(d) # Nil, RestoredFor(d) # m
      PROVE  vrest'[RestoredFor(d)].phase = vrest[RestoredFor(d)].phase
  <2>1. RestoredFor(d) \in DOMAIN vrest
    BY <1>8 DEF RestoredFor
  <2>2. QED
    BY <1>4, <1>8, <2>1
<1>9. \A d \in Categories : RestoredFor(d)' = RestoredFor(d)
  BY <1>5 DEF rMap
<1>10. c \notin fMap
  BY <1>3, <1>6 DEF rMap, fMap
<1>11. CASE Finished(p)
  <2>1. ASSUME NEW d \in Categories PROVE d \in fMap' <=> d \in fMap \/ d = c
    <3>1. CASE d = c
      BY <1>4, <1>6, <1>9, <1>10, <1>11, <3>1, RestoreAssumption DEF fMap, rMap
    <3>2. CASE d # c
      <4>1. RestoredFor(d) # m /\ RestoredFor(d)' = RestoredFor(d)
        BY <1>7, <1>9, <3>2
      <4>2. RestoredFor(d) # Nil =>
               vrest'[RestoredFor(d)].phase = vrest[RestoredFor(d)].phase
        BY <1>8, <4>1
      <4>3. QED
        BY <3>2, <4>1, <4>2 DEF fMap
    <3>3. QED
      BY <3>1, <3>2
  <2>2. fMap' = fMap \cup {c}
    <3>1. fMap' \subseteq Categories /\ fMap \subseteq Categories
      BY DEF fMap
    <3>2. QED
      BY <1>6, <2>1, <3>1
  <2>3. rMap[c] # Nil
    BY <1>6, RestoreAssumption
  <2>4. QED
    BY <1>1, <1>5, <1>6, <1>10, <2>2, <2>3 DEF Intent!FinishRestore, rMap, fMap, cMap
<1>12. CASE ~Finished(p)
  <2>1. fMap' = fMap
    BY <1>3, <1>4, <1>6, <1>8, <1>9, <1>12 DEF fMap, rMap
  <2>2. QED
    BY <1>1, <1>5, <2>1
<1>13. QED
  BY <1>11, <1>12


\* Every step of Restore is a step of RestoreIntent or leaves the mapped
\* state alone.
LEMMA RefStep ==
    ASSUME IInv, SortPicksFewest, [Next]_vars
    PROVE  [Intent!INext]_Intent!ivars
<1> SUFFICES \/ Intent!INext
             \/ UNCHANGED <<sel, store, clock, rMap, fMap, cMap>>
  BY DEF Intent!ivars, rMap, fMap, cMap
<1>1. CASE Reconcile /\ InitVeleroRestores
  BY <1>1, RefStart DEF Reconcile, Intent!INext
<1>2. CASE Reconcile /\ UpdateConditions
  BY <1>2, RefUpdate DEF Reconcile, Intent!INext
<1>3. CASE NewBackup \/ \E n \in DOMAIN store : StartBackup(n)
  BY <1>3, RefBackups DEF Intent!INext
<1>4. ASSUME NEW m \in BackupNames, VeleroRestoreProgress(m)
      PROVE  \/ Intent!INext
             \/ UNCHANGED <<sel, store, clock, rMap, fMap, cMap>>
  BY <1>4, RefProgress DEF Intent!INext
<1>5. CASE UNCHANGED vars
  BY <1>5, MappedUnchanged DEF vars
<1>6. QED
  BY <1>1, <1>2, <1>3, <1>4, <1>5 DEF Next, Reconcile

\* The Restore reconciler implements RestoreIntent: with its map-order
\* loop, listing orders, AlreadyExists and failing calls it starts each
\* category's restore at most once, from an allowed backup and never the
\* same backup twice, never replaces a restore, and reports the Restore
\* complete only after a non-managed-clusters restore finished; provided
\* the sort puts a fewest-error backup first, which TLC checks.
THEOREM RefinementGivenSort == Spec /\ []SortPicksFewest => RefinesIntent
<1>1. Spec => []IInv
  BY IInvInductive, PTL DEF Spec
<1>2. Init => Intent!IInit
  BY RefInit
<1>3. IInv /\ SortPicksFewest /\ [Next]_vars => [Intent!INext]_Intent!ivars
  BY RefStep
<1>4. QED
  BY <1>1, <1>2, <1>3, PTL DEF Spec, RefinesIntent, Intent!ISpec

=============================================================================
