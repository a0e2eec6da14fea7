--------------------------- MODULE RestoreProofs ----------------------------
(***************************************************************************)
(* Proofs about the Restore reconciler model, for every value of the       *)
(* constants satisfying RestoreAssumption.                                 *)
(***************************************************************************)
EXTENDS Restore, FiniteSetTheorems, SequenceTheorems, WellFoundedInduction, TLAPS

USE RestoreAssumption

-----------------------------------------------------------------------------
(* Lemmas about the operators of the model. *)

\* A nonempty bounded set of naturals has a greatest element.
LEMMA GreatestExists ==
    ASSUME NEW S \in SUBSET Nat, NEW N \in Nat, \A k \in S : k <= N, S # {}
    PROVE  \E m \in S : \A k \in S : k <= m
<1> DEFINE T == {N - k : k \in S}
<1>1. T \subseteq Nat /\ T # {}
  OBVIOUS
<1>2. PICK x \in T : \A y \in T : ~(<<y, x>> \in OpToRel(<, Nat))
  BY <1>1, NatLessThanWellFounded, WFMin
<1>3. PICK m \in S : x = N - m
  BY <1>2
<1>4. ASSUME NEW k \in S PROVE k <= m
  <2>1. N - k \in T /\ N - k \in Nat /\ N - m \in Nat
    OBVIOUS
  <2>2. ~(<<N - k, N - m>> \in OpToRel(<, Nat))
    BY <1>2, <1>3, <2>1
  <2>3. QED
    BY <2>1, <2>2 DEF OpToRel
<1>5. QED
  BY <1>4

\* A listing order of the categories is a sequence of categories.
LEMMA OrderIsSeq ==
    ASSUME NEW o \in SetToSeqs(Categories)
    PROVE  /\ o \in Seq(Categories)
           /\ Len(o) \in Nat
           /\ o \in [1..Len(o) -> Categories]
<1>1. Cardinality(Categories) \in Nat
  BY FS_CardinalityType
<1>2. o \in [1..Cardinality(Categories) -> Categories]
  BY DEF SetToSeqs
<1>3. o \in Seq(Categories)
  BY <1>1, <1>2, SeqDef
<1>4. QED
  BY <1>3, LenProperties

\* The closed form of the initVeleroRestores loop is well typed, and it
\* creates at most one velero Restore per category.
LEMMA LoopTyped ==
    ASSUME NEW o \in SetToSeqs(Categories),
           NEW pick \in [Categories -> BackupNames \cup {Nil}],
           NEW fc, NEW names \in [Categories -> BackupNames \cup {Nil}],
           NEW st \in Condition
    PROVE  LET R == LoopRestores(o, pick, fc) IN
           /\ DOMAIN R \subseteq BackupNames
           /\ R \in [DOMAIN R -> [cat : Categories, phase : VeleroRestorePhases]]
           /\ \A m, n \in DOMAIN R : R[m].cat = R[n].cat => m = n
           /\ LoopNames(o, pick, fc, names) \in [Categories -> BackupNames \cup {Nil}]
           /\ LoopStarted(o, pick, fc, st) \in Condition
<1> DEFINE C == CreatedAt(o, pick, fc)
           CF == CreatedFor(o, pick, fc)
           R == LoopRestores(o, pick, fc)
<1>1. Len(o) \in Nat /\ o \in [1..Len(o) -> Categories]
  BY OrderIsSeq
<1>2. C \subseteq 1..Len(o) /\ \A i \in C : pick[o[i]] \in BackupNames
  BY <1>1 DEF CreatedAt, Resolved
<1>3. CF \subseteq Categories /\ \A c \in CF : pick[c] \in BackupNames
  BY <1>1, <1>2 DEF CreatedFor
<1>4. DOMAIN R = {pick[c] : c \in CF}
  BY DEF LoopRestores
<1>5. ASSUME NEW n \in DOMAIN R
      PROVE  /\ R[n] = [cat |-> R[n].cat, phase |-> Nil]
             /\ R[n].cat \in CF
             /\ pick[R[n].cat] = n
  <2>1. \E c \in CF : pick[c] = n
    BY <1>4
  <2>2. QED
    BY <2>1 DEF LoopRestores
<1>6. Nil \in VeleroRestorePhases
  BY DEF VeleroRestorePhases
<1>7. LoopStarted(o, pick, fc, st) \in Condition
  <2>1. CASE C = {}
    BY <2>1 DEF LoopStarted
  <2>2. CASE C # {}
    <3>0. C \in SUBSET Nat /\ \A k \in C : k <= Len(o)
      BY <1>1, <1>2
    <3>1. \E m \in C : \A k \in C : k <= m
      BY <1>1, <2>2, <3>0, GreatestExists
    <3>2. (CHOOSE i \in C : \A j \in C : j <= i) \in C
      BY <3>1
    <3>3. QED
      BY <1>2, <2>2, <3>2 DEF LoopStarted, Condition
  <2>3. QED
    BY <2>1, <2>2
<1>8. DOMAIN R \subseteq BackupNames
  BY <1>3, <1>4
<1>9. R \in [DOMAIN R -> [cat : Categories, phase : VeleroRestorePhases]]
  BY <1>3, <1>5, <1>6 DEF LoopRestores
<1>10. \A m, n \in DOMAIN R : R[m].cat = R[n].cat => m = n
  BY <1>5
<1>11. LoopNames(o, pick, fc, names) \in [Categories -> BackupNames \cup {Nil}]
  BY <1>3 DEF LoopNames
<1>12. QED
  BY <1>7, <1>8, <1>9, <1>10, <1>11

-----------------------------------------------------------------------------
(* The inductive invariant. *)

\* No two owned velero Restores were created for the same category.
OneRestorePerCategory ==
    \A m, n \in DOMAIN vrest : vrest[m].cat = vrest[n].cat => m = n

\* RestoreComplete is True only while some owned velero Restore outside the
\* managed-clusters category has finished.
CompleteWitnessed ==
    conds.Complete.status = "True" =>
       \E n \in DOMAIN vrest : Finished(vrest[n].phase) /\ ~IsMCRestore(n)

IInv == TypeOK /\ OneRestorePerCategory /\ CompleteWitnessed

-----------------------------------------------------------------------------
(* Type correctness. *)

\* getVeleroBackupName returns a backup name or Nil.
LEMMA ResolveTyped ==
    ASSUME TypeOK, NEW c \in Categories
    PROVE  ResolveBackupName(c) \subseteq BackupNames \cup {Nil}
BY DEF ResolveBackupName, SelectBackup, RelatedBackups, TypeOK

\* A status write keeps the status and the failure count typed.
LEMMA WriteStatusTyped ==
    ASSUME TypeOK,
           NEW names \in [Categories -> BackupNames \cup {Nil}],
           NEW cs \in [{"Started", "Complete"} -> Condition],
           NEW changed \in BOOLEAN,
           WriteStatus(names, cs, changed)
    PROVE  /\ statusNames' \in [Categories -> BackupNames \cup {Nil}]
           /\ conds' \in [{"Started", "Complete"} -> Condition]
           /\ queued' \in BOOLEAN
           /\ statusFailures' \in 0..MaxStatusFailures
<1>1. CASE /\ statusNames' = names
           /\ conds' = cs
           /\ queued' = (changed \/ names # statusNames \/ cs # conds)
           /\ UNCHANGED statusFailures
  BY <1>1 DEF TypeOK
<1>2. CASE /\ statusFailures < MaxStatusFailures
           /\ statusFailures' = statusFailures + 1
           /\ queued' = TRUE
           /\ UNCHANGED <<statusNames, conds>>
  BY <1>2 DEF TypeOK
<1>3. QED
  BY <1>1, <1>2 DEF WriteStatus

\* The velero Restore phases Velero moves to are phases.
LEMMA SuccessorsTyped ==
    ASSUME NEW p \in VeleroRestorePhases
    PROVE  RestoreSuccessors(p) \subseteq VeleroRestorePhases
BY DEF RestoreSuccessors, VeleroRestorePhases

\* The branch of Reconcile that creates the velero Restores keeps the
\* state typed, creates at most one velero Restore per category and
\* leaves RestoreComplete alone.
LEMMA InitVeleroRestoresStep ==
    ASSUME TypeOK, InitVeleroRestores
    PROVE  /\ DOMAIN vrest' \subseteq BackupNames
           /\ vrest' \in [DOMAIN vrest' -> [cat : Categories, phase : VeleroRestorePhases]]
           /\ statusNames' \in [Categories -> BackupNames \cup {Nil}]
           /\ conds' \in [{"Started", "Complete"} -> Condition]
           /\ queued' \in BOOLEAN
           /\ readFailures' \in 0..MaxReadFailures
           /\ createFailures' \in 0..MaxCreateFailures
           /\ statusFailures' \in 0..MaxStatusFailures
           /\ \A m, n \in DOMAIN vrest' : vrest'[m].cat = vrest'[n].cat => m = n
           /\ conds'.Complete = conds.Complete
<1>1. PICK readFail \in IF readFailures < MaxReadFailures
                        THEN Categories \cup {Nil} ELSE {Nil},
           failCreate \in IF createFailures < MaxCreateFailures
                          THEN Categories \cup {Nil} ELSE {Nil},
           order \in SetToSeqs(Categories),
           pick \in [Categories -> UNION {ResolveBackupName(c) : c \in Categories} \cup {Nil}] :
         /\ \A c \in Categories :
               pick[c] \in IF c = readFail THEN {Nil} ELSE ResolveBackupName(c)
         /\ vrest' = LoopRestores(order, pick, failCreate)
         /\ IF LoopFails(order, pick, failCreate)
            THEN /\ queued' = TRUE
                 /\ UNCHANGED <<statusNames, conds, statusFailures>>
            ELSE WriteStatus(LoopNames(order, pick, failCreate, statusNames),
                             [conds EXCEPT !.Started =
                                LoopStarted(order, pick, failCreate, conds.Started)],
                             vrest' # vrest)
         /\ readFailures' = readFailures + (IF readFail = Nil THEN 0 ELSE 1)
         /\ createFailures' = createFailures + (IF failCreate = Nil THEN 0 ELSE 1)
  BY DEF InitVeleroRestores
<1>2. pick \in [Categories -> BackupNames \cup {Nil}]
  BY <1>1, ResolveTyped
<1>3. conds.Started \in Condition
  BY DEF TypeOK
<1>4. /\ DOMAIN vrest' \subseteq BackupNames
      /\ vrest' \in [DOMAIN vrest' -> [cat : Categories, phase : VeleroRestorePhases]]
      /\ LoopNames(order, pick, failCreate, statusNames) \in [Categories -> BackupNames \cup {Nil}]
      /\ LoopStarted(order, pick, failCreate, conds.Started) \in Condition
  BY <1>1, <1>2, <1>3, LoopTyped DEF TypeOK
<1>5. [conds EXCEPT !.Started = LoopStarted(order, pick, failCreate, conds.Started)]
         \in [{"Started", "Complete"} -> Condition]
  BY <1>4 DEF TypeOK
<1>6. /\ statusNames' \in [Categories -> BackupNames \cup {Nil}]
      /\ conds' \in [{"Started", "Complete"} -> Condition]
      /\ queued' \in BOOLEAN
      /\ statusFailures' \in 0..MaxStatusFailures
  <2>1. CASE LoopFails(order, pick, failCreate)
    BY <1>1, <2>1 DEF TypeOK
  <2>2. CASE ~LoopFails(order, pick, failCreate)
    BY <1>1, <1>4, <1>5, <2>2, WriteStatusTyped
  <2>3. QED
    BY <2>1, <2>2
<1>7. readFailures' \in 0..MaxReadFailures /\ createFailures' \in 0..MaxCreateFailures
  BY <1>1 DEF TypeOK
<1>8. \A m, n \in DOMAIN vrest' : vrest'[m].cat = vrest'[n].cat => m = n
  BY <1>1, <1>2, <1>3, LoopTyped DEF TypeOK
<1>9. conds'.Complete = conds.Complete
  <2>1. CASE LoopFails(order, pick, failCreate)
    BY <1>1, <2>1
  <2>2. CASE ~LoopFails(order, pick, failCreate)
    BY <1>1, <2>2 DEF WriteStatus, TypeOK
  <2>3. QED
    BY <2>1, <2>2
<1>10. QED
  BY <1>4, <1>6, <1>7, <1>8, <1>9

\* The initial states are typed.
LEMMA TypeInit ==
    ASSUME Init PROVE TypeOK
<1>1. NoCondition \in Condition /\ Nil \in VeleroRestorePhases
  BY DEF NoCondition, Condition, VeleroRestorePhases
<1>2. DOMAIN vrest = {}
  BY DEF Init
<1>3. QED
  BY <1>1, <1>2 DEF Init, TypeOK

\* Every step keeps the state typed.
LEMMA TypeStep ==
    ASSUME TypeOK, [Next]_vars
    PROVE  TypeOK'
<1>1. CASE Reconcile
  <2>1. UNCHANGED <<sel, store, clock>>
    BY <1>1 DEF Reconcile
  <2>2. CASE InitVeleroRestores
    BY <2>1, <2>2, InitVeleroRestoresStep DEF TypeOK
  <2>3. CASE UpdateConditions
    <3>1. PICK cc \in IF {n \in DOMAIN vrest : Finished(vrest[n].phase) /\ ~IsMCRestore(n)} = {}
                     THEN {conds.Complete}
                     ELSE {[status |-> "True", reason |-> "Finished", by |-> n] :
                             n \in {n \in DOMAIN vrest : Finished(vrest[n].phase) /\ ~IsMCRestore(n)}},
               cs \in IF {n \in DOMAIN vrest : ~Finished(vrest[n].phase)} = {}
                     THEN {conds.Started}
                     ELSE {[status |-> IF Running(vrest[n].phase) THEN "True" ELSE "False",
                            reason |-> "Running", by |-> n] :
                             n \in {n \in DOMAIN vrest : ~Finished(vrest[n].phase)}} :
                 WriteStatus(statusNames, [Started |-> cs, Complete |-> cc], FALSE)
      BY <2>3 DEF UpdateConditions
    <3>2. cc \in Condition /\ cs \in Condition
      BY <3>1 DEF TypeOK, Condition
    <3>3. [Started |-> cs, Complete |-> cc] \in [{"Started", "Complete"} -> Condition]
      BY <3>2
    <3>4. QED
      BY <2>1, <2>3, <3>1, <3>3, WriteStatusTyped DEF UpdateConditions, TypeOK
  <2>4. QED
    BY <1>1, <2>2, <2>3 DEF Reconcile
<1>2. CASE NewBackup
  <2>1. PICK n \in BackupNames \ DOMAIN store :
               store' = [m \in DOMAIN store \cup {n} |->
                           IF m = n THEN [errors |-> 0, start |-> Nil] ELSE store[m]]
    BY <1>2 DEF NewBackup
  <2>2. [errors |-> 0, start |-> Nil] \in BackupInfo
    BY DEF BackupInfo
  <2>3. DOMAIN store' = {n} \cup DOMAIN store
    BY <2>1
  <2>4. store' \in [DOMAIN store' -> BackupInfo]
    BY <2>1, <2>2, <2>3 DEF TypeOK
  <2>5. QED
    BY <1>2, <2>3, <2>4 DEF NewBackup, TypeOK
<1>3. ASSUME NEW n \in DOMAIN store, StartBackup(n)
      PROVE  TypeOK'
  <2>1. PICK e \in 0..MaxErrors :
               store' = [store EXCEPT ![n] = [errors |-> e, start |-> clock + 1]]
    BY <1>3 DEF StartBackup
  <2>2. clock + 1 \in 1..MaxTime /\ clock' = clock + 1
    BY <1>3 DEF StartBackup, TypeOK
  <2>3. [errors |-> e, start |-> clock + 1] \in BackupInfo
    BY <2>2 DEF BackupInfo
  <2>4. QED
    BY <1>3, <2>1, <2>2, <2>3 DEF StartBackup, TypeOK
<1>4. ASSUME NEW n \in BackupNames, VeleroRestoreProgress(n)
      PROVE  TypeOK'
  <2>1. n \in DOMAIN vrest
    BY <1>4 DEF VeleroRestoreProgress
  <2>2. vrest[n].phase \in VeleroRestorePhases
    BY <2>1 DEF TypeOK
  <2>3. PICK p \in RestoreSuccessors(vrest[n].phase) : vrest' = [vrest EXCEPT ![n].phase = p]
    BY <1>4 DEF VeleroRestoreProgress
  <2>4. p \in VeleroRestorePhases
    BY <2>2, <2>3, SuccessorsTyped
  <2>5. DOMAIN vrest' = DOMAIN vrest
        /\ vrest' \in [DOMAIN vrest' -> [cat : Categories, phase : VeleroRestorePhases]]
    BY <2>1, <2>3, <2>4 DEF TypeOK
  <2>6. QED
    BY <1>4, <2>5 DEF VeleroRestoreProgress, TypeOK
<1>5. CASE UNCHANGED vars
  BY <1>5 DEF vars, TypeOK
<1>6. QED
  BY <1>1, <1>2, <1>3, <1>4, <1>5 DEF Next

\* Every reachable state of the Restore reconciler model is well typed.
THEOREM TypeCorrect == Spec => []TypeOK
<1>1. Init => TypeOK
  BY TypeInit
<1>2. TypeOK /\ [Next]_vars => TypeOK'
  BY TypeStep
<1>3. QED
  BY <1>1, <1>2, PTL DEF Spec

-----------------------------------------------------------------------------
(* RestoreComplete is justified. *)

\* The branch that reads the velero Restores raises RestoreComplete only
\* with a finished velero Restore outside the managed-clusters category.
LEMMA UpdateConditionsStep ==
    ASSUME TypeOK, CompleteWitnessed, UpdateConditions
    PROVE  CompleteWitnessed'
<1> DEFINE writers == {n \in DOMAIN vrest : Finished(vrest[n].phase) /\ ~IsMCRestore(n)}
<1>1. UNCHANGED vrest
  BY DEF UpdateConditions
<1>2. PICK cc \in IF writers = {} THEN {conds.Complete}
                  ELSE {[status |-> "True", reason |-> "Finished", by |-> n] : n \in writers} :
         \E cs : WriteStatus(statusNames, [Started |-> cs, Complete |-> cc], FALSE)
  BY DEF UpdateConditions
<1>3. PICK cs : WriteStatus(statusNames, [Started |-> cs, Complete |-> cc], FALSE)
  BY <1>2
<1>4. CASE conds' = [Started |-> cs, Complete |-> cc]
  <2>1. CASE writers = {}
    BY <1>1, <1>2, <1>4, <2>1 DEF CompleteWitnessed
  <2>2. CASE writers # {}
    <3>1. PICK n \in writers : cc = [status |-> "True", reason |-> "Finished", by |-> n]
      BY <1>2, <2>2
    <3>2. QED
      BY <1>1, <1>4, <3>1 DEF CompleteWitnessed
  <2>3. QED
    BY <2>1, <2>2
<1>5. CASE UNCHANGED conds
  BY <1>1, <1>5 DEF CompleteWitnessed
<1>6. QED
  BY <1>3, <1>4, <1>5 DEF WriteStatus

\* Velero advancing a velero Restore keeps it, and a finished one is left
\* as it is.
LEMMA ProgressStep ==
    ASSUME TypeOK, OneRestorePerCategory, CompleteWitnessed,
           NEW m \in BackupNames, VeleroRestoreProgress(m)
    PROVE  OneRestorePerCategory' /\ CompleteWitnessed'
<1>1. m \in DOMAIN vrest /\ UNCHANGED conds
  BY DEF VeleroRestoreProgress
<1>2. PICK p \in RestoreSuccessors(vrest[m].phase) : vrest' = [vrest EXCEPT ![m].phase = p]
  BY DEF VeleroRestoreProgress
<1>3. ~Finished(vrest[m].phase)
  BY <1>2 DEF RestoreSuccessors, Finished
<1>4. DOMAIN vrest' = DOMAIN vrest
      /\ \A n \in DOMAIN vrest : vrest'[n].cat = vrest[n].cat
      /\ \A k \in DOMAIN vrest \ {m} : vrest'[k] = vrest[k]
  BY <1>1, <1>2 DEF TypeOK
<1>5. OneRestorePerCategory'
  BY <1>4 DEF OneRestorePerCategory
<1>6. CompleteWitnessed'
  BY <1>1, <1>3, <1>4 DEF CompleteWitnessed
<1>7. QED
  BY <1>5, <1>6

\* The invariant holds initially and is kept by every step.
LEMMA IInvInductive ==
    /\ Init => IInv
    /\ IInv /\ [Next]_vars => IInv'
<1>1. Init => IInv
  <2> SUFFICES ASSUME Init PROVE IInv
    OBVIOUS
  <2>1. TypeOK
    BY TypeInit
  <2>2. DOMAIN vrest = {} /\ conds.Complete.status = "Absent"
    BY DEF Init, NoCondition
  <2>3. QED
    BY <2>1, <2>2 DEF IInv, OneRestorePerCategory, CompleteWitnessed
<1>2. IInv /\ [Next]_vars => IInv'
  <2> SUFFICES ASSUME IInv, [Next]_vars PROVE IInv'
    OBVIOUS
  <2>1. TypeOK /\ OneRestorePerCategory /\ CompleteWitnessed
    BY DEF IInv
  <2>2. TypeOK'
    BY <2>1, TypeStep
  <2>3. CASE Reconcile /\ InitVeleroRestores
    <3>1. conds.Complete.status # "True"
      BY <2>1, <2>3 DEF CompleteWitnessed, InitVeleroRestores, NoOwnedRestores
    <3>2. QED
      BY <2>1, <2>2, <2>3, <3>1, InitVeleroRestoresStep DEF IInv, OneRestorePerCategory,
         CompleteWitnessed
  <2>4. CASE Reconcile /\ UpdateConditions
    BY <2>1, <2>2, <2>4, UpdateConditionsStep DEF IInv, OneRestorePerCategory, UpdateConditions
  <2>5. CASE NewBackup \/ \E n \in DOMAIN store : StartBackup(n)
    <3>1. UNCHANGED <<vrest, conds>>
      BY <2>5 DEF NewBackup, StartBackup
    <3>2. QED
      BY <2>1, <2>2, <3>1 DEF IInv, OneRestorePerCategory, CompleteWitnessed
  <2>6. ASSUME NEW m \in BackupNames, VeleroRestoreProgress(m)
        PROVE  IInv'
    BY <2>1, <2>2, <2>6, ProgressStep DEF IInv
  <2>7. CASE UNCHANGED vars
    BY <2>1, <2>7 DEF vars, IInv, OneRestorePerCategory, CompleteWitnessed, TypeOK
  <2>8. QED
    BY <2>3, <2>4, <2>5, <2>6, <2>7 DEF Next, Reconcile
<1>3. QED
  BY <1>1, <1>2

\* The invariant gives the property: the witness is the velero Restore
\* recorded for its own category, because each category has at most one.
LEMMA IInvJustifies ==
    ASSUME IInv PROVE RestoreCompleteJustified
<1> SUFFICES ASSUME conds.Complete.status = "True"
             PROVE  \E c \in {c \in Categories :
                                RestoredFor(c) # Nil /\ Finished(vrest[RestoredFor(c)].phase)} :
                       /\ [d \in Categories |-> RestoredFor(d)][c] # Nil
                       /\ [d \in Categories |-> RestoredFor(d)][c][1] # MCCat
  BY DEF RestoreCompleteJustified, Intent!CompleteJustified
<1>1. PICK n \in DOMAIN vrest : Finished(vrest[n].phase) /\ ~IsMCRestore(n)
  BY DEF IInv, CompleteWitnessed
<1> DEFINE c == vrest[n].cat
<1>2. c \in Categories /\ n \in BackupNames
  BY DEF IInv, TypeOK
<1>3. RestoredFor(c) = n
  <2>1. \E k \in DOMAIN vrest : vrest[k].cat = c
    OBVIOUS
  <2>2. (CHOOSE k \in DOMAIN vrest : vrest[k].cat = c) = n
    BY <2>1 DEF IInv, OneRestorePerCategory
  <2>3. QED
    BY <2>1, <2>2 DEF RestoredFor
<1>4. n # Nil /\ n[1] # MCCat
  BY <1>1, <1>2 DEF IsMCRestore
<1>5. QED
  BY <1>1, <1>2, <1>3, <1>4

\* RestoreComplete is True only when a velero Restore outside the
\* managed-clusters category has finished, the one recorded for its
\* category (Reconcile's strings.Contains check, for all constants).
THEOREM CompleteJustifiedInvariant == Spec => []RestoreCompleteJustified
<1>1. Spec => []IInv
  BY IInvInductive, PTL DEF Spec
<1>2. QED
  BY <1>1, IInvJustifies, PTL

=============================================================================
