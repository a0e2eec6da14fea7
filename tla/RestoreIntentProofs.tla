------------------------ MODULE RestoreIntentProofs ------------------------
(***************************************************************************)
(* Proofs about RestoreIntent, for every value of its constants.           *)
(***************************************************************************)
EXTENDS RestoreIntent, TLAPS

\* The inductive strengthening of CompleteJustified: a finished category
\* has a restore, so before any restore starts nothing is finished and
\* nothing is reported complete.
IInv ==
    /\ finished \subseteq {c \in Categories : restored[c] # Nil}
    /\ CompleteJustified

\* Completion is reported only after a restore outside the managed-clusters
\* category finished (the promise Reconcile's strings.Contains check keeps).
THEOREM IntentCompleteJustified == ISpec => []CompleteJustified
<1>1. IInit => IInv
  BY DEF IInit, IInv, CompleteJustified
<1>2. IInv /\ [INext]_ivars => IInv'
  <2> SUFFICES ASSUME IInv, [INext]_ivars PROVE IInv'
    OBVIOUS
  <2>1. CASE StartRestores
    <3>1. finished = {} /\ ~complete
      BY <2>1 DEF StartRestores, IInv, CompleteJustified
    <3>2. QED
      BY <2>1, <3>1 DEF StartRestores, IInv, CompleteJustified
  <2>2. ASSUME NEW c \in Categories, FinishRestore(c) PROVE IInv'
    BY <2>2 DEF FinishRestore, IInv, CompleteJustified
  <2>3. CASE ReportComplete
    BY <2>3 DEF ReportComplete, IInv, CompleteJustified
  <2>4. CASE ChangeBackups
    BY <2>4 DEF ChangeBackups, IInv, CompleteJustified
  <2>5. CASE UNCHANGED ivars
    BY <2>5 DEF ivars, IInv, CompleteJustified
  <2>6. QED
    BY <2>1, <2>2, <2>3, <2>4, <2>5 DEF INext
<1>3. IInv => CompleteJustified
  BY DEF IInv
<1>4. QED
  BY <1>1, <1>2, <1>3, PTL DEF ISpec
=============================================================================
