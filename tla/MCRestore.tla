----------------------------- MODULE MCRestore ------------------------------
(* Model-checking instance of Restore: the three categories, two backups  *)
(* per category at most.                                                   *)
EXTENDS Restore

CONSTANTS mc, creds, res

MCCategories == {mc, creds, res}

\* No names given, or the managed clusters skipped.
MCSelChoices ==
    {[c \in MCCategories |-> Nil],
     [c \in MCCategories |-> IF c = mc THEN Skip ELSE Nil]}

\* As MCSelChoices, and the credentials and resources categories naming the
\* same resources backup: both resolve to one velero Restore name, and the
\* second Create fails with AlreadyExists.
MCIntentSelChoices ==
    MCSelChoices \cup {[c \in MCCategories |-> IF c = mc THEN Skip ELSE <<res, 1>>]}

\* Two backups of the resources category, one of each other category.
MCBackupNames == {<<mc, 1>>, <<creds, 1>>, <<res, 1>>, <<res, 2>>}

MCInitStore == [n \in {} |-> [errors |-> 0, start |-> Nil]]

MCNoRestores == [n \in {} |-> [cat |-> mc, phase |-> Nil]]

\* The resources category asks for "latest", the others are skipped.
MCLatestSel == {[c \in MCCategories |-> IF c = res THEN Latest ELSE Skip]}

\* No backup names given.
MCNoNames == {[c \in MCCategories |-> Nil]}

\* One started backup per category, already in storage.
MCFullStore ==
    [n \in {<<mc, 1>>, <<creds, 1>>, <<res, 1>>} |-> [errors |-> 0, start |-> 1]]
(* The loop of initVeleroRestores written as the code runs it, one        *)
(* iteration per category in map order, from no velero Restore: the      *)
(* reference for the closed form LoopRestores, LoopNames, LoopStarted and *)
(* LoopFails that Restore uses.                                           *)
LoopByIteration(o, pick, fc, names, started) ==
    LET Step(acc, c) ==
          IF acc.err \/ pick[c] = Nil THEN acc
          ELSE IF pick[c] \in DOMAIN acc.rest \/ c = fc
          THEN [acc EXCEPT !.err = TRUE]
          ELSE [acc EXCEPT
                  !.rest = (pick[c] :> [cat |-> c, phase |-> Nil]) @@ @,
                  !.names = [@ EXCEPT ![c] = pick[c]],
                  !.started = [status |-> "True", reason |-> "Started", by |-> pick[c]]]
    IN  FoldLeft(Step, [rest |-> MCNoRestores, names |-> names,
                        started |-> started, err |-> FALSE], o)

\* For every map order, every resolved name per category and every failing
\* Create, the closed form of the loop is what the iterations compute.
ASSUME LoopClosedForm ==
    \A o \in SetToSeqs(MCCategories), fc \in MCCategories \cup {Nil},
       pick \in [MCCategories -> MCBackupNames \cup {Nil}] :
       LET names0 == [c \in MCCategories |-> Nil]
           r == LoopByIteration(o, pick, fc, names0, NoCondition)
       IN  /\ r.rest = LoopRestores(o, pick, fc)
           /\ r.names = LoopNames(o, pick, fc, names0)
           /\ r.started = LoopStarted(o, pick, fc, NoCondition)
           /\ r.err = LoopFails(o, pick, fc)
=============================================================================
