------------------------ MODULE PublishClosure_proofs ------------------------
(***************************************************************************)
(* Proofs that hold for every number of runs: the type invariant, that the *)
(* last complete pair is never lost, and that no run touches a backup it   *)
(* did not make.                                                           *)
(***************************************************************************)
EXTENDS PublishClosure, TLAPS

Rolling == pc \in {"rollRemove", "rollRename"}
Publishing == pc \in {"publishBundle", "publishRoot"}

\* The tool's own bundle is the only kind of bundle a pair can have.
PairIsManaged == Exists(lastGood["bundle"]) => OwnedBundle(lastGood["bundle"])

\* A backup name the run will act on was free when the run began.  The name of
\* the root's backup is meaningless in a rollback of the bundle alone, where
\* moveAside of the root has failed.
BackupIsOwn ==
  pc # "idle" =>
    /\ backup["bundle"] => ~Exists(before["bundleBackup"])
    /\ backup["root"] /\ (Rolling => both) => ~Exists(before["rootBackup"])

\* An artifact that the next steps may overwrite or remove is not the only
\* copy of its half of the last pair.
SavedAside ==
  /\ \/ pc = "asideRoot"
     \/ Publishing
     \/ Rolling /\ target = "bundle"
     => (Exists(lastGood["bundle"]) => fs["bundleBackup"] = lastGood["bundle"])
  /\ Publishing \/ (Rolling /\ both)
     => (Exists(lastGood["root"]) => fs["rootBackup"] = lastGood["root"])

\* The root is restored only by reportRollback, and a backup is renamed back
\* only if the run named it.
RestoreIsDue ==
  /\ Rolling /\ target = "root" => both
  /\ pc = "rollRename" => backup[target]

\* From the commit point on, the last pair is the one in place.
InPlace ==
  /\ pc = "publishRoot" /\ hasHeaders => fs["bundle"] = NewBundle(run)
  /\ pc \in {"dropRoot", "dropBundle"} =>
       \A p \in Artifacts : Exists(lastGood[p]) => fs[p] = lastGood[p]

IInv ==
  /\ TypeOK
  /\ LastPairRecoverable
  /\ StaleBackupKept
  /\ PairIsManaged
  /\ BackupIsOwn
  /\ SavedAside
  /\ RestoreIsDue
  /\ InPlace

-----------------------------------------------------------------------------
\* What paths can hold, and that an absent path holds nothing.
LEMMA ContentTypes ==
  /\ Absent \in Contents
  /\ ~Exists(Absent)
  /\ \A r \in Nat : NewRoot(r) \in Contents /\ NewBundle(r) \in Contents
  /\ \A r \in Nat : OwnedBundle(NewBundle(r))
  /\ InitialRoots \subseteq Contents
  /\ InitialBundles \subseteq Contents
BY DEF Absent, NewRoot, NewBundle, OwnedBundle, Contents, Kinds, Exists,
       InitialRoots, InitialBundles, Foreign

\* A failed recursive remove leaves something a path can hold.
LEMMA LeftoversType ==
  ASSUME NEW c \in Contents, NEW d \in Leftovers(c)
  PROVE  d \in Contents
<1>1. c.gen \in Nat /\ c.managed \in BOOLEAN /\ "dir" \in Kinds
  BY DEF Contents, Kinds
<1>2. CASE d = c
  BY <1>2
<1>3. CASE d # c
  <2>1. PICK m \in {FALSE, c.managed} :
          d = [kind |-> "dir", managed |-> m, gen |-> c.gen, whole |-> FALSE]
    BY <1>3 DEF Leftovers
  <2> QED
    BY <1>1, <2>1 DEF Contents
<1> QED
  BY <1>2, <1>3

\* The destination before the first run.
LEMMA InitialTypes ==
  Init => /\ fs \in [Paths -> Contents]
          /\ before \in [Paths -> Contents]
          /\ lastGood \in [root: Contents, bundle: Contents]
<1> SUFFICES ASSUME Init
             PROVE  /\ fs \in [Paths -> Contents]
                    /\ before \in [Paths -> Contents]
                    /\ lastGood \in [root: Contents, bundle: Contents]
  OBVIOUS
<1>1. PICK r \in InitialRoots, b \in InitialBundles :
        fs = [p \in Paths |-> IF p = "root" THEN r
                              ELSE IF p = "bundle" THEN b ELSE Absent]
  BY DEF Init
<1>2. r \in Contents /\ b \in Contents /\ Absent \in Contents
  BY ContentTypes
<1>3. fs \in [Paths -> Contents] /\ fs["root"] = r /\ fs["bundle"] = b
  BY <1>1, <1>2 DEF Paths, Artifacts
<1> QED
  BY <1>2, <1>3 DEF Init

\* The types hold initially.
LEMMA TypeInit == Init => TypeOK
<1> SUFFICES ASSUME Init PROVE TypeOK
  OBVIOUS
<1>1. backup \in [Artifacts -> BOOLEAN] /\ target \in Artifacts
  BY DEF Init, Artifacts
<1> QED
  BY <1>1, InitialTypes DEF Init, TypeOK

\* Every step of a run, a new run and a crash keep the types.
LEMMA TypeNext == TypeOK /\ [Next]_vars => TypeOK'
<1> SUFFICES ASSUME TypeOK, [Next]_vars PROVE TypeOK'
  OBVIOUS
<1> USE ContentTypes DEF TypeOK, Paths, Artifacts, BackupOf
<1>1. ASSUME NEW h \in BOOLEAN, Begin(h) PROVE TypeOK'
  <2>1. backup' \in [Artifacts -> BOOLEAN]
    BY <1>1 DEF Begin
  <2>2. run' \in Nat
    BY <1>1 DEF Begin
  <2>3. hasHeaders' \in BOOLEAN /\ faulted' \in BOOLEAN /\ restored' \in BOOLEAN
    BY <1>1, Zenon DEF Begin
  <2>4. fs' = fs /\ target' = target /\ both' = both /\ lastGood' = lastGood
        /\ before' = fs /\ pc' = "inspect" /\ result' = "none" /\ tries' = 0
    BY <1>1 DEF Begin
  <2> QED
    BY <2>1, <2>2, <2>3, <2>4
<1>2. CASE InspectRefuse \/ InspectAdmit
  BY <1>2 DEF InspectRefuse, InspectAdmit, Return, Fault, NoFault
<1>3. CASE AsideBundle \/ AsideRoot
  <2>1. fs' \in [Paths -> Contents]
    BY <1>3 DEF AsideBundle, AsideRoot, MoveAside
  <2>2. backup' \in [Artifacts -> BOOLEAN]
    BY <1>3 DEF AsideBundle, AsideRoot, MoveAside
  <2> QED
    BY <1>3, <2>1, <2>2 DEF AsideBundle, AsideRoot
<1>4. CASE AsideBundleFails \/ AsideRootFails
  BY <1>4 DEF AsideBundleFails, AsideRootFails, MoveAsideFails, Return,
              StartRollback, Fault, NoFault
<1>5. CASE PublishBundle
  BY <1>5 DEF PublishBundle
<1>6. CASE PublishRoot
  BY <1>6 DEF PublishRoot
<1>7. CASE PublishFails
  BY <1>7 DEF PublishFails, StartRollback, Fault
<1>8. CASE DropRootBackup \/ DropBundleBackup
  BY <1>8 DEF DropRootBackup, DropBundleBackup, DropBackup, Return
<1>9. CASE DropBackupFails
  BY <1>9, LeftoversType DEF DropBackupFails, Return, Fault
<1>10. CASE RollbackRemove
  BY <1>10 DEF RollbackRemove, EndRestore, Return
<1>11. CASE RollbackRemoveFails
  <2>1. PICK c \in Leftovers(fs[target]) : fs' = [fs EXCEPT ![target] = c]
    BY <1>11 DEF RollbackRemoveFails
  <2>2. c \in Contents
    BY <2>1, LeftoversType
  <2> QED
    BY <1>11, <2>1, <2>2 DEF RollbackRemoveFails, EndRestore, Return, Fault
<1>12. ASSUME NEW ok \in BOOLEAN, RollbackRename(ok) PROVE TypeOK'
  BY <1>12 DEF RollbackRename, EndRestore, Return
<1>13. CASE RollbackRenameFails
  BY <1>13 DEF RollbackRenameFails, EndRestore, Return, Fault
<1>14. CASE Crash
  BY <1>14 DEF Crash, Return
<1>15. CASE UNCHANGED vars
  BY <1>15 DEF vars
<1> QED
  BY <1>1, <1>2, <1>3, <1>4, <1>5, <1>6, <1>7, <1>8, <1>9, <1>10, <1>11,
     <1>12, <1>13, <1>14, <1>15 DEF Next, Step

\* Every value of fs, pc and the locals stays in its set.
THEOREM TypeCorrect == Spec => []TypeOK
BY TypeInit, TypeNext, PTL DEF Spec

-----------------------------------------------------------------------------
\* The inductive invariant holds initially.
LEMMA IInvInit == Init => IInv
<1> SUFFICES ASSUME Init PROVE IInv
  OBVIOUS
<1>1. TypeOK
  BY TypeInit
<1>2. PairIsManaged
  BY ContentTypes DEF Init, PairIsManaged
<1>3. LastPairRecoverable
  BY ContentTypes DEF Init, LastPairRecoverable, Artifacts, BackupOf
<1>4. StaleBackupKept
  BY DEF Init, StaleBackupKept
<1> QED
  BY <1>1, <1>2, <1>3, <1>4 DEF Init, IInv, BackupIsOwn, SavedAside,
     RestoreIsDue, InPlace, Rolling, Publishing

\* Every step of a run, a new run and a crash preserve it.
LEMMA IInvNext == IInv /\ [Next]_vars => IInv'
<1> SUFFICES ASSUME IInv, [Next]_vars PROVE IInv'
  OBVIOUS
<1>0. TypeOK'
  BY TypeNext DEF IInv
<1> DEFINE Rest == /\ LastPairRecoverable
                   /\ StaleBackupKept
                   /\ PairIsManaged
                   /\ BackupIsOwn
                   /\ SavedAside
                   /\ RestoreIsDue
                   /\ InPlace
<1> USE ContentTypes DEF IInv, TypeOK, Paths, Artifacts, BackupOf,
        LastPairRecoverable, StaleBackupKept, PairIsManaged, BackupIsOwn,
        SavedAside, RestoreIsDue, InPlace, Rolling, Publishing
<1>1. ASSUME NEW h \in BOOLEAN, Begin(h) PROVE Rest'
  BY <1>1 DEF Begin
<1>2. ASSUME InspectRefuse PROVE Rest'
  BY <1>2 DEF InspectRefuse, Return
<1>3. ASSUME InspectAdmit PROVE Rest'
  BY <1>3 DEF InspectAdmit
<1>4. ASSUME AsideBundle PROVE Rest'
  BY <1>4 DEF AsideBundle, MoveAside
<1>5. ASSUME AsideRoot PROVE Rest'
  BY <1>5 DEF AsideRoot, MoveAside
<1>6. ASSUME AsideBundleFails PROVE Rest'
  BY <1>6 DEF AsideBundleFails, MoveAsideFails, Return
<1>7. ASSUME AsideRootFails PROVE Rest'
  BY <1>7 DEF AsideRootFails, MoveAsideFails, StartRollback
<1>8. ASSUME PublishBundle PROVE Rest'
  BY <1>8 DEF PublishBundle
<1>9. ASSUME PublishRoot PROVE Rest'
  BY <1>9 DEF PublishRoot
<1>10. ASSUME PublishFails PROVE Rest'
  BY <1>10 DEF PublishFails, StartRollback
<1>11. ASSUME DropRootBackup PROVE Rest'
  BY <1>11 DEF DropRootBackup, DropBackup
<1>12. ASSUME DropBundleBackup PROVE Rest'
  BY <1>12 DEF DropBundleBackup, DropBackup, Return
<1>13. ASSUME DropBackupFails PROVE Rest'
  BY <1>13 DEF DropBackupFails, Return
<1>14. ASSUME RollbackRemove PROVE Rest'
  BY <1>14 DEF RollbackRemove, EndRestore, Return
<1>15. ASSUME RollbackRemoveFails PROVE Rest'
  BY <1>15 DEF RollbackRemoveFails, EndRestore, Return
<1>16. ASSUME NEW ok \in BOOLEAN, RollbackRename(ok) PROVE Rest'
  BY <1>16 DEF RollbackRename, EndRestore, Return
<1>17. ASSUME RollbackRenameFails PROVE Rest'
  BY <1>17 DEF RollbackRenameFails, EndRestore, Return
<1>18. ASSUME Crash PROVE Rest'
  BY <1>18 DEF Crash, Return
<1>19. ASSUME UNCHANGED vars PROVE Rest'
  BY <1>19 DEF vars
<1> QED
  BY <1>0, <1>1, <1>2, <1>3, <1>4, <1>5, <1>6, <1>7, <1>8, <1>9, <1>10, <1>11,
     <1>12, <1>13, <1>14, <1>15, <1>16, <1>17, <1>18, <1>19 DEF Next, Step

\* For every number of runs, crashes and failing calls, the last complete pair
\* is on disk, each half in place or under its backup name.
THEOREM LastPairNeverLost == Spec => []LastPairRecoverable
<1>1. IInv => LastPairRecoverable
  BY DEF IInv
<1> QED
  BY <1>1, IInvInit, IInvNext, PTL DEF Spec

\* No run changes a backup that it found when it began.
THEOREM StaleBackupNeverTouched == Spec => []StaleBackupKept
<1>1. IInv => StaleBackupKept
  BY DEF IInv
<1> QED
  BY <1>1, IInvInit, IInvNext, PTL DEF Spec
-----------------------------------------------------------------------------
(* The report.  What has to be known at every system call so that the run     *)
(* can tell the truth when it returns.                                        *)

\* Nothing at all is one value.
OneAbsent ==
  \A p \in Paths : /\ ~Exists(fs[p]) => fs[p] = Absent
                   /\ ~Exists(before[p]) => before[p] = Absent

\* No content is newer than the run, and what a run finds is older than it.
Generations ==
  \A p \in Paths : /\ fs[p].gen <= run
                   /\ pc # "idle" => before[p].gen < run

\* The only artifact a failing run may take away (see ReportTrue).
Exempt == ~hasHeaders /\ ~OwnedBundle(before["bundle"])

Untouched(p) == fs[p] = before[p] /\ fs[BackupOf(p)] = before[BackupOf(p)]

\* The backup name holds what has to come back, or there is nothing to restore.
Held(p) ==
  IF backup[p]
  THEN fs[BackupOf(p)] = before[p] /\ ~Exists(before[BackupOf(p)])
  ELSE /\ fs[BackupOf(p)] = before[BackupOf(p)]
       /\ Exists(before[p]) => p = "bundle" /\ Exempt

\* The artifact's own name is free, unless the artifact stays.
Cleared(p) == fs[p] = IF backup[p] THEN Absent ELSE before[p]

\* The part of the run that is behind a restored artifact.
RestoredBundle ==
  /\ fs["bundleBackup"] = before["bundleBackup"]
  /\ fs["bundle"] = before["bundle"] \/ Exempt

\* The publication up to its commit and its cleanup.
Forward ==
  /\ pc \in {"inspect", "asideBundle"} => \A p \in Artifacts : Untouched(p)
  /\ pc = "inspect" => ~backup["bundle"]
  /\ pc = "asideRoot" => Held("bundle") /\ Cleared("bundle") /\ Untouched("root")
  /\ Publishing => Held("bundle") /\ Held("root") /\ Cleared("root")
  /\ pc = "publishBundle" => hasHeaders
  /\ pc = "publishRoot" /\ ~hasHeaders => Cleared("bundle")
  /\ pc \in {"dropRoot", "dropBundle"} =>
       /\ fs["root"] = NewRoot(run)
       /\ IF hasHeaders THEN fs["bundle"] = NewBundle(run) ELSE ~OwnedBundle(fs["bundle"])
       /\ ~backup["bundle"] => fs["bundleBackup"] = before["bundleBackup"]
  /\ pc = "dropRoot" /\ ~backup["root"] => fs["rootBackup"] = before["rootBackup"]
  /\ pc = "dropBundle" => fs["rootBackup"] = before["rootBackup"]

\* The rollback: what is still to be restored can be, what has been is.
Backward ==
  /\ Rolling /\ target = "bundle" => Held("bundle") /\ restored
  /\ Rolling /\ target = "root" /\ restored => RestoredBundle
  /\ Rolling /\ both => Held("root")
  /\ Rolling /\ ~both => Untouched("root")

\* Without a failed system call only a stale backup starts a rollback, and then
\* everything can be restored.
Reason ==
  Rolling /\ ~faulted =>
    restored /\ \E p \in Artifacts : Exists(before[p]) /\ Exists(before[BackupOf(p)])

HonestInv ==
  /\ OneAbsent
  /\ Generations
  /\ Forward
  /\ Backward
  /\ Reason
  /\ OutcomeHonest

-----------------------------------------------------------------------------
\* What a failed recursive remove leaves was there, under the same generation.
LEMMA LeftoversKeep ==
  ASSUME NEW c \in Contents, NEW d \in Leftovers(c)
  PROVE  d.kind = c.kind /\ d.gen = c.gen /\ (d # c => c.kind = "dir")
<1>1. CASE d = c
  BY <1>1
<1>2. CASE d # c
  <2>1. c.kind = "dir"
    BY <1>2 DEF Leftovers
  <2>2. PICK m \in {FALSE, c.managed} :
          d = [kind |-> "dir", managed |-> m, gen |-> c.gen, whole |-> FALSE]
    BY <1>2, <2>1 DEF Leftovers
  <2> QED
    BY <2>1, <2>2
<1> QED
  BY <1>1, <1>2

\* The generations and kinds of what the tool writes.
LEMMA WrittenContents ==
  /\ Absent.gen = 0
  /\ \A r \in Nat : NewRoot(r).gen = r /\ NewBundle(r).gen = r
  /\ \A r \in Nat : Exists(NewRoot(r)) /\ Exists(NewBundle(r))
  /\ ~OwnedBundle(Absent)
BY DEF Absent, NewRoot, NewBundle, Exists, OwnedBundle

\* Nothing has been written or moved before the first run.
LEMMA HonestInit == Init => HonestInv
<1> SUFFICES ASSUME Init PROVE HonestInv
  OBVIOUS
<1>1. PICK r \in InitialRoots, b \in InitialBundles :
        fs = [p \in Paths |-> IF p = "root" THEN r
                              ELSE IF p = "bundle" THEN b ELSE Absent]
  BY DEF Init
<1>2. \A c \in InitialBundles : (~Exists(c) => c = Absent) /\ c.gen = 0
  BY DEF InitialBundles, InitialRoots, Foreign, NewBundle, Absent, Exists
<1>3. InitialRoots \subseteq InitialBundles /\ Absent \in InitialBundles
  BY DEF InitialBundles, InitialRoots
<1>4. \A p \in Paths : fs[p] \in InitialBundles
  BY <1>1, <1>3
<1>5. OneAbsent
  BY <1>2, <1>4 DEF Init, OneAbsent
<1>6. Generations
  BY <1>2, <1>4 DEF Init, Generations
<1>7. pc = "idle" /\ result = "none"
  BY DEF Init
<1> QED
  BY <1>5, <1>6, <1>7 DEF HonestInv, Forward, Backward, Reason, OutcomeHonest,
     ReportTrue, FaultFreeRunPublishes, Rolling, Publishing

\* Every step keeps it.
LEMMA HonestNext == IInv /\ HonestInv /\ [Next]_vars => HonestInv'
<1> SUFFICES ASSUME IInv, HonestInv, [Next]_vars PROVE HonestInv'
  OBVIOUS
<1>0. TypeOK /\ TypeOK'
  BY TypeNext DEF IInv
<1> USE ContentTypes, WrittenContents
    DEF IInv, HonestInv, TypeOK, Paths, Artifacts, BackupOf, BackupIsOwn, RestoreIsDue,
        OneAbsent, Generations, Exempt, Untouched, Held, Cleared, RestoredBundle,
        Forward, Backward, Reason, OutcomeHonest, ReportTrue, FaultFreeRunPublishes,
        Rolling, Publishing
<1>1. ASSUME NEW h \in BOOLEAN, Begin(h) PROVE HonestInv'
  <2>1. OneAbsent'
    BY <1>0, <1>1 DEF Begin
  <2>2. Generations'
    BY <1>0, <1>1 DEF Begin, Contents
  <2>3. Forward'
    BY <1>0, <1>1 DEF Begin
  <2>4. Backward'
    BY <1>0, <1>1 DEF Begin
  <2>5. Reason'
    BY <1>0, <1>1 DEF Begin
  <2>6. OutcomeHonest'
    BY <1>0, <1>1 DEF Begin
  <2> QED
    BY <2>1, <2>2, <2>3, <2>4, <2>5, <2>6 DEF HonestInv
<1>2. ASSUME InspectRefuse PROVE HonestInv'
  BY <1>0, <1>2 DEF InspectRefuse, Return, RootRefused, BundleRefused, Fault, NoFault
<1>3. ASSUME InspectAdmit PROVE HonestInv'
  <2>1. OneAbsent'
    BY <1>0, <1>3 DEF InspectAdmit, RootRefused, BundleRefused
  <2>2. Generations'
    BY <1>0, <1>3 DEF InspectAdmit, RootRefused, BundleRefused
  <2>3. Forward'
    BY <1>0, <1>3 DEF InspectAdmit, RootRefused, BundleRefused, OwnedBundle, Exists
  <2>4. Backward'
    BY <1>0, <1>3 DEF InspectAdmit, RootRefused, BundleRefused
  <2>5. Reason'
    BY <1>0, <1>3 DEF InspectAdmit, RootRefused, BundleRefused
  <2>6. OutcomeHonest'
    BY <1>0, <1>3 DEF InspectAdmit, RootRefused, BundleRefused
  <2> QED
    BY <2>1, <2>2, <2>3, <2>4, <2>5, <2>6 DEF HonestInv
<1>4. ASSUME AsideBundle PROVE HonestInv'
  BY <1>0, <1>4 DEF AsideBundle, MoveAside
<1>5. ASSUME AsideRoot PROVE HonestInv'
  BY <1>0, <1>5 DEF AsideRoot, MoveAside
<1>6. ASSUME AsideBundleFails PROVE HonestInv'
  BY <1>0, <1>6 DEF AsideBundleFails, MoveAsideFails, Return, Fault, NoFault
<1>7. ASSUME AsideRootFails PROVE HonestInv'
  BY <1>0, <1>7 DEF AsideRootFails, MoveAsideFails, StartRollback, Fault, NoFault
<1>8. ASSUME PublishBundle PROVE HonestInv'
  BY <1>0, <1>8 DEF PublishBundle
<1>9. ASSUME PublishRoot PROVE HonestInv'
  <2>1. OneAbsent'
    BY <1>0, <1>9 DEF PublishRoot
  <2>2. Generations'
    BY <1>0, <1>9 DEF PublishRoot
  <2>3. Forward'
    BY <1>0, <1>9 DEF PublishRoot, InPlace, OwnedBundle, Exists
  <2>4. Backward'
    BY <1>0, <1>9 DEF PublishRoot
  <2>5. Reason'
    BY <1>0, <1>9 DEF PublishRoot
  <2>6. OutcomeHonest'
    BY <1>0, <1>9 DEF PublishRoot
  <2> QED
    BY <2>1, <2>2, <2>3, <2>4, <2>5, <2>6 DEF HonestInv
<1>10. ASSUME PublishFails PROVE HonestInv'
  BY <1>0, <1>10 DEF PublishFails, StartRollback, Fault
<1>11. ASSUME DropRootBackup PROVE HonestInv'
  BY <1>0, <1>11 DEF DropRootBackup, DropBackup
<1>12. ASSUME DropBundleBackup PROVE HonestInv'
  BY <1>0, <1>12 DEF DropBundleBackup, DropBackup, Return
<1>13. ASSUME DropBackupFails PROVE HonestInv'
  <2>0. \E p \in Artifacts, c \in Contents :
           /\ fs' = [fs EXCEPT ![BackupOf(p)] = c]
           /\ c.gen = fs[BackupOf(p)].gen /\ c.kind = fs[BackupOf(p)].kind
           /\ ~Exists(c) => c = fs[BackupOf(p)]
    <3>0. PICK p \in Artifacts : \E c \in Leftovers(fs[BackupOf(p)]) :
            fs' = [fs EXCEPT ![BackupOf(p)] = c]
      BY <1>13 DEF DropBackupFails
    <3>1. PICK c \in Leftovers(fs[BackupOf(p)]) : fs' = [fs EXCEPT ![BackupOf(p)] = c]
      BY <3>0
    <3>2. fs[BackupOf(p)] \in Contents
      BY <1>0
    <3>3. c \in Contents /\ c.gen = fs[BackupOf(p)].gen /\ c.kind = fs[BackupOf(p)].kind
          /\ (c # fs[BackupOf(p)] => fs[BackupOf(p)].kind = "dir")
      BY <3>2, LeftoversType, LeftoversKeep
    <3> QED
      BY <3>1, <3>3 DEF Exists
  <2>1. OneAbsent'
    BY <1>0, <1>13, <2>0 DEF DropBackupFails, Return, Fault
  <2>2. Generations'
    BY <1>0, <1>13, <2>0 DEF DropBackupFails, Return, Fault
  <2>3. Forward'
    BY <1>0, <1>13, <2>0 DEF DropBackupFails, Return, Fault
  <2>4. Backward'
    BY <1>0, <1>13, <2>0 DEF DropBackupFails, Return, Fault
  <2>5. Reason'
    BY <1>0, <1>13, <2>0 DEF DropBackupFails, Return, Fault
  <2>6. OutcomeHonest'
    BY <1>0, <1>13, <2>0 DEF DropBackupFails, Return, Fault
  <2> QED
    BY <2>1, <2>2, <2>3, <2>4, <2>5, <2>6 DEF HonestInv
<1>14. ASSUME RollbackRemove PROVE HonestInv'
  BY <1>0, <1>14 DEF RollbackRemove, EndRestore, Return
<1>15. ASSUME RollbackRemoveFails PROVE HonestInv'
  <2>0. \E c \in Contents :
           /\ fs' = [fs EXCEPT ![target] = c]
           /\ c.gen = fs[target].gen /\ c.kind = fs[target].kind
           /\ ~Exists(c) => c = fs[target]
    <3>1. PICK c \in Leftovers(fs[target]) : fs' = [fs EXCEPT ![target] = c]
      BY <1>15 DEF RollbackRemoveFails
    <3>2. fs[target] \in Contents
      BY <1>0
    <3>3. c \in Contents /\ c.gen = fs[target].gen /\ c.kind = fs[target].kind
          /\ (c # fs[target] => fs[target].kind = "dir")
      BY <3>2, LeftoversType, LeftoversKeep
    <3> QED
      BY <3>1, <3>3 DEF Exists
  <2>1. OneAbsent'
    BY <1>0, <1>15, <2>0 DEF RollbackRemoveFails, EndRestore, Return, Fault
  <2>2. Generations'
    BY <1>0, <1>15, <2>0 DEF RollbackRemoveFails, EndRestore, Return, Fault
  <2>3. Forward'
    BY <1>0, <1>15, <2>0 DEF RollbackRemoveFails, EndRestore, Return, Fault
  <2>4. Backward'
    BY <1>0, <1>15, <2>0 DEF RollbackRemoveFails, EndRestore, Return, Fault
  <2>5. Reason'
    BY <1>0, <1>15, <2>0 DEF RollbackRemoveFails, EndRestore, Return, Fault
  <2>6. OutcomeHonest'
    BY <1>0, <1>15, <2>0 DEF RollbackRemoveFails, EndRestore, Return, Fault
  <2> QED
    BY <2>1, <2>2, <2>3, <2>4, <2>5, <2>6 DEF HonestInv
<1>16. ASSUME NEW ok \in BOOLEAN, RollbackRename(ok) PROVE HonestInv'
  BY <1>0, <1>16 DEF RollbackRename, EndRestore, Return
<1>17. ASSUME RollbackRenameFails PROVE HonestInv'
  BY <1>0, <1>17 DEF RollbackRenameFails, EndRestore, Return, Fault
<1>18. ASSUME Crash PROVE HonestInv'
  BY <1>0, <1>18 DEF Crash, Return
<1>19. ASSUME UNCHANGED vars PROVE HonestInv'
  BY <1>0, <1>19 DEF vars
<1> QED
  BY <1>1, <1>2, <1>3, <1>4, <1>5, <1>6, <1>7, <1>8, <1>9, <1>10, <1>11,
     <1>12, <1>13, <1>14, <1>15, <1>16, <1>17, <1>18, <1>19, Zenon DEF Next, Step

\* After any failures, retries and crashes, what a run reports is what it did, and
\* a run that met no failing call refuses only for one of the reasons the code has.
THEOREM ReportsAreHonest == Spec => []OutcomeHonest
<1>1. HonestInv => OutcomeHonest
  BY DEF HonestInv
<1> QED
  BY <1>1, IInvInit, IInvNext, HonestInit, HonestNext, PTL DEF Spec

-----------------------------------------------------------------------------
(* The run as one atomic replacement. *)

\* The pairs a reader can find.
LEMMA PairTypes ==
  ASSUME NEW f \in [Paths -> Contents]
  PROVE  /\ Pair(f) \in [root: Contents, bundle: Contents]
         /\ Pair(f).root = f["root"] /\ Pair(f).bundle = f["bundle"]
BY DEF Pair, Paths, Artifacts

\* The destination before the first run is a pair nobody is replacing.
LEMMA AbstractInit == Init => Abstract!Init
BY InitialTypes, PairTypes DEF Init, Abstract!Init

\* Every system call is a step of the atomic replacement, or invisible: the new
\* pair appears with the rename of the root, and a rollback that reports success
\* returns the pair that was there.
LEMMA AbstractNext ==
  IInv /\ HonestInv /\ HonestInv' /\ [Next]_vars => [Abstract!Next]_(Abstract!avars)
<1> SUFFICES ASSUME IInv, HonestInv, HonestInv', [Next]_vars
             PROVE  [Abstract!Next]_(Abstract!avars)
  OBVIOUS
<1>0. TypeOK /\ TypeOK'
  BY TypeNext DEF IInv
<1>1. /\ Pair(fs) \in [root: Contents, bundle: Contents]
      /\ Pair(before) \in [root: Contents, bundle: Contents]
      /\ Pair(fs') \in [root: Contents, bundle: Contents]
      /\ Pair(fs).root = fs["root"] /\ Pair(fs).bundle = fs["bundle"]
      /\ Pair(before).root = before["root"] /\ Pair(before).bundle = before["bundle"]
      /\ Pair(fs').root = fs'["root"] /\ Pair(fs').bundle = fs'["bundle"]
  BY <1>0, PairTypes DEF TypeOK
<1> DEFINE Invisible == UNCHANGED Abstract!avars
<1> USE DEF Abstract!avars, Committed
<1>2. ASSUME NEW h \in BOOLEAN, Begin(h) PROVE Abstract!Start
  BY <1>0, <1>2 DEF Begin, Abstract!Start
<1>3. ASSUME pc \in {"inspect", "asideBundle", "asideRoot", "publishBundle",
                     "publishRoot", "rollRemove", "rollRename"},
             pc' = "idle", before' = before, fs' \in [Paths -> Contents],
             \/ result' \in {"crashed", "rollbackFailed"}
             \/ result' \in {"refused", "rolledBack"} /\ hasHeaders' = hasHeaders
      PROVE  Abstract!ReturnUnchanged \/ Abstract!ReturnTorn
  BY <1>0, <1>1, <1>3
     DEF Abstract!ReturnUnchanged, Abstract!ReturnTorn, HonestInv, OutcomeHonest, ReportTrue
<1>4. ASSUME pc \in {"inspect", "asideBundle", "asideRoot", "publishBundle",
                     "publishRoot", "rollRemove", "rollRename"},
             pc' \in {"inspect", "asideBundle", "asideRoot", "publishBundle",
                      "publishRoot", "rollRemove", "rollRename"},
             before' = before, result' = result
      PROVE  Invisible
  BY <1>4
<1>5. ASSUME InspectRefuse \/ AsideBundleFails
      PROVE  Abstract!ReturnUnchanged \/ Abstract!ReturnTorn
  BY <1>0, <1>3, <1>5 DEF TypeOK, InspectRefuse, AsideBundleFails, MoveAsideFails, Return
<1>6. ASSUME \/ InspectAdmit \/ AsideBundle \/ AsideRoot
             \/ AsideRootFails \/ PublishBundle \/ PublishFails
      PROVE  Invisible
  BY <1>4, <1>6 DEF InspectAdmit, AsideBundle, AsideRoot, AsideRootFails, PublishBundle,
                    PublishFails, StartRollback
<1>7. ASSUME PublishRoot PROVE Abstract!Commit
  <2>1. before["root"].gen < run /\ run \in Nat
    BY <1>0, <1>7 DEF HonestInv, Generations, PublishRoot, TypeOK, Paths, Artifacts
  <2>2. fs'["root"] = NewRoot(run)
    BY <1>0, <1>7 DEF PublishRoot, TypeOK, Paths, Artifacts
  <2>3. fs'["root"] # before["root"]
    BY <2>1, <2>2, WrittenContents
  <2> QED
    BY <1>1, <1>7, <2>3 DEF PublishRoot, Abstract!Commit
<1>8. ASSUME DropRootBackup PROVE Invisible
  <2>1. Pair(fs') = Pair(fs)
    BY <1>0, <1>8 DEF DropRootBackup, DropBackup, BackupOf, Pair, TypeOK, Paths, Artifacts
  <2> QED
    BY <1>8, <2>1 DEF DropRootBackup
<1>9. ASSUME DropBundleBackup \/ DropBackupFails PROVE Abstract!ReturnCommitted
  <2>1. Pair(fs') = Pair(fs)
    BY <1>0, <1>9 DEF DropBundleBackup, DropBackupFails, DropBackup, BackupOf, Pair, TypeOK,
                      Paths, Artifacts
  <2> QED
    BY <1>9, <2>1 DEF DropBundleBackup, DropBackupFails, Return, Abstract!ReturnCommitted
<1>10. ASSUME \/ RollbackRemove \/ RollbackRemoveFails \/ RollbackRenameFails
              \/ \E ok \in BOOLEAN : RollbackRename(ok)
       PROVE  Abstract!ReturnUnchanged \/ Abstract!ReturnTorn \/ Invisible
  <2>1. /\ pc \in {"rollRemove", "rollRename"}
        /\ before' = before /\ hasHeaders' = hasHeaders
        /\ \/ pc' \in {"rollRemove", "rollRename"} /\ result' = result
           \/ pc' = "idle" /\ result' \in {"rolledBack", "rollbackFailed"}
    BY <1>10 DEF RollbackRemove, RollbackRemoveFails, RollbackRenameFails, RollbackRename,
                 EndRestore, Return
  <2> QED
    BY <1>0, <1>3, <1>4, <2>1 DEF TypeOK
<1>11. ASSUME Crash
       PROVE  Abstract!ReturnTorn \/ Abstract!ReturnCommitted
  BY <1>0, <1>1, <1>11
     DEF Crash, Return, Abstract!ReturnTorn, Abstract!ReturnCommitted
<1>12. ASSUME UNCHANGED vars PROVE Invisible
  BY <1>12 DEF vars
<1> QED
  BY <1>2, <1>5, <1>6, <1>7, <1>8, <1>9, <1>10, <1>11, <1>12
     DEF Next, Step, Abstract!Next

\* For every number of runs, failing calls and crashes, publishClosure implements
\* the atomic replacement of the pair.
THEOREM PublishIsAtomic == Spec => ImplementsAtomicPublish
BY IInvInit, IInvNext, HonestInit, HonestNext, AbstractInit, AbstractNext, PTL
   DEF Spec, ImplementsAtomicPublish, Abstract!Spec
=============================================================================
