--------------------------- MODULE PublishClosure ---------------------------
(***************************************************************************)
(* The publication transaction of a local-header closure                   *)
(* (src/LocalHeader.cpp, publishClosure and its helpers).                  *)
(*                                                                         *)
(* A conversion stages a translated root file and, when headers were       *)
(* selected, a bundle directory.  publishClosure moves the published pair  *)
(* aside under ".ascify-backup" names, renames the staged pair into place  *)
(* and removes the backups; any failing step rolls back.  Every rename,    *)
(* remove and inspection can fail, a recursive remove can fail halfway,    *)
(* and the process can die between any two system calls.  The program      *)
(* keeps no journal, so what a dead run leaves on disk is what the next    *)
(* run starts from.                                                        *)
(***************************************************************************)
EXTENDS Naturals

CONSTANT MaxRuns      \* bound on the number of invocations of the tool

ASSUME MaxRunsAssumption == MaxRuns \in Nat

VARIABLES
  fs,         \* what each path of the transaction holds
  pc,         \* the next system call of publishClosure, "idle" between runs
  run,        \* number of the current (or last) invocation
  hasHeaders, \* plan.hasPublishedBundle() of this run
  backup,     \* the locals rootBackup / bundleBackup: is the string non-empty?
  target,     \* artifact restoreBackup is working on
  both,       \* reportRollback (TRUE) or the lone bundle rollback (FALSE)
  tries,      \* failed attempts of the current rollback call
  restored,   \* no restoreBackup of this run has failed so far
  result,     \* what the last run reported
  before,     \* history: fs when the run began
  lastGood,   \* history: the last complete pair a run installed
  faulted     \* history: some system call of this run has failed

vars == <<fs, pc, run, hasHeaders, backup, target, both, tries, restored,
          result, before, lastGood, faulted>>

Artifacts == {"root", "bundle"}
Paths == Artifacts \cup {"rootBackup", "bundleBackup"}

\* moveAside names the backup of an artifact after the artifact.
BackupOf(p) == IF p = "root" THEN "rootBackup" ELSE "bundleBackup"

(***************************************************************************)
(* What a path can hold.  gen is the run that produced the content (0: it  *)
(* was there before the first run); managed says that ownedBundle accepts  *)
(* it; whole is FALSE once a recursive remove has failed halfway.          *)
(***************************************************************************)
Kinds == {"absent", "file", "dir", "link"}
Contents == [kind: Kinds, managed: BOOLEAN, gen: Nat, whole: BOOLEAN]

Absent == [kind |-> "absent", managed |-> FALSE, gen |-> 0, whole |-> TRUE]
NewRoot(r) == [kind |-> "file", managed |-> FALSE, gen |-> r, whole |-> TRUE]
NewBundle(r) == [kind |-> "dir", managed |-> TRUE, gen |-> r, whole |-> TRUE]

Exists(c) == c.kind # "absent"

\* ownedBundle: a real directory with a regular marker file of schema 1 whose
\* device artifacts, if any, still have the recorded digests.
OwnedBundle(c) == c.kind = "dir" /\ c.managed

\* What a failed recursive remove leaves: any part of the directory may be
\* gone, the marker included.  A file is removed or it is not.
Leftovers(c) ==
  IF c.kind = "dir"
  THEN {c} \cup {[kind |-> "dir", managed |-> m, gen |-> c.gen, whole |-> FALSE] :
                    m \in {FALSE, c.managed}}
  ELSE {c}

\* The pair a reader of the destination finds.
Pair(f) == [root |-> f["root"], bundle |-> f["bundle"]]

\* What the destination may hold before the first run.
Foreign(k) == [kind |-> k, managed |-> FALSE, gen |-> 0, whole |-> TRUE]
InitialRoots == {Absent, Foreign("file"), Foreign("dir"), Foreign("link")}
InitialBundles == InitialRoots \cup {NewBundle(0)}

Init ==
  /\ \E r \in InitialRoots, b \in InitialBundles :
       fs = [p \in Paths |-> IF p = "root" THEN r
                             ELSE IF p = "bundle" THEN b ELSE Absent]
  /\ pc = "idle" /\ run = 0 /\ hasHeaders = FALSE
  /\ backup = [p \in Artifacts |-> FALSE]
  /\ target = "bundle" /\ both = FALSE /\ tries = 0 /\ restored = TRUE
  /\ result = "none" /\ before = fs /\ faulted = FALSE
  /\ lastGood = [root |-> fs["root"],
                 bundle |-> IF OwnedBundle(fs["bundle"]) THEN fs["bundle"]
                                                         ELSE Absent]

-----------------------------------------------------------------------------
(* Control helpers *)

\* publishClosure returns; the caller then removes the staging directory.
Return(r) == pc' = "idle" /\ result' = r

Fault == faulted' = TRUE
NoFault == UNCHANGED faulted

\* Mutant: the rollback forgets the bundle.
MutStartRollback(all) ==
  /\ pc' = "rollRemove" /\ target' = (IF all THEN "root" ELSE "bundle")
  /\ both' = all
  /\ tries' = 0 /\ restored' = TRUE /\ UNCHANGED result

\* reportRollback restores the bundle, then the root; the rollback after a
\* failed moveAside of the root restores the bundle alone.
StartRollback(all) ==
  /\ pc' = "rollRemove" /\ target' = "bundle" /\ both' = all
  /\ tries' = 0 /\ restored' = TRUE /\ UNCHANGED result

\* Mutant: the last restoreBackup alone decides the report.
MutEndRestore(ok) ==
  /\ restored' = ok
  /\ tries' = 0
  /\ \/ /\ target = "bundle" /\ both
        /\ pc' = "rollRemove" /\ target' = "root" /\ UNCHANGED result
     \/ /\ ~(target = "bundle" /\ both)
        /\ Return(IF ok THEN "rolledBack" ELSE "rollbackFailed")
        /\ UNCHANGED target

\* One restoreBackup call has ended with the verdict ok.
EndRestore(ok) ==
  /\ restored' = (restored /\ ok)
  /\ tries' = 0
  /\ \/ /\ target = "bundle" /\ both
        /\ pc' = "rollRemove" /\ target' = "root" /\ UNCHANGED result
     \/ /\ ~(target = "bundle" /\ both)
        /\ Return(IF restored /\ ok THEN "rolledBack" ELSE "rollbackFailed")
        /\ UNCHANGED target

-----------------------------------------------------------------------------
(* The run up to the first rename *)

\* A conversion has staged its outputs and calls publishClosure.
Begin(h) ==
  /\ pc = "idle" /\ run < MaxRuns
  /\ pc' = "inspect" /\ run' = run + 1 /\ hasHeaders' = h
  /\ backup' = [p \in Artifacts |-> FALSE]
  /\ result' = "none" /\ before' = fs /\ faulted' = FALSE
  /\ restored' = TRUE /\ tries' = 0
  /\ UNCHANGED <<fs, target, both, lastGood>>

RootRefused == fs["root"].kind \in {"link", "dir"}
BundleRefused == hasHeaders /\ Exists(fs["bundle"]) /\ ~OwnedBundle(fs["bundle"])

\* The checks before anything is touched: the root must not be a symlink or a
\* directory, a bundle that is to be replaced must carry the marker.
InspectRefuse ==
  /\ pc = "inspect"
  /\ \/ (RootRefused \/ BundleRefused) /\ NoFault
     \/ Fault                            \* symlink_status itself fails
  /\ Return("refused")
  /\ UNCHANGED <<fs, run, hasHeaders, backup, target, both, tries, restored,
                 before, lastGood>>

InspectAdmit ==
  /\ pc = "inspect"
  /\ ~RootRefused /\ ~BundleRefused
  /\ pc' = IF hasHeaders \/ OwnedBundle(fs["bundle"]) THEN "asideBundle"
                                                     ELSE "asideRoot"
  /\ UNCHANGED <<fs, run, hasHeaders, backup, target, both, tries, restored,
                 result, before, lastGood, faulted>>

-----------------------------------------------------------------------------
(* moveAside *)

\* Mutant: no stale-backup check; the rename replaces what is there.
MutMoveAside(p) ==
  \/ /\ ~Exists(fs[p])
     /\ backup' = [backup EXCEPT ![p] = FALSE]
     /\ UNCHANGED fs
  \/ /\ Exists(fs[p])
     /\ backup' = [backup EXCEPT ![p] = TRUE]
     /\ fs' = [fs EXCEPT ![BackupOf(p)] = fs[p], ![p] = Absent]

\* moveAside succeeds: nothing to move, or the rename to the free backup name.
MoveAside(p) ==
  \/ /\ ~Exists(fs[p])
     /\ backup' = [backup EXCEPT ![p] = FALSE]
     /\ UNCHANGED fs
  \/ /\ Exists(fs[p]) /\ ~Exists(fs[BackupOf(p)])
     /\ backup' = [backup EXCEPT ![p] = TRUE]
     /\ fs' = [fs EXCEPT ![BackupOf(p)] = fs[p], ![p] = Absent]

\* moveAside fails.  The backup name is assigned before the stale-backup check
\* and before the rename, so it is set although nothing was moved.
MoveAsideFails(p) ==
  /\ \/ Exists(fs[p]) /\ Exists(fs[BackupOf(p)]) /\ NoFault
     \/ Fault
  /\ \/ Exists(fs[p]) /\ backup' = [backup EXCEPT ![p] = TRUE]
     \/ faulted' /\ UNCHANGED backup     \* the inspection of p failed
  /\ UNCHANGED fs

AsideBundle ==
  /\ pc = "asideBundle"
  /\ MoveAside("bundle")
  /\ pc' = "asideRoot"
  /\ UNCHANGED <<run, hasHeaders, target, both, tries, restored, result,
                 before, lastGood, faulted>>

AsideBundleFails ==
  /\ pc = "asideBundle"
  /\ MoveAsideFails("bundle")
  /\ Return("refused")
  /\ UNCHANGED <<run, hasHeaders, target, both, tries, restored, before,
                 lastGood>>

AsideRoot ==
  /\ pc = "asideRoot"
  /\ MoveAside("root")
  /\ pc' = IF hasHeaders THEN "publishBundle" ELSE "publishRoot"
  /\ UNCHANGED <<run, hasHeaders, target, both, tries, restored, result,
                 before, lastGood, faulted>>

\* Mutant: the failed moveAside of the root rolls the root back too.
MutAsideRootFails ==
  /\ pc = "asideRoot"
  /\ MoveAsideFails("root")
  /\ StartRollback(TRUE)
  /\ UNCHANGED <<run, hasHeaders, before, lastGood>>

AsideRootFails ==
  /\ pc = "asideRoot"
  /\ MoveAsideFails("root")
  /\ StartRollback(FALSE)
  /\ UNCHANGED <<run, hasHeaders, before, lastGood>>

-----------------------------------------------------------------------------
(* Publication *)

PublishBundle ==
  /\ pc = "publishBundle"
  /\ fs' = [fs EXCEPT !["bundle"] = NewBundle(run)]
  /\ pc' = "publishRoot"
  /\ UNCHANGED <<run, hasHeaders, backup, target, both, tries, restored,
                 result, before, lastGood, faulted>>

\* The commit point: the new root is in place.
PublishRoot ==
  /\ pc = "publishRoot"
  /\ fs' = [fs EXCEPT !["root"] = NewRoot(run)]
  /\ lastGood' = [root |-> NewRoot(run),
                  bundle |-> IF hasHeaders THEN NewBundle(run) ELSE Absent]
  /\ pc' = "dropRoot"
  /\ UNCHANGED <<run, hasHeaders, backup, target, both, tries, restored,
                 result, before, faulted>>

PublishFails ==
  /\ pc \in {"publishBundle", "publishRoot"}
  /\ Fault
  /\ StartRollback(TRUE)
  /\ UNCHANGED <<fs, run, hasHeaders, backup, before, lastGood>>

\* removeBackup: only a backup this run has named.
DropBackup(p) ==
  \/ ~backup[p] /\ UNCHANGED fs
  \/ backup[p] /\ fs' = [fs EXCEPT ![BackupOf(p)] = Absent]

DropRootBackup ==
  /\ pc = "dropRoot"
  /\ DropBackup("root")
  /\ pc' = "dropBundle"
  /\ UNCHANGED <<run, hasHeaders, backup, target, both, tries, restored,
                 result, before, lastGood, faulted>>

DropBundleBackup ==
  /\ pc = "dropBundle"
  /\ DropBackup("bundle")
  /\ Return("published")
  /\ UNCHANGED <<run, hasHeaders, backup, target, both, tries, restored,
                 before, lastGood, faulted>>

DropBackupFails ==
  /\ pc \in {"dropRoot", "dropBundle"}
  /\ LET p == IF pc = "dropRoot" THEN "root" ELSE "bundle" IN
       /\ backup[p]
       /\ \E c \in Leftovers(fs[BackupOf(p)]) :
            fs' = [fs EXCEPT ![BackupOf(p)] = c]
  /\ Fault
  /\ Return("cleanupFailed")
  /\ UNCHANGED <<run, hasHeaders, backup, target, both, tries, restored,
                 before, lastGood>>

-----------------------------------------------------------------------------
(* restoreBackup, once per artifact; each of its calls is tried twice *)

\* retryRollbackRemove succeeds; without a backup the artifact is restored.
RollbackRemove ==
  /\ pc = "rollRemove"
  /\ fs' = [fs EXCEPT ![target] = Absent]
  /\ \/ ~backup[target] /\ EndRestore(TRUE) /\ UNCHANGED both
     \/ /\ backup[target]
        /\ pc' = "rollRename" /\ tries' = 0
        /\ UNCHANGED <<target, both, restored, result>>
  /\ UNCHANGED <<run, hasHeaders, backup, before, lastGood, faulted>>

RollbackRemoveFails ==
  /\ pc = "rollRemove"
  /\ \E c \in Leftovers(fs[target]) : fs' = [fs EXCEPT ![target] = c]
  /\ \/ /\ tries = 0 /\ tries' = 1
        /\ UNCHANGED <<pc, target, restored, result>>
     \/ tries = 1 /\ EndRestore(FALSE)
  /\ Fault
  /\ UNCHANGED <<both, run, hasHeaders, backup, before, lastGood>>

\* retryRollbackRename succeeds and the identity check finds the artifact in
\* place (ok), or that check cannot inspect the paths.
RollbackRename(ok) ==
  /\ pc = "rollRename"
  /\ Exists(fs[BackupOf(target)])
  /\ fs' = [fs EXCEPT ![target] = fs[BackupOf(target)],
                      ![BackupOf(target)] = Absent]
  /\ EndRestore(ok)
  /\ faulted' = (faulted \/ ~ok)
  /\ UNCHANGED <<both, run, hasHeaders, backup, before, lastGood>>

RollbackRenameFails ==
  /\ pc = "rollRename"
  /\ \/ /\ tries = 0 /\ tries' = 1
        /\ UNCHANGED <<pc, target, restored, result>>
     \/ tries = 1 /\ EndRestore(FALSE)
  /\ Fault
  /\ UNCHANGED <<fs, both, run, hasHeaders, backup, before, lastGood>>

-----------------------------------------------------------------------------
\* The process dies between two system calls; its locals are gone.
Crash ==
  /\ pc # "idle"
  /\ Return("crashed")
  /\ faulted' = TRUE
  /\ UNCHANGED <<fs, run, hasHeaders, backup, target, both, tries, restored,
                 before, lastGood>>

Step ==
  \/ InspectRefuse \/ InspectAdmit
  \/ AsideBundle \/ AsideBundleFails \/ AsideRoot \/ AsideRootFails
  \/ PublishBundle \/ PublishRoot \/ PublishFails
  \/ DropRootBackup \/ DropBundleBackup \/ DropBackupFails
  \/ RollbackRemove \/ RollbackRemoveFails
  \/ \E ok \in BOOLEAN : RollbackRename(ok)
  \/ RollbackRenameFails

Next == (\E h \in BOOLEAN : Begin(h)) \/ Step \/ Crash

Spec == Init /\ [][Next]_vars

-----------------------------------------------------------------------------
(* Properties *)

\* The values of the variables.
TypeOK ==
  /\ fs \in [Paths -> Contents]
  /\ pc \in {"idle", "inspect", "asideBundle", "asideRoot", "publishBundle",
             "publishRoot", "dropRoot", "dropBundle", "rollRemove",
             "rollRename"}
  /\ run \in Nat /\ hasHeaders \in BOOLEAN
  /\ backup \in [Artifacts -> BOOLEAN]
  /\ target \in Artifacts /\ both \in BOOLEAN
  /\ tries \in {0, 1} /\ restored \in BOOLEAN
  /\ result \in {"none", "published", "refused", "rolledBack",
                 "rollbackFailed", "cleanupFailed", "crashed"}
  /\ before \in [Paths -> Contents]
  /\ lastGood \in [root: Contents, bundle: Contents]
  /\ faulted \in BOOLEAN

\* However runs fail, die and are repeated, the last complete root/bundle pair
\* a run installed (or found) is still on disk, whole, each half at its own
\* name or at its backup name: publishClosure never destroys the previous
\* managed output before the commit point of its successor.
LastPairRecoverable ==
  \A p \in Artifacts :
    Exists(lastGood[p]) => lastGood[p] \in {fs[p], fs[BackupOf(p)]}

\* A backup left behind by a dead run is evidence for the operator: no later
\* run overwrites it, restores it or removes it, whichever of its own steps
\* fail (moveAside names the backup before it knows that it is free).
StaleBackupKept ==
  \A p \in Artifacts :
    Exists(before[BackupOf(p)]) => fs[BackupOf(p)] = before[BackupOf(p)]

\* What publishClosure reports is what it did: success means the new pair and
\* no backup of its own; a failure without a rollback or cleanup diagnostic
\* means the pair and the backups found at the start.  (Only an unmanaged
\* bundle is exempt when the run has no headers: its rollback may remove it.)
ReportTrue ==
  pc = "idle" =>
    /\ result \in {"published", "refused", "rolledBack"} =>
         \A p \in Artifacts : fs[BackupOf(p)] = before[BackupOf(p)]
    /\ result = "published" =>
         /\ fs["root"] = NewRoot(run)
         /\ IF hasHeaders THEN fs["bundle"] = NewBundle(run)
                          ELSE ~OwnedBundle(fs["bundle"])
    /\ result \in {"refused", "rolledBack"} =>
         /\ fs["root"] = before["root"]
         /\ \/ fs["bundle"] = before["bundle"]
            \/ ~hasHeaders /\ ~OwnedBundle(before["bundle"])

\* A run none of whose system calls fails publishes, unless the destination is
\* one the code refuses: a root that is a symlink or directory, an unmanaged
\* bundle in the way of the new one, or a stale backup beside an artifact that
\* has to move aside.  In particular leftovers of a crash alone block nothing
\* but that.
FaultFreeRunPublishes ==
  pc = "idle" /\ ~faulted /\ result \notin {"none", "published"} =>
    /\ result \in {"refused", "rolledBack"}
    /\ \/ before["root"].kind \in {"link", "dir"}
       \/ hasHeaders /\ Exists(before["bundle"]) /\ ~OwnedBundle(before["bundle"])
       \/ \E p \in Artifacts : Exists(before[p]) /\ Exists(before[BackupOf(p)])

\* What publishClosure returns can be relied on in both directions: its report is
\* true after any failures and retries, and it refuses only for a reason.
OutcomeHonest == ReportTrue /\ FaultFreeRunPublishes

-----------------------------------------------------------------------------
(* The abstract specification it implements *)

Committed == pc \in {"dropRoot", "dropBundle"}

Abstract == INSTANCE AtomicPublish WITH
  Pairs <- [root: Contents, bundle: Contents],
  Managed <- OwnedBundle,
  pair <- IF pc = "idle" \/ Committed THEN Pair(fs) ELSE Pair(before),
  phase <- IF pc = "idle" THEN "idle"
           ELSE IF Committed THEN "committed" ELSE "open",
  verdict <- result

\* Seen from outside a run is one atomic replacement of the pair, or none.
ImplementsAtomicPublish == Abstract!Spec
=============================================================================
