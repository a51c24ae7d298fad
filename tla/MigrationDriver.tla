--------------------------- MODULE MigrationDriver ---------------------------
(***************************************************************************)
(* One invocation of the converter (src/main.cpp, main and                 *)
(* ascifySingleSource): the path preflight, the migration receipt, the     *)
(* reordering of the inputs by Init, the per-input loop with its           *)
(* early-continue error paths, and the conversion of one physical source   *)
(* against a byte snapshot while the user may still be editing it.         *)
(* Translated text is abstracted to the text it was made from.             *)
(***************************************************************************)
EXTENDS Naturals, Sequences, FiniteSets, SequencesExt

CONSTANTS
  Sources,        \* the source files
  Requests,       \* the lists of source arguments a run may get
  Bare,           \* the sources spelled without a directory
  Bases,          \* the file names the sources may have, one per bare source
  MaxEdits,       \* bound on edits the user makes during the run
  PrepareFails,   \* may creating or filling the temporary copy fail?
  WriteFails      \* may writing an output fail halfway?

ASSUME DriverAssumption ==
  /\ Requests \subseteq Seq(Sources) \ {<<>>}
  /\ Bare \subseteq Sources /\ MaxEdits \in Nat
  /\ \A f \in Bases : /\ DOMAIN f = Sources
                      /\ \A s, t \in Bare : f[s] = f[t] => s = t
  /\ PrepareFails \in BOOLEAN /\ WriteFails \in BOOLEAN

VARIABLES
  requested,   \* the source arguments, in command-line order
  base,        \* the file name of each source
  mode,        \* output mode: side by side, -o-dir, -inplace, -no-output
  closure,     \* --local-headers or --local-headers-recursive
  rpath,       \* where --migration-receipt points
  receipt,     \* status in the receipt file
  pc, queue, pos,
  dst,         \* the local dst of main, kept across loop iterations
  disk,        \* what each source and output path holds
  snapshot,    \* HostCxxRootInputWitness of the current source
  parsed,      \* the buffer Clang parsed
  records,     \* per-input results collected for the receipt
  Result,      \* exit code so far
  exit,        \* how the process ended, "no" while it runs
  edits        \* edits made by the user

vars == <<requested, base, mode, closure, rpath, receipt, pc, queue, pos, dst, disk, snapshot,
          parsed, records, Result, exit, edits>>
convVars == <<snapshot, parsed>>
optionVars == <<requested, base, mode, closure, rpath>>

Modes == {"side", "file", "dir", "inplace", "none"}
Src(s) == <<s, "src">>
Out(s) == <<s, "out">>
InDir(s) == <<base[s], "dir">>
Paths == UNION {{Src(s), Out(s), InDir(s)} : s \in Sources}
NoPath == <<"none", "none">>
FreePath == <<"receipt", "free">>    \* a receipt path of its own
NoReceipt == <<"receipt", "off">>    \* --migration-receipt not given

\* A text: whose it is, which of the user's versions, how often translated.
\* "mixed" is the bytes of one version under the edits of another.
Text(st, s, v, n) == [state |-> st, of |-> s, v |-> v, n |-> n]
Nothing == Text("absent", "none", 0, 0)
ReceiptText == Text("receipt", "none", 0, 0)

Translation(bytes, editsOf) ==
  Text(IF bytes = editsOf THEN "whole" ELSE "mixed",
       bytes.of, bytes.v, bytes.n + 1)

src == queue[pos]

\* The dst that main derives when it has none.
OwnOutput(s) == IF mode = "inplace" THEN Src(s)
                ELSE IF mode = "dir" THEN InDir(s) ELSE Out(s)

Init ==
  /\ requested \in Requests /\ base \in Bases
  /\ mode \in Modes /\ closure \in BOOLEAN
  /\ rpath \in Paths \cup {FreePath, NoReceipt}
  /\ receipt \in (IF rpath = FreePath THEN {"none", "old"} ELSE {"none"})
  /\ pc = "preflight" /\ queue = requested /\ pos = 1
  /\ dst = IF mode = "file" THEN Out(requested[1]) ELSE NoPath
  /\ disk = [p \in Paths |-> IF p[2] = "src" THEN Text("whole", p[1], 1, 0)
                                             ELSE Nothing]
  /\ snapshot = Nothing /\ parsed = Nothing
  /\ records = <<>> /\ Result = 0 /\ exit = "no" /\ edits = 0

-----------------------------------------------------------------------------
(* Before the loop *)

Stop(code) == pc' = "exit" /\ exit' = code

\* -o with several inputs.
ManyToOne == mode = "file" /\ Len(requested) > 1

\* Two inputs whose -o-dir artifact has the same name.
SameArtifact ==
  mode = "dir" /\ \E i, j \in DOMAIN requested :
                     i # j /\ base[requested[i]] = base[requested[j]]

\* The receipt must not be a source nor the output main foresees for one.
ReceiptConflict ==
  \E s \in Range(requested) : \/ rpath = Src(s)
                              \/ mode # "none" /\ rpath = OwnOutput(s)

PreflightRefuses ==
  /\ pc = "preflight"
  /\ ManyToOne \/ SameArtifact \/ ReceiptConflict
  /\ Stop("error")
  /\ UNCHANGED <<optionVars, receipt, queue, pos, dst, disk, convVars, records,
                 Result, edits>>

PreflightAdmits ==
  /\ pc = "preflight"
  /\ ~ManyToOne /\ ~SameArtifact /\ ~ReceiptConflict
  /\ pc' = IF rpath = NoReceipt THEN "order" ELSE "open"
  /\ UNCHANGED <<optionVars, receipt, queue, pos, dst, disk, convVars, records,
                 Result, exit, edits>>

\* publishMigrationReceiptAtomically: a unique temporary, then one rename.
PublishReceipt(status) ==
  /\ receipt' = status
  /\ disk' = IF rpath \in Paths THEN [disk EXCEPT ![rpath] = ReceiptText]
                                ELSE disk

\* Mutant: a receipt that cannot be published does not stop the run.
MutOpenReceipt ==
  /\ pc = "open"
  /\ PublishReceipt("in_progress") \/ UNCHANGED <<receipt, disk>>
  /\ pc' = "order"
  /\ UNCHANGED <<optionVars, queue, pos, dst, convVars, records, Result, exit, edits>>

\* The in_progress receipt is published before anything is converted.
OpenReceipt ==
  /\ pc = "open"
  /\ \/ PublishReceipt("in_progress") /\ pc' = "order" /\ UNCHANGED exit
     \/ UNCHANGED <<receipt, disk>> /\ Stop("error")
  /\ UNCHANGED <<optionVars, queue, pos, dst, convVars, records, Result, edits>>

(***************************************************************************)
(* Init replaces the list by the -main-file-name arguments of the clang    *)
(* driver's jobs that occur in it, in reverse.  The driver (external) puts *)
(* the bare file name there, once per job: an argument with a directory    *)
(* drops out, or stands for the bare argument of its name.  A CUDA input   *)
(* has a host job, a device job or both; a failed setup leaves no job.     *)
(***************************************************************************)
Spelled(s) == {t \in Range(requested) \cap Bare : base[t] = base[s]}
Named == {i \in DOMAIN requested : Spelled(requested[i]) # {}}

\* The named arguments of the jobs, in the driver's order.
DriverJobs ==
  {<<>>} \cup {f \in SeqOf(Named, 2 * Len(requested)) :
                 /\ \A i, j \in DOMAIN f : i < j => f[i] <= f[j]
                 /\ \A n \in Named : Cardinality({i \in DOMAIN f : f[i] = n}) \in 1..2}

SortedFiles(jobs) == [i \in DOMAIN jobs |-> CHOOSE t \in Spelled(requested[jobs[i]]) : TRUE]

OrderInputs ==
  /\ pc = "order"
  /\ \E jobs \in DriverJobs :
       queue' = IF Len(requested) < 2 \/ jobs = <<>> THEN requested
                                                     ELSE Reverse(SortedFiles(jobs))
  /\ pc' = "resolve"
  /\ UNCHANGED <<optionVars, receipt, pos, dst, disk, convVars, records, Result,
                 exit, edits>>

-----------------------------------------------------------------------------
(* The loop over the inputs *)

\* To the next input, or out of the loop.
Advance ==
  IF pos < Len(queue) THEN pc' = "resolve" /\ pos' = pos + 1
                      ELSE pc' = "finish" /\ UNCHANGED pos

\* A failed input: recorded, and the loop continues.
GiveUp(output) ==
  /\ records' = Append(records, [input |-> src, output |-> output, ok |-> FALSE])
  /\ Result' = 1
  /\ Advance

\* The path does not resolve, or a closure root is reached through an alias.
ResolveFails ==
  /\ pc = "resolve"
  /\ GiveUp(NoPath)
  /\ UNCHANGED <<optionVars, receipt, queue, dst, disk, convVars, exit, edits>>

Resolve ==
  /\ pc = "resolve"
  /\ dst' = IF dst = NoPath THEN OwnOutput(src) ELSE dst
  /\ pc' = "prepare"
  /\ UNCHANGED <<optionVars, receipt, queue, pos, disk, convVars, records,
                 Result, exit, edits>>

\* The path the record and the conversion use.
OutputPath == IF mode = "none" THEN NoPath ELSE dst

\* The temporary copy cannot be made: the loop continues with dst still set.
PrepareFailed ==
  /\ pc = "prepare" /\ PrepareFails
  /\ GiveUp(OutputPath)
  /\ UNCHANGED <<optionVars, receipt, queue, dst, disk, convVars, exit, edits>>

Prepare ==
  /\ pc = "prepare"
  /\ pc' = IF closure THEN "closure" ELSE "capture"
  /\ UNCHANGED <<optionVars, receipt, queue, pos, dst, disk, convVars, records,
                 Result, exit, edits>>

\* Mutant: dst is not cleared for the next input.
MutEndInput(ok) ==
  /\ records' = Append(records, [input |-> src, output |-> OutputPath, ok |-> ok])
  /\ Result' = IF ok THEN Result ELSE 1
  /\ dst' = dst
  /\ Advance

\* The end of an iteration: the record, and dst is cleared.
EndInput(ok) ==
  /\ records' = Append(records, [input |-> src, output |-> OutputPath, ok |-> ok])
  /\ Result' = IF ok THEN Result ELSE 1
  /\ dst' = NoPath
  /\ Advance

-----------------------------------------------------------------------------
(* The conversion of one input *)

\* ascifySourceWithLocalHeaderClosure publishes by rename or not at all.
ConvertClosure ==
  /\ pc = "closure"
  /\ \/ EndInput(FALSE) /\ UNCHANGED disk
     \/ /\ EndInput(TRUE)
        /\ disk' = IF mode = "none" THEN disk
                   ELSE [disk EXCEPT ![dst] =
                           Translation(disk[Src(src)], disk[Src(src)])]
  /\ UNCHANGED <<optionVars, receipt, queue, convVars, exit, edits>>

Readable(p) == disk[p].state \in {"whole", "mixed", "torn"}

\* HostCxxRootInputWitness::capture.
Capture ==
  /\ pc = "capture"
  /\ \/ EndInput(FALSE) /\ UNCHANGED snapshot
     \/ /\ Readable(Src(src)) /\ snapshot' = disk[Src(src)]
        /\ pc' = "parse" /\ UNCHANGED <<pos, dst, records, Result>>
  /\ UNCHANGED <<optionVars, receipt, queue, disk, parsed, exit, edits>>

\* matchesPhysical: the file still holds the snapshot.
MatchesPhysical == disk[Src(src)] = snapshot

\* Mutant: the parsed buffer is not compared with the snapshot.
MutParse ==
  /\ pc = "parse"
  /\ parsed' = disk[Src(src)]
  /\ \/ EndInput(FALSE)
     \/ pc' = "verify" /\ UNCHANGED <<pos, dst, records, Result>>
  /\ UNCHANGED <<optionVars, receipt, queue, disk, snapshot, exit, edits>>

\* Clang reads the file; PhysicalCudaAction refuses another buffer.
Parse ==
  /\ pc = "parse"
  /\ parsed' = disk[Src(src)]
  /\ \/ EndInput(FALSE)
     \/ /\ disk[Src(src)] = snapshot
        /\ pc' = "verify" /\ UNCHANGED <<pos, dst, records, Result>>
  /\ UNCHANGED <<optionVars, receipt, queue, disk, snapshot, exit, edits>>

\* After the run: refuse if the source has changed, or if the conversion
\* failed; otherwise the edits are applied to the snapshot's bytes.
Verify ==
  /\ pc = "verify"
  /\ \/ EndInput(FALSE)
     \/ /\ MatchesPhysical
        /\ \/ mode = "none" /\ EndInput(TRUE)
           \/ mode # "none" /\ pc' = "write" /\ UNCHANGED <<pos, dst, records, Result>>
  /\ UNCHANGED <<optionVars, receipt, queue, disk, convVars, exit, edits>>

\* raw_fd_ostream truncates the destination and writes it in place.
OpenOutput ==
  /\ pc = "write"
  /\ \/ /\ disk' = [disk EXCEPT ![dst] = Text("torn", src, snapshot.v, snapshot.n)]
        /\ pc' = "close" /\ UNCHANGED <<pos, dst, records, Result>>
     \/ EndInput(FALSE) /\ UNCHANGED disk
  /\ UNCHANGED <<optionVars, receipt, queue, convVars, exit, edits>>

\* A write error is returned as a failure, or ends the process at once: the
\* stream's destructor (external) is fatal for an error nobody cleared.
CloseOutput ==
  /\ pc = "close"
  /\ \/ /\ disk' = [disk EXCEPT ![dst] = Translation(snapshot, parsed)]
        /\ EndInput(TRUE) /\ UNCHANGED exit
     \/ WriteFails /\ EndInput(FALSE) /\ UNCHANGED <<disk, exit>>
     \/ WriteFails /\ Stop("error") /\ UNCHANGED <<disk, pos, dst, records, Result>>
  /\ UNCHANGED <<optionVars, receipt, queue, convVars, edits>>

-----------------------------------------------------------------------------
(* The end of the run, and everybody else *)

\* finishWithMigrationReceipt: the final receipt, or exit code 1 without it.
Finish ==
  /\ pc = "finish"
  /\ pc' = "return"
  /\ \/ rpath = NoReceipt /\ UNCHANGED <<receipt, disk, Result>>
     \/ /\ rpath # NoReceipt
        /\ \/ /\ PublishReceipt(IF Result = 0 THEN "succeeded" ELSE "failed")
              /\ UNCHANGED Result
           \/ Result' = 1 /\ UNCHANGED <<receipt, disk>>
  /\ UNCHANGED <<optionVars, queue, pos, dst, convVars, records, exit, edits>>

ReturnFromMain ==
  /\ pc = "return"
  /\ Stop(IF Result = 0 THEN "ok" ELSE "error")
  /\ UNCHANGED <<optionVars, receipt, queue, pos, dst, disk, convVars, records,
                 Result, edits>>

\* The process is killed.
Crash ==
  /\ pc # "exit"
  /\ Stop("killed")
  /\ UNCHANGED <<optionVars, receipt, queue, pos, dst, disk, convVars, records,
                 Result, edits>>

\* The user saves another version of an input that is not translated yet.
UserEdits ==
  /\ pc # "exit" /\ edits < MaxEdits
  /\ \E s \in Range(requested), v \in 1..2 :
       /\ disk[Src(s)].state = "whole" /\ disk[Src(s)].n = 0
       /\ disk[Src(s)].v # v
       /\ disk' = [disk EXCEPT ![Src(s)] = Text("whole", s, v, 0)]
  /\ edits' = edits + 1
  /\ UNCHANGED <<optionVars, receipt, pc, queue, pos, dst, convVars, records,
                 Result, exit>>

Step ==
  \/ PreflightRefuses \/ PreflightAdmits \/ OpenReceipt \/ OrderInputs
  \/ ResolveFails \/ Resolve \/ PrepareFailed \/ Prepare
  \/ ConvertClosure \/ Capture \/ Parse \/ Verify \/ OpenOutput \/ CloseOutput
  \/ Finish \/ ReturnFromMain

Next == Step \/ UserEdits \/ Crash

Spec == Init /\ [][Next]_vars

-----------------------------------------------------------------------------
(* Properties *)

\* The inputs Init may drop: those with a directory, beside a bare one.
Droppable == IF Range(requested) \cap Bare = {} THEN {} ELSE Range(requested) \ Bare

\* The inputs a run answers for.
Kept == Range(queue) \cup (Range(requested) \ Droppable)

\* Exit code 0 means that the translation of every input the run answers for is
\* whole at that input's own output path, whatever the order Init chose, however
\* often an input occurs in it and wherever the receipt was put.
ExitMeansDelivered ==
  exit = "ok" /\ mode # "none" =>
    \A s \in Kept :
      LET held == disk[OwnOutput(s)] IN
      held.state = "whole" /\ held.of = s /\ held.n > 0

\* No output combines the bytes of one version of a source with edits computed
\* on another, even if the user saves, and saves back, during the parse.
NoMixedVersions == \A p \in Paths : disk[p].state # "mixed"

\* A succeeded receipt is on disk only after every input the run answers for was
\* converted, and a run that exits with 0 has put it there: a stale receipt of an
\* earlier run or an in_progress one never accompanies success.
ReceiptTracksRun ==
  /\ receipt = "succeeded" =>
       /\ \A i \in DOMAIN records : records[i].ok
       /\ \A s \in Kept : \E i \in DOMAIN records : records[i].input = s
  /\ exit = "ok" /\ rpath # NoReceipt => receipt = "succeeded"

\* When the loop is over, every entry of the list has its own record, in order,
\* and so has every input but a droppable one: no early continue skips one.
EveryInputReported ==
  pc \in {"finish", "return"} =>
    /\ Len(records) = Len(queue)
    /\ \A i \in DOMAIN queue : records[i].input = queue[i]
    /\ \A s \in Kept : \E i \in DOMAIN records : records[i].input = s

\* The receipt never replaces a source or an output of this run.
ReceiptKeepsOff ==
  \A s \in Range(requested) :
    /\ disk[Src(s)].state # "receipt"
    /\ mode # "none" => disk[OwnOutput(s)].state # "receipt"

\* An output of this run, whole or torn, is on disk only beside a receipt of this
\* run, also when the process is killed: an earlier run's receipt never vouches
\* for it (the receipt main publishes before the loop).
OutputsUnderOpenReceipt ==
  rpath # NoReceipt /\ (\E p \in Paths : disk[p].state = "torn" \/ disk[p].n > 0) =>
    receipt \in {"in_progress", "succeeded", "failed"}

\* What a run reports is what it did, after failing, repeated and reordered inputs
\* alike: its exit code, its receipt and the records in it, for every requested
\* input except one with a directory that Init dropped beside a bare one; and
\* wherever it is killed, the receipt beside its outputs is its own, not an earlier
\* run's (main's loop over the file list and the receipt around it).
SuccessMeansDelivered ==
  /\ ExitMeansDelivered /\ ReceiptTracksRun /\ EveryInputReported
  /\ ReceiptKeepsOff /\ OutputsUnderOpenReceipt

\* src/main.cpp, the receipt's summary of a succeeded run: "all requested source
\* conversions completed".  Every requested input was converted.
AllRequestedConverted ==
  receipt = "succeeded" =>
    \A s \in Range(requested) : \E i \in DOMAIN records : records[i].input = s /\ records[i].ok

\* src/main.cpp, comment in the loop: "Should we fail for some reason, we'll
\* just leak this file and not corrupt the input."  Every source holds text of
\* its own, in one piece, when main has returned.
InputsNotCorrupted ==
  exit \in {"ok", "error"} =>
    \A s \in Range(requested) : disk[Src(s)].state = "whole" /\ disk[Src(s)].of = s

=============================================================================
