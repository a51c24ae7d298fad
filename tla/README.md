# A TLA+ verification project for Ascify

Ascify translates CUDA sources into Ascend sources. It is a Clang tool (the
*converter*) plus the headers that translated programs include (the
*generated-code runtime*) and row-wise kernels with a recipe that routes calls
to them. This directory models the parts whose correctness depends on order,
failure, sharing or history, checks them with TLC on small instances, and
proves with TLAPS that 36 of the 40 properties found to hold do so for instances
of any size.

`PROJECT.json` is the index: components, runs, mutants, the map from
definitions to source lines, hazards, findings and theorems. Paths below are
relative to the repository.

## 1. Inventory

| Component | State | Operations | Interacts with | What is hard |
|---|---|---|---|---|
| Migration driver (`src/main.cpp`, `MigrationReceipt*.cpp`, `HostCxxRootInput.cpp`) | the input list, `dst`, the receipt file, source and output files | preflight, open receipt, order inputs, convert one input, finish | runs one AscifyAction per input; hands a closure to LocalHeader | early `continue`s in a loop with state kept across iterations; the user edits while it parses; crash between writes |
| Translation of one unit (`src/AscifyAction.cpp`) | `*replacements`, `SemanticRewriteRanges`, header needs, the helper transaction, diagnostics | parse callbacks, some forty proof and commit stages, raw token pass, `EndSourceFileAction` | called by the driver and by the closure (discovery, joint parse) | plans proved early and committed late; stages that return with or without disarming the end; several edits that must go together |
| Preprocessor callbacks (same file, `PackedRecordBoundary.cpp`) | what each of six proofs has seen of macros, includes, pragmas, files | one callback per directive or expansion, a seal at the end | Clang's preprocessor; files on disk; the helper transaction | what a removed or replaced header leaves behind for text read before, after or in a skipped branch |
| Local-header closure (`src/LocalHeader.cpp`) | selected headers, include edges, evidence of three parses, staged artifacts | observe includes, flatten, validate, stage, publish | many AscifyActions; the file system | files edited between parses; headers discovered late; a two-artifact replacement without a journal |
| Group proofs (`FullWarpGroups.cpp`, `UniformBlockReduction.cpp`, `DynamicWarpGroups.cpp`) | abstract scalars, registered values | one walk over a kernel, audits | stages of AscifyAction; the groups of the runtime | one abstract visit stands for all threads and iterations |
| Launch bounds (`KernelThreadBounds.cpp`) | bounds, policies, observations | attribute calls during the match, occupancy proof, audit | AscifyAction, local headers | recorded in three phases under different conditions |
| Other lowerings (`Scalar64Lowering.cpp`, `CudaVec3AbiBoundary.cpp`, ...) | none: AST in, plan or refusal out | `ProveXxx` | stages of AscifyAction | recognition of C++ shapes |
| Row-wise recipe (`DavC310TargetRecipe.cpp`) | collected kernels and launches | collect, finalize, emit wrappers | stages of AscifyAction | recognition of C++ shapes |
| Frontend profile, options, API maps, statistics | constants, counters | decisions before the parse, reports | everything | little |
| Runtime lifecycle and profiler (`include/ascify/ascify_cuda_compat.hpp`) | `RuntimeManager`, `ProfilerManager`, the exit stack | initialise, bind, reset, start, stop, shutdown | ACL, `atexit`, host threads, an embedding application | check in one critical section, act in another; exit order decided by lazy registration |
| Texture and allocation registries (`texture_compat.hpp`, same compat header) | two fixed tables, two spin locks, device memory | allocate, free, view, destroy, device reset | each other through hooks; ACL | address reuse, partial failure, full tables, lock order |
| Streams, copies, errors, symbols, device queries (`symbol_compat.hpp`, same compat header) | submitted work, resolver chain, error words of a thread | submit, wait, copy, resolve, ask | lifecycle, texture status flags | ACL orders less than CUDA promises |
| Warp groups and block reductions (`*_groups_compat.hpp`, `masked_warp_compat.hpp`, `uniform_block_reduction_compat.hpp`) | lane masks, scratch slots, barriers | partition, exchange, reduce | device code admitted by the group proofs | divergence, slot reuse, ragged trees |
| CUB subset (`acl_cub/aclcub.hpp`) | shared storage of a block | `Reduce`, `AllReduce`, `AllReduceDB`, ... | row-wise kernels, translated kernels | storage reused by the next call |
| Row-wise kernels and selectors (`include/ascify/target/dav_c310`) | output rows, UB cache, registers | launch, route, normalise | wrappers emitted by the recipe | caches, tails, aliasing buffers, overflow |
| Numeric device helpers, SIMD kernels | none | rounding, packing, intrinsics | device code | arithmetic |

What makes each modelled part correct:

* **driver**: exit code 0 and a `succeeded` receipt mean that every requested
  input was converted and delivered, whole, at its own path (the code keeps this
  promise except for inputs it drops, see `driver_all`); an output is never on
  disk beside the receipt of an earlier run; no output mixes two versions of a
  source.
* **translation**: published output is whole, has one owner per piece of text,
  and never loses the sample helper of a file that was not fully audited.
* **preprocessor proofs**: what the retained text means does not depend on the
  header, branch or packing that the output no longer has.
* **closure**: what is published is closed under its includes and was rechecked
  against the proof after the last translation; whatever fails or dies, the last complete
  root/bundle pair survives and the verdict tells the truth.
* **group proofs and group operations**: an admitted kernel brings all threads
  to each collective together, and each collective gives every lane what CUDA
  defines.
* **lifecycle, registries, calls**: no device binding escapes teardown; no view
  comes to read a later allocation; no slot is lost; a copy follows the work it
  must follow; a successful wait hides no error.
* **row-wise**: every element of every row is normalised by its whole row; a
  call has one owner, and the error of a refused launch reaches the caller.

## 2. Modules

| Module | Models | Instance |
|---|---|---|
| `PublishClosure`, `AtomicPublish` | `publishClosure`, `src/LocalHeader.cpp` 148-431, and the promise it implements | `MCPublishClosure` |
| `PublishClosure_proofs` | proofs about it | |
| `MigrationDriver` | `main` and the physical-source path of `ascifySingleSource` | `MCMigrationDriver` |
| `MigrationDriver_proofs` | proofs about it | |
| `SourceAction` | `BeginInvocation`, `ExecuteAction`, `RewriteToken`, `EndSourceFileAction`, the helper transaction | `MCSourceAction` |
| `SourceAction_proofs` | proofs about it | |
| `LocalHeaderPlan` | `LocalHeaderClosurePlan` and `ascifySourceWithLocalHeaderClosure` | `MCLocalHeaderPlan` |
| `LocalHeaderPlan_proofs` | proofs about it | |
| `HelperMacros`, `SdkBoundary`, `ProfilerBlock`, `CgProjection`, `PragmaAudit`, `PackedRecords` | the six preprocessor proofs | `MCPreprocessor` |
| `GroupAdmission`, `ScratchAdmission`, `DynamicAdmission` | the three group proofs, and the published kernel running | `MCCooperativeGroups`, inputs in `MCAdmissionInputs` |
| `BlockReduction`, `WarpGroups` | the group operations of the runtime | `MCCooperativeGroups` |
| `Admission_proofs` | proofs about `SdkBoundary`, `ProfilerBlock`, `CgProjection`, `PragmaAudit`, `DynamicAdmission` and `BlockReduction` | |
| `KernelBounds` | launch bounds from recognition to the translated call | `MCRuntimeCalls` |
| `RuntimeCalls` (extends `DeviceQueries`) | streams, events, copies, errors, symbols; questions about the device | `MCRuntimeCalls` |
| `RuntimeCalls_proofs` | proofs about `RuntimeCalls`, `KernelBounds` and `WarpGroups` | |
| `RuntimeLifecycle` | `RuntimeManager`, `ProfilerManager`, process exit | `MCRuntimeLifecycle` |
| `RuntimeLifecycle_proofs` | proofs about it, `RowwiseRoute` and `AclcubCalls` | |
| `TextureRegistry` | allocation and texture tables, hooks, locks | `MCTextureRegistry` |
| `TextureRegistry_proofs` | proofs about it | |
| `Aclcub`, `AclcubCalls` | `BlockReduce` and loops that call it | `MCRuntimeLifecycle` |
| `RowwiseKernels` (extends `Aclcub`), `RowwiseRoute` | native kernels; selectors and wrapper prologue | `MCRuntimeLifecycle` |

`SourceAction` stands above the proofs: what a proof answers is a choice there,
and the proof's own module says which answers are right. `LocalHeaderPlan` ends
in the hand-over to `PublishClosure`; `MigrationDriver` has the closure
conversion as one action. `RowwiseKernels` runs its block kernels on the
reductions of `Aclcub`. The instances `MCPreprocessor`, `MCCooperativeGroups`,
`MCRuntimeLifecycle` and `MCRuntimeCalls` hold machines that share no state: a variable
`part` chooses which of them a behaviour is about, and the others stay where
they began.

Operators named `Mut...`, and those under a comment "Mutant:" or "Slip:", are
deliberate errors: `PROJECT.json` says which definition each replaces and which
property must then fail. They are not part of any specification.

### PublishClosure and AtomicPublish

`fs` maps the four paths of a publication (root, bundle and their
`.ascify-backup` names) to what they hold: the kind of entry, whether
`ownedBundle` would accept it, which run wrote it and whether a recursive
remove has damaged it. `backup` stands for the two local strings
`rootBackup`/`bundleBackup` (empty or not). `pc` is the next system call.
`Begin` starts an invocation, `InspectAdmit/Refuse`, `AsideBundle/Root`,
`PublishBundle/Root`, `DropRootBackup/BundleBackup`, `RollbackRemove`,
`RollbackRename` and their `...Fails` twins follow the code; `Crash` may come
between any two. `before`, `lastGood` and `faulted` are history variables for
the properties. The staged content itself and its digests are abstracted to the
run number.

`AtomicPublish` has three variables (pair, phase, verdict): a run replaces the
pair in one step or leaves it alone and says so; only a run that died or
reported a failed rollback may leave it torn. The refinement mapping shows the
pair of `before` until the root rename, which is the commit point.

### MigrationDriver

`requested` and `base` are the command line: which sources, and which file names
they have; `Bare` are the sources spelled without a directory. `disk` maps
source and output paths to texts: whose text, which of the user's versions, how
often translated, whole, torn or mixed. `dst` is `main`'s local, kept across
iterations as in the code. `Capture`, `Parse`, `Verify`, `OpenOutput`,
`CloseOutput` are the physical-source conversion with its byte snapshot;
`UserEdits` may come between any two steps, so may `Crash`. `ConvertClosure`
stands for the whole local-header conversion. `OrderInputs` is `main.cpp`
117-148: the list is replaced by the reverse of those `-main-file-name`
arguments of the Clang driver's jobs that occur in it. The jobs are external
(`DriverJobs`): each has the bare file name of its input, a CUDA input has one
or two, and a failed setup leaves none. An input with a directory therefore
drops out when another one is bare, or becomes a second entry of the bare one
that has its name (`Spelled`, `SortedFiles`). `Droppable` are the inputs to
which that can happen, `Kept` all others and whatever is in the new list: the
properties of `driver` speak of `Kept`, so that the loss of any other requested
input would falsify them; `AllRequestedConverted` speaks of all that were
requested.

### SourceAction

A *spot* is a piece of main-file text that one rewrite covers. `edits` is
`*replacements` and `claims` is `SemanticRewriteRanges`, both as sets of
(author, spot). What a proof concludes from the program text is data: a choice
of refusal, nothing to do, or a set of spots. What happens with the answer is
control: each stage refuses (with or without setting
`cudaRuntimeApiBoundaryFailed`, exactly where the code does), goes on, plans,
or commits a staged transaction that is checked against claims and edits.
`AddOutcomes` is the conflict rule of `ct::Replacements::add`: two
replacements of the same text conflict; an insertion next to an edit may or may
not. The raw pass lexes the spots in order; a helper name it meets is clean,
inside a proven inactive branch, or residual. `tx` is the sample-helper
transaction: recorded calls, whether it is ready, marked unsupported, fully
audited and committed, and who relied on it.

Left out: what the register factories absorb from a token, skipped ranges and
the AMAP mode, statistics. The AST match handlers are one action,
`SemanticRewrite`.

### LocalHeaderPlan

`disk` gives each source file a version; `UserEdits` changes one at any time. A
text is its include directives (of eleven kinds), what it needs of its
includer, whether it is include-once, its pragmas and whether it holds a kernel
that needs a bound; a digest is a version. `plan`, `trial`, `parse`,
`discovery`, `original` and `staged` are the objects of the same purpose in the
code. `Prepare` to `FinishDiscovery` select headers, `StartOriginal` to
`FinishJoint` are the original and joint parse whose evidence must agree,
`StartHeader` to `FinishHeaders` translate the rest of the queue, `Verify`,
`AdoptJointPlan`, `Validate` and `Publish` end the run. `ToInline`, a loop to a
fixed point in the code, is the least set closed under its rules. `history` is
a history variable: the states of the disk since the last text was staged.

### The six preprocessor proofs

Each reads a short input event by event, with the preprocessor's table and the
members of `AscifyAction` its callbacks write, and decides at the seal. The
property then compares with the output preprocessed again, or with what
retained text observed.

* `HelperMacros`: lines in the main file, a planned local header or a foreign
  one; `helper_cuda.h` and friends define `MAX`, `EXIT_WAIVED` and
  `checkCudaErrors` unless somebody did. `ProveHelperMacros` and
  `FinalizeClosure` decide on the removal of the include.
* `SdkBoundary`: includes, definitions and uses below `cuda_runtime_api.h`;
  `Audit` is `auditCudaRuntimeApiSurface`. `NativeName` says what the C
  library's headers may name.
* `ProfilerBlock`: the `__has_include` block of the profiler header;
  `Finish` is `sealProfilerAvailabilityProof` and the surface audit.
* `CgProjection`: NVIDIA's `cooperative_groups.h` replaced by the product's;
  `Touch` is another process rewriting or replacing a provider.
* `PragmaAudit`: one header entered once or twice, as a system file or not.
* `PackedRecords`: `#pragma pack` regions, the guards inserted for the
  configuration that was not parsed, and the final audit of other edits.

### Group proofs and group operations

`GroupAdmission` interprets a kernel tree twice: `ProveFullWarpGroups` is the
code's one abstract walk (uniformity and constant per scalar, one flag for
control), the rest executes the kernel for every thread and lets warps and
barriers interleave. `ScratchAdmission` and `DynamicAdmission` do the same with
the conditions of their proofs; a C++ type or provenance test is an attribute of
the declaration, call or tile it is about.

`BlockReduction`: `EnterReduce`, `FoldPartials`, `ReadResult` are the segments
of a warp between the block barriers; a value is the bag of the operands folded
into it, so a lost, doubled or stale operand is visible. `WarpGroups`: `stack`
is the nesting of divergent branches of one warp, each with the group its lanes
formed; every collective either gives all active lanes a result or ends the
kernel (`reject_device_contract`).

### KernelBounds, RuntimeCalls, DeviceQueries

`KernelBounds` follows two kernels and up to two calls through the match, the
occupancy proof, the token pass and the audit, and then lets the translated
program ask (`AskBound`).

`RuntimeCalls`: `work` is all submitted work in one history, `done` what has
run; a stream runs its own work in order and nothing else is ordered. A call
that waits or makes several ACL calls has a `pc` of its own, so other threads
submit in between. `pending` and `aclLast` are the two error words of a thread,
`registry` the resolver chain of device symbols. `DeviceQueries` are pure
operators: an answer is a status and what is stored through the caller's
pointers; `QueryExact` compares them with reference definitions.

### RuntimeLifecycle

`stack` is the exit stack (`atexit` callbacks and destructors of static
objects), `mgr` and `prof` the fields of the two managers, `live`, `ctx`,
`built`, `acl` the external ACL. Each critical section is one action of one
thread; the steps between sections, and the ACL calls `shutdown` makes after
its section, interleave. An embedding application may initialise ACL and
select a device itself.

### TextureRegistry

`heap` and `desc` are device memory, with generation numbers the code does not
have: they let the properties tell an allocation from the next one at the same
address. `owner`, `record`, `handle` are the three fixed tables; `aLock` and
`tLock` the two spin locks, taken in that order; `context` says which context
each thread works in. Every ACL call can fail. Preconditions taken from
`docs/texture-compatibility.md`: no device is reset while another thread works
on it, and nothing is freed twice.

### Aclcub, RowwiseKernels, RowwiseRoute

`Aclcub`: lanes of a warp run in lockstep, warps meet at `asc_syncthreads()`;
`warp_aggregates` is `TempStorage` with its two parities, `generic_buf` the
scratch of the generic tree. `AclcubCalls` loops over one overload on the same
storage, with or without a barrier of the caller. `RowwiseKernels`: `Launch`
validates, chooses one of nine kernels and its grid; then all warps interleave,
grid-striding over the rows. Arithmetic is exact; `exp` is a power of two in
fixed point. `RowwiseRoute`: pointers are addresses of a small machine with the
overflow checks of the source; the SIMD kernel is external and reads and writes
whole rows in any order. A launch is accepted or refused (`LaunchResults`); a
refused one is recorded in `ran` and sets ACL's error word of the thread,
`lastError`. A target entry returns that word (`TargetStatus`); the softmax entry
asks for the device first and returns an error of that query (`QueryFails`). The
original body ends in `cudaPeekAtLastError` of the compat header, which returns
Ascify's pending lifecycle error before ACL's word. A thread may enter with either
(`call.lifecycle`, `call.earlier`). `Geometry` is the block of the original body
that may return early: the call to the target is inserted before it for softmax
and after it for the norms (`DavC310TargetRecipe.cpp` 11367-11516).

## 3. Runs

| Run | Instance | Result |
|---|---|---|
| `publish` | 3 invocations, every system call may fail, crashes anywhere | `LastPairRecoverable`, `StaleBackupKept`, `OutcomeHonest` (a report is what happened; without a fault the run publishes) and the refinement `ImplementsAtomicPublish` hold |
| `driver` | one or two of three sources, one with a directory and maybe with the name of another; every output mode and receipt place, failures, crashes, two user edits | `SuccessMeansDelivered` (delivered outputs, a receipt that tracks the run and keeps off other files, a record for every input, all but dropped ones; no output beside an earlier run's receipt, wherever the run is killed) and `NoMixedVersions` hold |
| `driver_stale_dst` | two sources, failing preparation | **violated** `InputsNotCorrupted`: a stale `dst` overwrites another source under `-inplace` |
| `driver_all` | the sources of `driver`, no edits, no failing preparation or write | **violated** `AllRequestedConverted`: with one input bare and one with a directory only the bare one is converted, and the receipt says `succeeded` |
| `source_action` | 2 spots, 13 kinds of input, 2 units of work | `PublishedWhole` (lowerings, helper edits and their headers all or none; the raw pass keeps out of owned text), `ClaimsExclusive`, `ClosureAudited`, `HelperKeptOnlyIfFree`, `NoCompatCollision` hold |
| `local_headers` | a root, two headers, eleven projects, four user edits | `PublishedAsProved` (rechecked against the proof after the last translation, bounds on the text they were proved for, no input overwritten), `OutputsClosed`, `ContextKept` hold |
| `preprocessor` | short inputs for each of the six proofs | `RemovalInvisible`, `SdkRemovalInvisible`, `AvailabilityKept`, `ProjectionFaithful`, `PragmasProven`, `PackedLayoutKept` hold |
| `cooperative_groups` | a block of four warps of four lanes, one warp with nested branches, the kernels, units and sources of `MCAdmissionInputs` for the three proofs | `ReduceExact`, `GroupResultExact`, `AdmissionSound`, `ReductionsInStep`, `GroupsFresh` and, with fairness, `ReductionsReturn` hold |
| `groups_skipped_write` | kernels whose assignment may be skipped | **violated** `CollectivesTogether`: the proof takes a skipped assignment as executed |
| `runtime_calls` | two threads, a stream, an event, a symbol, three pieces of work; sources with two kernels and two questions | `CopyOrdered`, `SyncHonest`, `QueryExact`, `PublishedBoundTrue` hold |
| `lifecycle` | 2 threads, 2 devices, table of 1, 3 calls, embedding application; beside it the row-wise target: loops of three reductions, launches of all nine kernels, wrapper calls with every placement of their buffers and every result of their launch | `BindingsTracked`, `TeardownWhileSdkLive` (and ACL is finalised only by its owner), `ProfilerUnwinds`; `CallExact`, `RowsExact`, `RowsOrderFree`, `OneOwner` (one launch at most; success means an accepted one, and a refused one is returned as an error) hold |
| `texture` | 2 threads in one context or two, 2 addresses, 5 calls, full tables | `NoRetarget`, `TablesAgree` (no slot is lost), `ProvenanceCurrent` hold; no deadlock |

The three violations are disagreements between the code and a sentence of its
comments or messages; `findings` in `PROJECT.json` quotes each. `AdmissionSound` holds over
the kernels without a skipped assignment; the kernels with one are the instance
of `groups_skipped_write`.

### Deviations met without a run of their own

* `src/LocalHeader.cpp:1580`: a header that is not inlined is read again by its
  own parse, and these bytes are not compared with the digest the proof
  recorded; `verifyContextInputs` (824-852) compares what is on disk at the end.
  An edit that is undone in between is published, with a `context_input` line of
  the manifest (126) for other bytes, against
  `docs/local-header-closure.md:76-78`. `InputsRechecked` claims what holds.
* `src/LocalHeader.cpp:412`: a run without headers neither rejects nor moves an
  unmanaged directory at the bundle's place, and its rollback removes it;
  `docs/local-header-closure.md:26-28` says such a directory is rejected.
  `PublishClosure` has the behaviour.
* The target entries return ACL's error word and nothing else
  (`rmsnorm_reg_cached.cce:452`, `softmax_reg_recompute.cce:451`), so a diverted
  call does not report Ascify's pending lifecycle error, which the original body
  would return first (`ascify_cuda_compat.hpp:1855-1859`); and as a peek leaves
  the word, a call whose kernel was accepted returns an earlier error of its
  thread, as the original would. `OneOwner` therefore asks for the status of the
  call's own launch only when nothing was pending.
* `src/main.cpp:598`: under `-inplace` the output stream is opened on the source
  itself, so a write that fails halfway leaves a torn input, against the
  comment at 1042-1044.
* `ascify_cuda_compat.hpp:565` and 782: when an embedding application owns ACL,
  the profiler's exit callback can come after the teardown.
* `ascify_cuda_compat.hpp:755`: `cudaProfilerStart` reads context and device
  before it takes the lock; another thread may reset the device in between.
* `ascify_cuda_compat.hpp:1154`: `cudaMemset` waits for nothing, so it can
  overtake default-stream work.
* `texture_compat.hpp:516`: a view refused because the handle table is full
  keeps its borrowed record until the storage is freed; the comment at 468 says
  "A refused view must not consume a registry slot."
* `texture_compat.hpp:225`: `cudaMallocPitch` reads the record after both locks
  were released; harmless as long as nobody frees a pointer not yet returned.
* `ascify_cuda_compat.hpp:1955`: the search for a block size looks at 1024
  candidates and then refuses, although a smaller block may fit, which the
  comment above calls "itself capped". `MaxSteps` is that limit, and the last
  clause of `QueryExact` claims that a refusal is justified only
  for a core of at most so many warps, as every device has.
* `symbol_compat.hpp:236`: the resolver takes an older error of the thread for a
  failed launch and frees a buffer that a queued kernel will write.
* `acl_cub/aclcub.hpp:375`: the generic tree reads its result after the last
  barrier, from an array that is one per block, so a second call can overwrite
  it; the comment at 357 says "reuse is safe without an extra barrier". The
  loops of the `lifecycle` run therefore have a barrier of their own unless they
  use the double-buffered overloads (`ContractLoops`). At 366 the generic tree assumes a
  block size that is a power of two.
* `src/AscifyAction.cpp:11224`: the audit does not ask whether a token of a
  native header is a macro that reaches one of the SDK's. With `-DA=B` on the
  command line, `B` defined by the SDK and `#if A` in a native header, an
  accepted output reads another value there. The precondition under which
  `SdkRemovalInvisible` holds is `NativeName`: the C library's headers name no
  CUDA macro, and what a command line defines for them has no other name in it.
* `src/UniformBlockReduction.cpp:721`: `block.sync()` under an `if` whose
  condition differs between threads is admitted; only loops are searched.

### Bounds and why they are enough

* `MaxRuns = 3`: one run to crash, one to publish over the leftovers, one to
  meet what then remains. The proofs hold for every number.
* Driver: two inputs show every carry-over from one iteration to the next and a
  name collision; with one bare and one in a directory they are dropped, or, with
  one name, doubled; two bare ones are doubled and reversed. Two edits let the
  user change a source and change it back during a parse.
* `NumSpots = 2`, `MaxWork = 2`: two spots let one edit of a transaction fit
  and another conflict, and let a transaction meet another on one spot only.
  Two units of planned work put any two lowerings, matches or helper calls on
  the same or on different spots; the raw pass is not counted. The proved
  properties hold for every bound. The inputs of `MCSourceAction` vary one
  respect at a time, and together where the code combines them.
* `LocalHeaderPlan`: two headers make chains, cycles and siblings; four edits
  change a file, change it back, and do so again or with another, between the
  three parses and the recheck. With four edits TLC refutes the claim that all
  inputs were ever on disk together, so the bound is large enough to tell
  `InputsRechecked` from that stronger sentence; `verifyContextInputs` compares
  the files one after the other.
* Preprocessor: `MaxLines = 4`, `MaxEvents = 4`, `MaxText = 4`, `MaxCgEvents = 3`
  allow a definition before, the include, a use and an event after it. Texts
  for the profiler block have `MaxAround = 2` lines after it, one before and one
  inside; the header of `PragmaAudit` has two pragmas because the hazard is the
  callback of a second one.
* `WarpSize = 4`, `BlockWarps = 4`: two levels of the reduction tree within and
  across warps, tiles of one, two and four warps. `Width = 4` with branches of
  one, two and three lanes: ragged trees. `IntBits = 3`: sums wrap. `MaxDepth = 2`:
  a group of an outer scope used in a branch. `MaxActivations = 3`: a mask can
  be an earlier activation's. Three calls: a fast warp can be a whole call
  ahead.
* Row-wise: warps of 2 lanes, vectors of 2, caches and thresholds in the ratios
  of the source, so that rows are shorter, equal to and longer than every
  cache, and more rows than the grid. `MaxAddress = 15` makes spans overflow;
  `IntMax = 2` lets a call have more rows than an `int` of the original kernel holds.
  The errors a thread brings along vary over the calls whose placement is simple.
* `RuntimeCalls`: three pieces of work are one before the call, one of another
  stream and one submitted while it waits. One thread is followed, the other
  only submits. `IntMax = 12`, `DefaultBound = 4`, `LargestBound = 8` keep the
  order of the source's limits; with `MaxSteps = 3` a core can have one warp more
  than the search tries.
* Lifecycle: two threads for every race; one more device than the table holds
  for the overflow; three calls for bind, profile and one more.
* Texture: two addresses and five calls suffice for allocate, view, free,
  reallocate, destroy, with a second thread in between; each table has fewer
  slots than the instance can ask for. Threads, addresses and descriptors that
  are interchangeable are declared symmetric (only invariants are checked).

### Fairness

Only `cooperative_groups` checks liveness (`ReductionsReturn`: every warp of an
accepted block returns from all its reductions). It assumes weak fairness of
each warp's own steps and of the barrier (`ReduceFairness`): the device runs
every resident warp, and a barrier all warps have reached releases them. The
other runs check safety only.

`CHECK_DEADLOCK FALSE` is set where the modelled process ends without an
explicit final step (`publish`, the driver runs, `preprocessor`). In all others
a stop that is not a listed final state would be reported.

## 4. Proofs

A module `X_proofs` proves theorems about the module `X`; those about smaller
modules are kept together: `Admission_proofs` for what the converter admits on
evidence and for the block reductions that admitted kernels run,
`RuntimeCalls_proofs` also for the launch bounds and the collectives of a warp,
`RuntimeLifecycle_proofs` also for the row-wise calls and the loops of block
reductions. All theorems are for all values of the constants that satisfy the
named `ASSUME`s. These say no more than the code does:

* bounds are naturals (`MaxRuns`, `MaxEdits`, `MaxWork`, `MaxCalls`, ...); a
  request to the driver is a nonempty sequence of sources, and two sources without a
  directory have different names; a project is a record
  of options and of a text per file and version; the device table has a slot;
  `None` is no thread, address, descriptor or context; a launch bound that is one
  literal has the same value for every preprocessor;
* `SdkBoundaryAssumption`: a translation unit has finitely many macro names, and
  the compiler condition is not one of the others; `TextsAssumption`,
  `PackTextsAssumption`: a text is a sequence of lines;
* `DynamicSourcesAssumption`: values and calls are sequences in source order,
  and a value and a static tile are different declarations;
* `ReductionShape`: the `static_assert`s of `uniform_block_reduction_compat.hpp`.
  The warp size and the warps of a tile are powers of two, which is said by a
  set that is closed under halving down to 1; tiles partition the block;
* `AclcubAssumption`: the warp size is a power of two, said the same way;
  `CallsAssumption`: a loop has a barrier of its own or calls a double-buffered
  overload on a tagged path (`Contract`). This is more than aclcub.hpp asks: its
  lines 350 and 357 also call an unguarded loop on the generic tree safe, which
  it is not, and which the contract excludes. A marker the
  conversion placed agrees with `operator()`; a block on the generic tree has a
  power of two of threads; operands are integers, none below the identity of Max;
* `GroupsAssumption`: a warp has a power of two of lanes, at least two, and the
  operands of its reductions are values of its registers;
* `QuestionsAssumption`: a question takes integers, device attributes are
  integers of either sign, dynamic UB is a natural that depends linearly on the
  block size, and a command line is a finite sequence;
* `RouteAssumption`: widths and limits of the machine are positive;
  `WrapperCallsAssumption`: pointers are addresses, extents any integers.

TLC evaluates each of them in the run of its module.

A property is seldom inductive as it stands. For each specification a stronger
invariant is defined as a conjunction of named parts, proved in lemmas of one
step per action, and short temporal theorems follow from it.

| Module | Theorem and property |
|---|---|
| `PublishClosure_proofs` | `TypeCorrect`; `LastPairNeverLost` (`LastPairRecoverable`), `StaleBackupNeverTouched` (`StaleBackupKept`), `ReportsAreHonest` (`OutcomeHonest`), `PublishIsAtomic` (`ImplementsAtomicPublish`) |
| `MigrationDriver_proofs` | `TypeCorrect`; `SuccessIsDelivered` (`SuccessMeansDelivered`), `VersionsNeverMix` (`NoMixedVersions`) |
| `SourceAction_proofs` | `TypeCorrect`; `HelperRemovedOnlyAudited` (`ClosureAudited`), `OneOwner` (`ClaimsExclusive`), `HelperDebtSettled` (`HelperKeptOnlyIfFree`), `DiscoveryIsEvidenceOnly` (`DiscoveryEditsNothing`, which no run checks), `NothingInPart` (`PublishedWhole`), `NeededHeaderFits` (`NoCompatCollision`) |
| `LocalHeaderPlan_proofs` | `TypeCorrect`; `PublishesWhatWasProved` (`PublishedAsProved`), `ClosureIsClosed` (`OutputsClosed`), `ContextsAreKept` (`ContextKept`) |
| `Admission_proofs` | `AcceptedRemovalInvisible` (`SdkRemovalInvisible`), `SealedAvailabilityKept` (`AvailabilityKept`), `AcceptedProjectionFaithful` (`ProjectionFaithful`), `HelperPragmasProven` (`PragmasProven`), `AcceptedHelperRemoval` (`RemovalInvisible`), `AcceptedLayoutKept` (`PackedLayoutKept`), `AdmittedGroupsFresh` (`GroupsFresh`), `ReductionsAreExact` (`ReduceExact`) |
| `RuntimeLifecycle_proofs` | `TypeCorrect`; `TeardownKnowsBindings` (`BindingsTracked`), `TeardownInTime` (`TeardownWhileSdkLive`), `SessionUnwinds` (`ProfilerUnwinds`); `CallHasOneOwner` (`OneOwner`), `AdmittedRowsOrderFree` (`RowsOrderFree`); `ReusedStorageIsExact` (`CallExact`) |
| `TextureRegistry_proofs` | `TypeCorrect`; `ViewsStayHome` (`NoRetarget`), `TablesConsistent` (`TablesAgree`), `OwnersCurrent` (`ProvenanceCurrent`) |
| `RuntimeCalls_proofs` | `TypeCorrect`; `CopiesFollowWork` (`CopyOrdered`), `WaitsAreHonest` (`SyncHonest`); `BoundsAreTrue` (`PublishedBoundTrue`); `AnswersAreExact` (`QueryExact`); `CollectivesAreExact` (`GroupResultExact`) |

**PublishClosure.** A rollback removes the artifact in place before it renames
the backup back, and moveAside names a backup before it knows that the name is
free, so neither safety invariant is inductive. `IInv` adds `BackupIsOwn` (a
backup name the run acts on was free when it began), `SavedAside` (what may be
overwritten is not the only copy), `RestoreIsDue` (only a named backup is
renamed back), `InPlace` (from the commit point the last pair is the one in
place) and `PairIsManaged`. For the report, `HonestInv` says what each system
call finds: `Forward` up to the commit and the cleanup, `Backward` for what the
rollback still has to restore (`Held`) and has restored, `Reason` (without a
failed call only a stale backup starts a rollback, and all of it succeeds).
Under both invariants every action maps to a step of `AtomicPublish` or to a
stutter.

**MigrationDriver.** `Preflight` (a refused command line writes nothing), `Loop`
(what is recorded is the prefix of the queue before the current input),
`Receipts` (when each receipt is on disk), `OneVersion` (what is written was
parsed from the snapshot), `Aimed` and `Delivered`. `Aimed` is the reason that
the stale `dst` of `driver_stale_dst` cannot falsify a success: while no input
has failed, `dst` is the current input's own output; after a failure the run no
longer claims success. `NoneLost`: the new list holds every requested input that
is not `Droppable`, since each bare one has at least one job when there is any
(`OrderFacts`); so what was shown for the list holds for `Kept`. `Opened`: the
receipt of this run is on disk before the first input is resolved, and nothing
takes it away but a later one.

**SourceAction.** Some thirty stages only refuse, go on, plan or commit. The
lemmas `OpRefuse` ... `OpTransact` say once what these do (`Summary`);
`StageSteps` shows that each stage is such a step between neighbouring labels;
the invariants then look at `Stage` and at the few actions that do more.

* `ClosureAudited` from `AuditInv`: nothing is lexed before the raw pass
  (`Fresh`), all is lexed after it or once the chain ran to its end (`Swept`), a
  residual use marks the transaction for good (`Flagged`), a recorded call is no
  inactive use (`CallsActive`), and the transaction commits only in its own
  stage (`CommittedLate`). Early returns that leave `EndSourceFileAction` armed
  are covered by `Swept`, which speaks of `rawDone` and not of how
  `ExecuteAction` returned.
* `ClaimsExclusive`: every step adds only claims that meet no other owner
  (`ClaimsStep`); for the helper's own calls and branch guards this needs
  `CallsActive`. `HelperKeptOnlyIfFree` from `SettleInv`.
* `PublishedWhole` from `WholeInv`. `Rank` numbers the stages in their order;
  `Kept` says that a stage that was passed has left its whole plan in the edits,
  `Unplanned` that one ahead has no plan yet, so no plan grows behind its
  commit; `AllOrNone` and `HelperThere` are about the optional rewrites and the
  helper, `HeadersIn` and `CompatNeeded` about the headers, `RawApart` about the
  raw pass. Every stage is shown to be an `Advance`: it loses no edit, never
  goes back, and passes a commit only with the plan in the edits.
* `NoCompatCollision` from `FitInv`: a collision is found when the helper's
  proof ends or when the headers are chosen, and no later stage adds the need.

**LocalHeaderPlan.** The first lemmas say what the operations on plans and
parses keep. The parts of `Inv` follow the labels. While the root is settled,
`Unsettled` and `RootBound` tie original and joint parse to the saved root.
During a parse `InParse` says that an eligible include is still to come,
redirected or flattened, so at its end `StagedClosed` holds; a redirection lost
to another rewrite is then caught by `Validated`. `DependentKept` follows a
header that depends on its includer from the discovery parse through selection,
evidence and flattening into the inlined set. `Rechecked` says that every input
already compared was on disk, with the bytes of the proof, since the last
translation; `PolicySealed` that a bound is written into the text it was proved
for. `LabelsAdvance` says which labels follow each other, so that a part is
proved again only where it can change.

**KernelBounds.** `Holds(i, b)`: whichever kernel arrives at call i, b is its
bound and its annotation is planned. The three phases record it under different
conditions, so the invariant says of each what it leaves to the next:
`CalleesHold`, `ObjectsProven`, `PureOnly` (past the matcher nothing is planned
for a target whose kernels the converter replaces), `OccupanciesProven`,
`Audited`. `QueryFacts` and `ClosedHelperFacts` show that a helper's one bound
is that of every kernel any caller passes.

**RuntimeLifecycle.** `Ownership` relates who initialised ACL to the manager's
flags; `Handover` says that `shutdown` empties the table and only it fills the
list of resets; `Guarded` that while `shutdown` has something to do, every SDK
destructor on the exit stack has a `shutdown` callback above it, however lazily
the parts registered themselves. `CallsInOrder` carries what a check in one
critical section still guarantees in the next.

**TextureRegistry.** `Locks` says which step holds which lock; `Frees` and
`Resets` what two threads cannot do to one argument or context. The tables are
tied to memory by `RecordsLive`, `HandlesNamed`, `RefsCounted` (a count is the
number of handles on the record), `ValidViews` and `OwnersLive`. A reset is not
atomic: between ACL's reset and the cleaning of each table, `StaleRecord` and
`StaleOwner` name the context whose entries are out of date, and nobody else
works in it. That a full table is noticed uses that the first free slot is the
least of a nonempty set (`FirstFacts`).

**RuntimeCalls.** `CallKnows` says at each step of a call in several ACL calls
which part of the history has run or is free of errors; these facts survive
because the history only grows and work once done stays done (`Grown`).
`ReturnTrue` keeps them for the answer.

**DeviceQueries.** The search over candidates is a recursive function of the
steps left. That it exists is an induction over these steps (`SearchIs`), that it
returns the largest number of warps that fits is another (`SearchFinds`). With
it the answer is the maximum of the set of sizes the limits allow (`BlockIs`,
`GridIs`); the counting questions are quotients that say how many blocks fit
(`Fitting`, `FitIs`). Writing the second induction showed that the search may
give up before it reached the last candidate, which the model had left out.

**SdkBoundary.** A removal leaks when a retained use reads a macro the output
has lost, possibly many definitions away. `MacrosOK` and `LostKnown` say that
the audit knows every lost macro, `Noted` and `DefinitionsRead` that it has
recorded what every other definition mentions. The audit closes what it
distrusts under "mentions" and refuses uses of the result; `CleanClosure` shows
that the expansion of a macro it trusts then reaches no lost one
(`LeakRefused`). Both closures are recursive functions over the number of
names; the lemmas `Induction` and `Recursion` are about such functions. That
every header open above a removed one is the SDK's own is `StackOK`. The proof
did not go through without `NativeName`: TLC then found the behaviour described
under the deviations.

**ProfilerBlock.** The output reads the same lines with the sealed probe as a
plain branch. As long as the callbacks have refused nothing, the text holds no
other probe (`Plain`), both readings are in the same branches with the same flag
and have seen the same (`InStep`), wherever the seal will be.

**CgProjection, PragmaAudit.** Each way in which the two programs can part is
recorded where it arises (`DifferencesNoted`), and what the second seal saw
still holds when it accepts (`SealedFacts`). A pragma that touches a header
leaves it unsupported or pending (`TouchNoted`), so the closure keeps it.

**HelperMacros.** The output's macro table is compared with the parse's after
every line (`Same`): they differ only where `helper_cuda.h` gave the parse its
`MAX`, and then the output has the same text if `MAX` is replayed. Whether it is
replayed, and whether the compat header is added, is decided after the last
line, so the invariant speaks of all four outputs at once (`Tracks`), and the
theorem picks the one that was written. Until a callback vetoes, every line
read sees the same in each of them, or it is noted for a rewriting, or noted
nowhere, so that the raw pass refuses it (`Accounted`). What the callbacks note
later takes nothing back (`NotesGrow`).

**PackedRecords.** The callbacks only ever take on regions of the two admitted
frames, whose condition did not hold in the parse (`RegionAtIs`, `RegionTaken`);
the proof at the end adds that every pack line belongs to one of them
(`PackProved`). The rest is about any build of such a text (`BuildWalk`), and the
parse is one of them: outside the regions nothing is packed (`OutsideFlat`, over
the lines), inside one the packing is 1 where the opener is compiled
(`RegionIsRun`), so two builds agree wherever both compile the record
(`SameLayout`). The guards shift the lines of the output; `BeforeIs` keeps the
places, and a build no guard stops walks the text like any other
(`BuiltWalks`). An unmatched conditional elsewhere in the text is no exception.

**DynamicAdmission.** When the kernel is admitted, every value was registered
after the value it is made from and in the same function (`ValuesRegistered`),
and every operation names such a value (`CallsAdmitted`). A declaration executed
in source order therefore reads only masks formed in its own activation.

**BlockReduction.** First, pure lemmas: if the lowest 2h lanes of a warp together
hold the bag of their operands, then after one level of either loop the lowest h
do (`LevelCovers`), so after all levels lane 0 does (`TreeCovers`); this is where
powers of two are needed. Then `Abreast`: all warps of a block are between the
same two barriers of the same call. Hence the slot a warp reads was written in
this call and is not overwritten before everyone has read it, although a warp
may be a whole segment ahead (`SlotReady`), also when the next call has another
type or tile size.

**RowwiseRoute.** `Untouched` until a kernel is chosen. `Answered` relates each
launch to what was returned for it and to the error word; the original body is
entered by declined calls only, so its launch is the first. For an admitted call the
spans checked by the selector keep what a row writes apart from what any other
row reads or writes (`RowsApart`); `DirtyOwned` says that what is overwritten
belongs to a row that is done.

**AclcubCalls.** `Total` is the reduction of the operands of a set of threads in
one call, whatever the order; the total of two disjoint sets is the reducer
applied to theirs (`TotalJoin`). So the fold of a warp, serial or padded with
identities, is the total of its threads (`WarpTotal`, `FoldWarpTotal`), and
one round of the shuffle or one level of the tree joins two residue classes into
a class of half the stride (`ClassSplit`, `ButterflyTotal`, `TreeLevel`). The
invariant `CubInv` then speaks of the storage: all warps have passed the
same barriers, one per tagged call and one per stride of the tree (`Abreast`); a
warp has published the total of this call and, when buffers alternate, the
other buffer still holds the call before (`Publishes`), which is what a warp a
whole call behind reads; the tree's scratch holds the total of the class of each
thread below the stride (`Grows`). Without a barrier of the caller the
single-buffered overloads break `Publishes`, and the generic tree breaks `Grows`.

**WarpGroups.** What the stack needs is only that the members of a group name
the same group (`GroupsAgree`): a collective is refused unless all of them are at
the instruction, so each lane's own computation is about the same set of lanes.
The rest are lemmas about what one collective computes. The members of a mask
and their ranks correspond one to one (`RankOrder`, `MemberIs`), hence the lanes
with equal keys that `labeled_partition` collects rank by rank are exactly
those, and first lanes number the new groups (`LabelMakes`). After k
passes of `reduce_int` a lane whose rank is a multiple of 2^k holds what the
next 2^k ranks reduce to, ranks past the end counting as none (`PassHolds`): the
ragged tail is the case where the upper half is empty. The tile halves offsets
instead, so its lanes hold residue classes (`TileHolds`). Wrapping at each
addition or once at the end is the same (`WrapSum`).

Only model-checked:

* liveness (`ReductionsReturn`): fairness and `ENABLED` are outside the
  prover's reach;
* `AdmissionSound`, `ReductionsInStep`: kernels are trees walked by `RECURSIVE`
  operators, which the provers do not accept;
* `RowsExact`: it compares the numeric folds of the row kernels with reference
  definitions over bounded data. `BlockReduction`, `AclcubCalls` and `WarpGroups`
  show how such a fold can be proved; these are nine kernels, with divisions
  and fixed-point exponentials.

## 5. Not modelled, and why

* The recognition inside the row-wise recipe and the lowerings without a module
  (scalar64, vec3 ABI, NTTP calls, host pointer swaps, ...): functions of a C++
  AST to a plan or a refusal. `SourceAction` models what becomes of their
  answers, in order; the routes the recipe emits are `RowwiseRoute`'s.
* The AST match handlers of `AscifyAction`, beyond the order and the conflicts
  of what they record.
* API maps, options, statistics, build and test tooling: tables, formatted
  reports, no state.
* Sampling, half and binary64 arithmetic, SIMD kernels: numeric code.
* The compiler and linker invocations of the standalone device target.

`PROJECT.json` lists every component with its status and reason.

## 6. Plan

1. Proofs: `RowsExact` from the folds of `AclcubCalls`, for rows without the
   fixed-point exponential first.
2. The AST match handlers (`AscifyAction.cpp` 7239-9930) as a refinement of
   `SemanticRewrite`.
3. Pure checks with small widths: software binary64 addition, vector ABI
   layouts, against reference definitions.
