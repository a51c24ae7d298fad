--------------------------- MODULE DeviceQueries ---------------------------
(***************************************************************************)
(* What translated programs ask about the device and how a launch should   *)
(* be shaped (include/ascify/ascify_cuda_compat.hpp): the occupancy        *)
(* estimates, kernel attributes, device properties and the samples' choice *)
(* of a device.  Each operator takes what aclrtGetDeviceInfo answers: a    *)
(* record of attribute values and the set of attributes whose read fails.  *)
(*                                                                         *)
(* An answer is a status and the value stored through the caller's         *)
(* pointers, <<>> when the call leaves them alone.  IntMax stands for      *)
(* INT_MAX.  The caller's pointers are never null here.                    *)
(***************************************************************************)
EXTENDS Integers, Sequences, FiniteSetsExt

CONSTANTS IntMax,
          MaxSteps    \* candidates the search for a block size looks at (1024)

ASSUME IntMaxAssumption == IntMax \in Nat \ {0} /\ MaxSteps \in Nat

Failed(status) == [status |-> status, out |-> <<>>]
Answer(value) == [status |-> "ok", out |-> <<value>>]

Attributes == {"warp", "perCore", "ub", "perBlock", "cores", "perGrid"}
Positive(dev, names) == \A a \in names : dev[a] > 0 /\ dev[a] <= IntMax

\* The dynamic UB of one block of n threads under the caller's model.
UbOf(model, n) == Max({0, model.base + model.slope * n})

\* The first attribute in the order of the reads whose read fails ends the call.
Reads(failing, names) == failing \cap names = {}

(***************************************************************************)
(* Occupancy.                                                              *)
(***************************************************************************)

\* The caller gives any positive block size; a quotient below zero is clamped.
MaxActiveBlocks(blockSize, ub, dev, failing) ==
  LET threads == dev.perCore \div blockSize
      buffers == IF dev.ub > 0 THEN dev.ub \div ub ELSE 0
  IN IF blockSize <= 0 THEN Failed("invalid")
     ELSE IF ~Reads(failing, {"perCore"} \cup IF ub # 0 THEN {"ub"} ELSE {}) THEN Failed("runtime")
     ELSE Answer(Min({IntMax, Max({0, IF ub # 0 THEN Min({threads, buffers}) ELSE threads})}))

\* With the converter's proof that the kernel never has more than bound threads.
MaxActiveBlocksMaxThreads(blockSize, ub, bound, dev, failing) ==
  LET threads == dev.perCore \div blockSize
  IN IF blockSize <= 0 THEN Failed("invalid")
     ELSE IF blockSize > bound THEN Failed("unsupported")
     ELSE IF ~Reads(failing, {"perBlock", "perCore"}) THEN Failed("runtime")
     ELSE IF ~Positive(dev, {"perBlock", "perCore"}) \/ blockSize > dev.perBlock
               \/ blockSize > dev.perCore THEN Failed("unsupported")
     ELSE IF ub = 0 THEN Answer(threads)
     ELSE IF ~Reads(failing, {"ub"}) THEN Failed("runtime")
     ELSE IF dev.ub <= 0 THEN Failed("unsupported")
     ELSE Answer(Min({threads, dev.ub \div ub}))

\* The downward search for a block size, one warp at a time, k steps before it gives up.
MutSearch(dev, model, from) ==
  LET search[k \in 0 .. MaxSteps] ==
        LET n == from - (MaxSteps - k) * dev.warp
        IN  IF k = 0 \/ n < dev.warp THEN 0
            ELSE IF UbOf(model, n) = 0 \/ (dev.ub > 0 /\ UbOf(model, n) < dev.ub) THEN n
            ELSE search[k - 1]
  IN search[MaxSteps]
Search(dev, model, from) ==
  LET search[k \in 0 .. MaxSteps] ==
        LET n == from - (MaxSteps - k) * dev.warp
        IN  IF k = 0 \/ n < dev.warp THEN 0
            ELSE IF UbOf(model, n) = 0 \/ (dev.ub > 0 /\ UbOf(model, n) <= dev.ub) THEN n
            ELSE search[k - 1]
  IN search[MaxSteps]

PotentialBlockSizeEstimate(limit, model, dev, failing) ==
  LET capped == Min({dev.perBlock, dev.perCore} \cup IF limit > 0 THEN {limit} ELSE {})
      block == Search(dev, model, (capped \div dev.warp) * dev.warp)
      waves == (dev.perCore + block - 1) \div block
  IN IF limit < 0 THEN Failed("invalid")
     ELSE IF ~Reads(failing, Attributes) THEN Failed("runtime")
     ELSE IF ~Positive(dev, Attributes \ {"ub"}) \/ dev.ub < 0 THEN Failed("unsupported")
     ELSE IF block = 0 THEN Failed("unsupported")
     ELSE Answer([block |-> block,
                  grid |-> Max({1, Min({dev.perGrid, waves * dev.cores})})])

\* The plain overload has no model: the dynamic UB does not depend on the block.
MaxPotentialBlockSize(limit, ub, dev, failing) ==
  PotentialBlockSizeEstimate(limit, [base |-> ub, slope |-> 0], dev, failing)

MaxPotentialBlockSizeMaxThreads(limit, model, bound, dev, failing) ==
  IF limit < 0 THEN Failed("invalid")
  ELSE PotentialBlockSizeEstimate(
         IF limit > 0 /\ limit < bound THEN limit ELSE bound, model, dev, failing)

\* Only the reviewed header family answers.
FuncGetAttributesMaxThreads(bound, beta, dev, failing) ==
  IF ~beta THEN Failed("unsupported")
  ELSE IF ~Reads(failing, {"perBlock"}) THEN Failed("runtime")
  ELSE IF ~Positive(dev, {"perBlock"}) THEN Failed("unsupported")
  ELSE Answer(Min({dev.perBlock, bound}))

(***************************************************************************)
(* Device properties: read into a local result, stored when it is whole.   *)
(***************************************************************************)
Properties == {"cores", "memory", "perBlock", "perGrid", "warp", "perCore"}

GetDeviceProperties(device, named, dev, failing) ==
  IF device < 0 THEN Failed("invalid")
  ELSE IF device # 0 THEN Failed("unsupported")
  ELSE IF ~Reads(failing, Properties) THEN Failed("runtime")
  ELSE IF ~Positive(dev, Properties \ {"memory"}) \/ dev.memory <= 0 \/ ~named
       THEN Failed("unsupported")
  ELSE Answer([a \in Properties |-> dev[a]])

(***************************************************************************)
(* sampleFindCudaDevice: the arguments are "other", "zero" (--device=0) or *)
(* "device" (any other spelling of the selector).  Every failure ends the  *)
(* process.                                                                *)
(***************************************************************************)
Selectors(args) == {i \in DOMAIN args : args[i] # "other"}

FindCudaDevice(args, counted, count, binds) ==
  IF \/ \E i \in Selectors(args) :
            args[i] # "zero" \/ \E j \in Selectors(args) : j < i
     \/ ~counted \/ count # 1 \/ ~binds
  THEN Failed("exit") ELSE Answer(0)

(***************************************************************************)
(* Reference definitions: what the answers mean, without the searches.     *)
(***************************************************************************)

\* The largest k for which k blocks fit the threads and the buffer of a core.
FitBlocks(blockSize, ub, dev) ==
  Max({0} \cup {k \in 0 .. IntMax : k * blockSize <= dev.perCore
                                      /\ (ub # 0 => k * ub <= dev.ub)})

\* The block sizes a launch may have: whole warps within every limit.
LaunchSizes(limit, model, dev) ==
  {n \in 1 .. IntMax : /\ n % dev.warp = 0 /\ n <= dev.perBlock /\ n <= dev.perCore
                       /\ limit > 0 => n <= limit
                       /\ UbOf(model, n) = 0 \/ UbOf(model, n) <= dev.ub}

\* The fewest blocks that occupy every thread of every core, within the grid limit.
FewestBlocks(block, dev) ==
  Min({dev.perGrid, dev.cores * Min({g \in 1 .. IntMax : g * block >= dev.perCore})})
=============================================================================
