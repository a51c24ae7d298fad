---------------------------- MODULE RowwiseRoute ----------------------------
(***************************************************************************)
(* A translated launch wrapper with the row-wise target prologue           *)
(* (directWrapperPrologue), the facade and recipes it calls                *)
(* (rowwise_simd_recipes.hpp, rowwise_norm_recipes.hpp), and the selectors *)
(* that admit a call to a mixed SIMD/SIMT kernel                           *)
(* (rowwise_simd_selectors_v1.hpp).  Pointers are addresses of a small     *)
(* machine, 0 the null pointer; spans are half-open byte ranges computed   *)
(* with the overflow checks of the source.  The SIMD kernel is external:   *)
(* it reads and writes whole rows, in any order.  So is a launch: it is    *)
(* accepted, or leaves its error in ACL's error word of the thread.        *)
(***************************************************************************)
EXTENDS Integers, Sequences, FiniteSets

CONSTANTS
  MaxAddress,           \* largest uintptr_t
  MaxExtent,            \* largest int64_t
  IntMax,               \* largest int
  HalfBytes, FloatBytes,
  VectorAlign,          \* 16: alignment of matrices and weights
  VectorColumns,        \* 8: columns % 8 (the row batch asks twice that)
  SoftmaxMin, SoftmaxMax, RmsCachedMax, RowBatchMax, LayerNormMax, SimtMax,
  WrapperCalls          \* the wrapper calls considered

ASSUME RouteAssumption ==
    {MaxAddress, MaxExtent, IntMax, HalfBytes, FloatBytes, VectorAlign, VectorColumns} \subseteq Nat \ {0}

\* Pointers are addresses, extents any integers.
ASSUME WrapperCallsAssumption ==
    \A c \in WrapperCalls :
        /\ {c.rows, c.columns} \subseteq Int
        /\ {c.input, c.output, c.inverse, c.mean, c.weight} \subseteq Nat

VARIABLES call,         \* arguments of the wrapper, and the errors its thread carries
          at,           \* "entry", "original", "returned"
          ran,          \* launches of this call, in order: the kernel and its result
          lastError,    \* ACL's error word of the calling thread
          status,       \* what the wrapper returned
          rowAt,        \* SIMD rows: "new", "read", "written"
          dirty         \* addresses written so far by the SIMD kernel

routeVars == <<call, at, ran, lastError, status, rowAt, dirty>>

-----------------------------------------------------------------------------
(* Spans *)

IsAligned(p, n) == p # 0 /\ p % n = 0

HasValidContiguousExtent(r, c) == r > 0 /\ c > 0 /\ r <= MaxExtent \div c

\* TryMakeByteSpan: the span, or the empty set when the arithmetic would wrap.
TryMakeByteSpan(p, count, bytes) ==
    IF p = 0 \/ count = 0 \/ count > MaxAddress \div bytes \/ count * bytes > MaxAddress - p
    THEN {} ELSE {[begin |-> p, end |-> p + count * bytes]}

TryMakeMatrixByteSpan(p, r, c, bytes) ==
    IF HasValidContiguousExtent(r, c) THEN TryMakeByteSpan(p, r * c, bytes) ELSE {}

\* Mutant: only the first byte of a span is compared.
SpansOverlapAtStart(a, b) == a.begin = b.begin

SpansOverlap(a, b) == a.begin < b.end /\ b.begin < a.end
SpansAreExact(a, b) == a.begin = b.begin /\ a.end = b.end
SpansAreDisjointOrExact(a, b) == ~ SpansOverlap(a, b) \/ SpansAreExact(a, b)

\* The pair of matrices of a call: {} when a span cannot be formed.
Matrices(c) ==
    {[input |-> i, output |-> o] : i \in TryMakeMatrixByteSpan(c.input, c.rows, c.columns, HalfBytes),
                                   o \in TryMakeMatrixByteSpan(c.output, c.rows, c.columns, HalfBytes)}
RowValues(p, c) == TryMakeByteSpan(p, c.rows, FloatBytes)

IsSoftmaxSimdDomain(c) ==
    /\ c.stream /\ c.columns >= SoftmaxMin /\ c.columns <= SoftmaxMax
    /\ \E m \in Matrices(c) : SpansAreDisjointOrExact(m.input, m.output)

\* HasCommonRmsNormSimdContract, and what the route asks of the two matrices:
\* disjoint, or with inPlace the same.
CommonRms(c, inPlace) ==
    /\ c.stream /\ c.columns > 0 /\ c.epsilon
    /\ IsAligned(c.input, VectorAlign) /\ IsAligned(c.output, VectorAlign)
    /\ IsAligned(c.inverse, FloatBytes)
    /\ c.weight # 0 => IsAligned(c.weight, VectorAlign)
    /\ \E m \in Matrices(c), v \in RowValues(c.inverse, c) :
         /\ ~ SpansOverlap(v, m.input) /\ ~ SpansOverlap(v, m.output)
         /\ c.weight # 0 => \E w \in TryMakeByteSpan(c.weight, c.columns, HalfBytes) :
              ~ SpansOverlap(w, m.input) /\ ~ SpansOverlap(w, m.output) /\ ~ SpansOverlap(w, v)
         /\ \/ ~ SpansOverlap(m.input, m.output)
            \/ inPlace /\ SpansAreExact(m.input, m.output)

IsRmsNormCachedSimdDomain(c) ==
    c.columns <= RmsCachedMax /\ c.columns % VectorColumns = 0 /\ CommonRms(c, FALSE)
IsRmsNormPlainRowBatchSimdDomain(c) ==
    /\ c.weight = 0 /\ c.columns <= RowBatchMax /\ c.columns % (2 * VectorColumns) = 0
    /\ CommonRms(c, TRUE)

SelectRmsNormRoute(c) ==
    IF IsRmsNormPlainRowBatchSimdDomain(c) THEN "plain_rowbatch"
    ELSE IF IsRmsNormCachedSimdDomain(c) THEN "cached" ELSE "simt"

IsLayerNormCachedHybridDomain(c) ==
    /\ c.stream /\ c.columns > 0 /\ c.columns <= LayerNormMax /\ c.columns % VectorColumns = 0 /\ c.epsilon
    /\ IsAligned(c.input, VectorAlign) /\ IsAligned(c.output, VectorAlign)
    /\ IsAligned(c.mean, FloatBytes) /\ IsAligned(c.inverse, FloatBytes)
    /\ \E m \in Matrices(c), u \in RowValues(c.mean, c), v \in RowValues(c.inverse, c) :
         /\ SpansAreDisjointOrExact(m.input, m.output) /\ ~ SpansOverlap(u, v)
         /\ ~ SpansOverlap(u, m.input) /\ ~ SpansOverlap(u, m.output)
         /\ ~ SpansOverlap(v, m.input) /\ ~ SpansOverlap(v, m.output)

-----------------------------------------------------------------------------
(* Adapters, recipes and the hybrid registry *)

\* LoadAccess / StoreAccess::kValid: marked by its own class, half storage,
\* float compute, a half pointer; an affine store also exposes its weight.
AdapterValid(a) ==
    /\ a.owned /\ a.storageHalf /\ a.computeFloat /\ a.dataHalf
    /\ a.affine => a.weightHalf

HasSupportedComputeContract(c) == c.computeFloat /\ c.load.computeFloat /\ c.store.computeFloat

\* What the if constexpr and stride tests of the adapter overloads admit.
AdaptersAdmit(c) ==
    /\ AdapterValid(c.load) /\ AdapterValid(c.store) /\ HasSupportedComputeContract(c)
    /\ c.op # "rms" => ~ c.store.affine
    /\ c.op # "softmax" => c.rowValuesFloat
    /\ c.load.stride = c.columns /\ c.store.stride = c.columns
    /\ c.op = "rms" /\ c.store.affine => c.weight # 0

Stage(e, k) == [engine |-> e, kind |-> k]
Recipe(op) ==
    LET simd(ks) == [i \in DOMAIN ks |-> Stage("simd", ks[i])]
        close    == <<Stage("simt", "OutputAdapt"), Stage("mte", "Store")>>
        open     == <<Stage("mte", "Load")>>
    IN  CASE op = "softmax" -> open \o simd(<<"ReduceMaximum", "Exponentiate", "ReduceSum", "Normalize">>) \o close
          [] op = "rms"     -> open \o simd(<<"Square", "ReduceSum", "Mean", "ReciprocalSqrt", "Normalize", "Affine">>) \o close
          [] OTHER          -> open \o simd(<<"Mean", "Square", "ReduceSum", "ReciprocalSqrt">>)
                               \o <<Stage("simt", "Normalize")>> \o close

\* One load, then SIMD, then SIMT ending in exactly one output adaptation, then
\* one store.
IsValidHybridRecipe(s) ==
    LET inner == SubSeq(s, 2, Len(s) - 1)
    IN  /\ Len(s) >= 4 /\ s[1] = Stage("mte", "Load") /\ s[Len(s)] = Stage("mte", "Store")
        /\ \E k \in 1 .. Len(inner) - 1 :
             /\ \A i \in 1 .. k : inner[i].engine = "simd"
             /\ \A i \in k + 1 .. Len(inner) : inner[i].engine = "simt"
             /\ {i \in k + 1 .. Len(inner) : inner[i].kind = "OutputAdapt"} = {Len(inner)}

\* TrySoftmaxHybrid, TryRmsNormHybrid, TryLayerNormHybrid on raw pointers.
HybridKernel(c) ==
    CASE c.op = "softmax" -> IF IsSoftmaxSimdDomain(c) THEN "softmax_reg_recompute" ELSE "simt"
      [] c.op = "rms"     -> SelectRmsNormRoute(c)
      [] OTHER            -> IF IsLayerNormCachedHybridDomain(c) THEN "layernorm_reg_cached" ELSE "simt"

\* TrySoftmax, TryRmsNorm: the native SIMT recipes have no LayerNorm.
NativeHandles(c) ==
    /\ c.op # "layernorm" /\ c.stream /\ c.input # 0 /\ c.output # 0
    /\ HasValidContiguousExtent(c.rows, c.columns) /\ c.columns <= SimtMax
    /\ c.op = "rms" => c.inverse # 0 /\ c.epsilon /\ c.rows <= IntMax

-----------------------------------------------------------------------------
(* The wrapper *)

\* The condition of the prologue: the shape the original kernel was proved for.
PrologueDomain(c) ==
    /\ c.rows > 0 /\ c.columns > 0 /\ c.columns % c.pack = 0
    /\ c.domain = "softmax_warp" =>
         /\ c.columns <= c.maxColumns
         /\ c.padding \/ c.columns = c.maxColumns
         /\ c.rows % c.rowsPerAccess = 0
    /\ c.domain = "norm_warp" =>
         /\ c.columns <= c.maxColumns
         /\ IF c.padding THEN c.columns > c.minColumns ELSE c.columns = c.maxColumns
    /\ c.shared # -1 => c.columns <= c.shared
    /\ c.op = "softmax" => c.algorithm = "softmax"

\* Mutant: an error of the target launch falls through to the original kernel.
TargetReturnsOnSuccess(s) == IF s = "ok" THEN "returned" ELSE "original"

\* if (result.handled) { return result.status; }
TargetReturns(s) == "returned"

\* The original body begins with a geometry block that may return an error of its
\* own.  Softmax is tried before the block, the norms after it.
Geometry ==
    /\ at = (IF call.op = "softmax" THEN "original" ELSE "entry") /\ call.geometryFails
    /\ at' = "returned" /\ status' = "geometry_error"
    /\ lastError' \in {lastError, "geometry_error"}
    /\ UNCHANGED <<call, ran, rowAt, dirty>>

Entered == at = "entry" /\ (call.op # "softmax" => ~ call.geometryFails)

\* NotHandled(): the prologue was not entered, or the recipe declined.
Declined(c) == \/ ~ PrologueDomain(c) \/ ~ AdaptersAdmit(c)
               \/ c.entry = "hybrid" /\ HybridKernel(c) = "simt"
               \/ c.entry = "native" /\ ~ NativeHandles(c)

Decline ==
    /\ Entered /\ Declined(call)
    /\ at' = "original"
    /\ UNCHANGED <<call, ran, lastError, status, rowAt, dirty>>

LaunchResults == {"ok", "launch_error"}

\* An accepted launch leaves the error word as it is.
Launch(kernel, s) ==
    /\ ran' = Append(ran, [kernel |-> kernel, launch |-> s])
    /\ lastError' = IF s = "ok" THEN lastError ELSE s

\* A target entry ends in aclrtPeekAtLastError: its status is the word, which a
\* peek does not clear.
TargetStatus == status' = lastError' /\ at' = TargetReturns(lastError')

HybridReady == /\ Entered /\ call.entry = "hybrid" /\ ~ Declined(call)
               /\ IsValidHybridRecipe(Recipe(call.op))

\* The rows start when the launch is accepted.
TryHybrid ==
    /\ HybridReady
    /\ \E s \in LaunchResults :
         /\ Launch(HybridKernel(call), s) /\ TargetStatus
         /\ rowAt' = IF s = "ok" THEN [r \in 0 .. call.rows - 1 |-> "new"] ELSE rowAt
    /\ UNCHANGED <<call, dirty>>

\* The softmax entry asks for the vector cores before it launches.
QueryFails ==
    /\ HybridReady /\ call.op = "softmax"
    /\ status' = "query_error" /\ at' = TargetReturns("query_error")
    /\ lastError' \in {lastError, "query_error"}
    /\ UNCHANGED <<call, ran, rowAt, dirty>>

TryNative ==
    /\ Entered /\ call.entry = "native" /\ ~ Declined(call)
    /\ \E s \in LaunchResults : Launch("native", s) /\ TargetStatus
    /\ UNCHANGED <<call, rowAt, dirty>>

\* The translated original launch and the cudaPeekAtLastError that follows it:
\* Ascify's pending lifecycle error first, then ACL's word.
Original ==
    /\ at = "original" /\ ~ call.geometryFails
    /\ \E s \in LaunchResults : Launch("original", s)
    /\ at' = "returned"
    /\ status' = IF call.lifecycle # "ok" THEN call.lifecycle ELSE lastError'
    /\ UNCHANGED <<call, rowAt, dirty>>

\* The external kernel: rows are fetched and written back in any order.
RowBytes(p, r) == p + r * call.columns * HalfBytes .. p + (r + 1) * call.columns * HalfBytes - 1
ValueBytes(p, r) == p + r * FloatBytes .. p + (r + 1) * FloatBytes - 1
Reads(r) == RowBytes(call.input, r)
            \cup IF call.op = "rms" /\ call.weight # 0
                 THEN call.weight .. call.weight + call.columns * HalfBytes - 1 ELSE {}
Writes(r) == RowBytes(call.output, r)
             \cup (IF call.op # "softmax" THEN ValueBytes(call.inverse, r) ELSE {})
             \cup (IF call.op = "layernorm" THEN ValueBytes(call.mean, r) ELSE {})

ReadRow(r) ==
    /\ rowAt[r] = "new"
    /\ rowAt' = [rowAt EXCEPT ![r] = "read"]
    /\ UNCHANGED <<call, at, ran, lastError, status, dirty>>
WriteRow(r) ==
    /\ rowAt[r] = "read"
    /\ rowAt' = [rowAt EXCEPT ![r] = "written"]
    /\ dirty' = dirty \cup Writes(r)
    /\ UNCHANGED <<call, at, ran, lastError, status>>

RouteInit ==
    /\ call \in WrapperCalls
    /\ at = "entry" /\ ran = <<>> /\ status = "none" /\ rowAt = <<>> /\ dirty = {}
    /\ lastError = call.earlier

RouteDone ==
    /\ at = "returned" /\ \A r \in DOMAIN rowAt : rowAt[r] = "written"
    /\ UNCHANGED routeVars

RouteNext ==
    \/ Geometry \/ Decline \/ TryHybrid \/ QueryFails \/ TryNative \/ Original
    \/ \E r \in DOMAIN rowAt : ReadRow(r) \/ WriteRow(r)
    \/ RouteDone

RouteSpec == RouteInit /\ [][RouteNext]_routeVars

-----------------------------------------------------------------------------
(* Whatever pointers, strides and overflowing extents a caller passes, the *)
(* rows of a call the selectors gave to the SIMD kernel may run in any     *)
(* order: no row, weight or row value is fetched from bytes another row    *)
(* has already written, and all writes stay inside the address space       *)
(* (IsSoftmaxSimdDomain, SelectRmsNormRoute, IsLayerNormCachedHybridDomain).*)
RowsOrderFree ==
    /\ dirty \subseteq 0 .. MaxAddress
    /\ \A r \in DOMAIN rowAt : rowAt[r] = "new" => Reads(r) \cap dirty = {}
    /\ \A r \in DOMAIN rowAt : rowAt[r] # "written" => Writes(r) \cap dirty = {}

(* A call has one owner, and its error is not lost on the way back: success *)
(* means that exactly one kernel was launched and accepted; a refused launch *)
(* is returned - behind a lifecycle error of the thread at most - and stays  *)
(* in the error word; without a launch an error is returned; and the         *)
(* original kernel runs for declined calls only, never after an error of the *)
(* target (directWrapperPrologue, TryResult, the launch entries).            *)
OneOwner ==
    /\ Len(ran) <= 1
    /\ at = "returned" =>
         /\ status = "ok" => \E i \in DOMAIN ran : ran[i].launch = "ok"
         /\ ran = <<>> => status \in {"geometry_error", "query_error"}
         /\ \A i \in DOMAIN ran :
              /\ ran[i].launch # "ok" => /\ status \in {ran[i].launch, call.lifecycle} \ {"ok"}
                                         /\ lastError = ran[i].launch
              /\ call.earlier = "ok" /\ call.lifecycle = "ok" => status = ran[i].launch
              /\ ran[i].kernel = "original" => Declined(call)
=============================================================================
