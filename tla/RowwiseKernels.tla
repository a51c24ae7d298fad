--------------------------- MODULE RowwiseKernels ---------------------------
(***************************************************************************)
(* The native SIMT row-wise kernels of include/ascify/target/dav_c310:     *)
(* RMSNorm and softmax over a rows x columns matrix of halves.  Launch     *)
(* validates the request, chooses one of nine kernels with its cache       *)
(* specialization, block width and grid; then the warps of all blocks run  *)
(* and interleave, grid-striding over the rows.  A warp kernel gives each  *)
(* row to one warp; a block kernel gives it to a block, whose warps keep   *)
(* the row in UB and meet in aclcub::BlockReduce.                          *)
(* Sizes (warp, vector, cache, thresholds) are constants, in the ratios of *)
(* the source.  Real arithmetic is exact: exp is a power of two in fixed   *)
(* point, a normalized element is the pair of its numerator and its sum.   *)
(***************************************************************************)
EXTENDS Aclcub

CONSTANTS
  kVectorElements,      \* halves of an int4 (8)
  kMaxThreadsPerBlock,  \* 1024
  kCacheColumns,        \* RMSNorm lane and UB cache (8192)
  kBlockRowMinColumns,  \* 4096
  kBlockRowMaxRows,     \* 256
  BlockRowWidths,       \* {128, 256, 512, 1024}
  kDefaultBlockRowThreads, kDefaultBlockRowAffineThreads,
  kTargetBlocksPerAiv,  \* 4
  VectorCores,          \* what VectorCoreCount() answers
  GridPerCore,          \* default grid cap per core (32)
  SmnCacheColumns,      \* softmax lane cache (4096); block caches are 2, 4, 8 times that
  SmnWarpBase, SmnWarpPerLoop,  \* 16 and 4: rows per core that make warps enough
  SmnWork,              \* 96: packet loops per core that make 1024 threads pay
  SmnFloorThreads, SmnRowsPerWarp,  \* 256 and 16: the automatic block width
  Spread,               \* largest difference of two elements
  Requests              \* the launches considered

ASSUME RowwiseAssumption ==
    /\ kVectorElements \in Nat \ {0}
    /\ kCacheColumns % (kWarpSize * kVectorElements) = 0
    /\ SmnCacheColumns % (kWarpSize * kVectorElements) = 0
    /\ \A n \in BlockRowWidths : n % kWarpSize = 0 /\ n \div kWarpSize <= kWarpSize
    /\ {kDefaultBlockRowThreads, kDefaultBlockRowAffineThreads} \subseteq BlockRowWidths

VARIABLES req,          \* the call of Launch
          plan,         \* what was launched, or the error
          y,            \* output memory: <<row, column>> -> Unstored or a stored element
          inverse_rms,  \* row -> Absent or the stored value
          cached,       \* UB row cache: block -> unit -> elements
          wk            \* block -> warp -> registers and program counter

kernelVars == <<req, plan, y, inverse_rms, cached, wk>>

Absent == -1
Unstored == [e |-> Absent, s |-> Absent, w |-> Absent]   \* an element not yet stored
Garbage == 99           \* an element read past a cache, or after it was overwritten

-----------------------------------------------------------------------------
(* Launch *)

CeilDiv(a, n) == (a + n - 1) \div n
Pow2UpTo(n) == {m \in 1 .. n : \E k \in 0 .. n : m = 2^k}
Least(S) == CHOOSE m \in S : \A n \in S : m <= n
Greatest(S) == CHOOSE m \in S : \A n \in S : n <= m

\* DispatchCachedVector, DispatchCachedScalar: the smallest power-of-two cache
\* whose warp-wide capacity holds the row, else the largest.
CacheSpec(columns, unit) ==
    LET all == Pow2UpTo(kCacheColumns \div (kWarpSize * unit))
        fit == {c \in all : columns <= c * kWarpSize * unit}
    IN  IF fit = {} THEN Greatest(all) ELSE Least(fit)

\* ChooseBlockThreads: double the warps of a block until the rows are covered.
ChooseBlockThreads(rows) ==
    LET need == 1 + (rows - 1) \div (VectorCores * kTargetBlocksPerAiv)
        ok   == {n \in Pow2UpTo(kMaxThreadsPerBlock \div kWarpSize) : n >= need}
    IN  kWarpSize * IF ok = {} THEN Greatest(Pow2UpTo(kMaxThreadsPerBlock \div kWarpSize)) ELSE Least(ok)

Unit(r) == IF r.aligned /\ r.columns % kVectorElements = 0 THEN kVectorElements ELSE 1

LegalRequest(r) ==
    /\ ~ r.null /\ r.rows > 0 /\ r.columns > 0
    /\ r.op = "rms" => r.epsilonOk
    /\ r.blk = 0 \/ (r.blk >= kWarpSize /\ r.blk <= kMaxThreadsPerBlock /\ r.blk % kWarpSize = 0)
    /\ r.cap >= 0

GridCap(r) == IF r.cap = 0 THEN VectorCores * GridPerCore ELSE r.cap
AtMost(n, m) == IF n > m THEN m ELSE n

ShouldUseBlockRow(r) ==
    /\ Unit(r) # 1 /\ r.rows <= kBlockRowMaxRows
    /\ r.columns >= kBlockRowMinColumns /\ r.columns <= kCacheColumns

\* rmsnorm_fp16::Launch
RmsPlan(r) ==
    LET blockThreads == IF r.blk # 0 THEN r.blk
                        ELSE IF r.weight THEN kDefaultBlockRowAffineThreads ELSE kDefaultBlockRowThreads
        threads == IF r.blk = 0 THEN ChooseBlockThreads(r.rows) ELSE r.blk
        grid    == AtMost(1 + (r.rows - 1) \div (threads \div kWarpSize), GridCap(r))
    IN  IF ShouldUseBlockRow(r) /\ (r.blk = 0 \/ r.blk \in BlockRowWidths)
        THEN [kind |-> "block", unit |-> Unit(r), pass |-> "rms", threads |-> blockThreads,
              grid |-> AtMost(r.rows, GridCap(r)),
              cache |-> (IF r.columns <= kBlockRowMinColumns THEN kBlockRowMinColumns ELSE kCacheColumns)
                        \div kVectorElements]
        ELSE [kind |-> "warp", unit |-> Unit(r), pass |-> "rms", threads |-> threads, grid |-> grid,
              cache |-> IF r.columns <= kCacheColumns THEN CacheSpec(r.columns, Unit(r)) ELSE 0]

PacketLoops(r) == CeilDiv(r.columns \div kVectorElements, kMaxThreadsPerBlock)

\* Few rows, or rows of at least three packet loops, go to a block each.
SmnBlockShape(r) ==
    /\ r.columns > SmnCacheColumns /\ r.columns <= 8 * SmnCacheColumns /\ Unit(r) # 1
    /\ \/ PacketLoops(r) >= 3
       \/ r.rows < VectorCores * (SmnWarpBase + SmnWarpPerLoop * Greatest({1, PacketLoops(r)}))

\* The automatic width: halve while the rows do not fill the blocks.
SmnThreads(r) ==
    LET start == IF r.columns <= SmnCacheColumns THEN kMaxThreadsPerBlock ELSE kMaxThreadsPerBlock \div 2
        stop  == {n \in {m \in Pow2UpTo(start) : m >= SmnFloorThreads} :
                    n = SmnFloorThreads \/ r.rows >= (n \div kWarpSize) * SmnRowsPerWarp}
    IN  IF r.blk > 0 THEN r.blk ELSE IF stop = {} THEN start ELSE Greatest(stop)

\* softmax_fp16::Launch
SmnPlan(r) ==
    LET size    == IF r.columns <= 2 * SmnCacheColumns THEN 2 * SmnCacheColumns
                   ELSE IF r.columns <= 4 * SmnCacheColumns THEN 4 * SmnCacheColumns ELSE 8 * SmnCacheColumns
        full    == size = 8 * SmnCacheColumns
                   /\ r.rows >= CeilDiv(VectorCores * SmnWork, PacketLoops(r))
        threads == SmnThreads(r)
    IN  IF SmnBlockShape(r)
        THEN [kind |-> "block", unit |-> Unit(r), pass |-> "softmax",
              threads |-> IF full THEN kMaxThreadsPerBlock ELSE kMaxThreadsPerBlock \div 2,
              grid |-> Greatest({1, AtMost(r.rows, GridCap(r))}), cache |-> size \div kVectorElements]
        ELSE [kind |-> "warp", unit |-> Unit(r), threads |-> threads,
              pass |-> IF r.columns <= SmnCacheColumns THEN "cached"
                       ELSE IF Unit(r) # 1 THEN "threepass" ELSE "online",
              grid |-> Greatest({1, AtMost(1 + (r.rows - 1) \div (threads \div kWarpSize), GridCap(r))}),
              cache |-> IF r.columns <= SmnCacheColumns THEN SmnCacheColumns \div (kWarpSize * Unit(r)) ELSE 0]

PlanFor(r) == IF ~ LegalRequest(r) THEN [kind |-> "error"]
              ELSE IF r.op = "rms" THEN RmsPlan(r) ELSE SmnPlan(r)

-----------------------------------------------------------------------------
(* Rows, units and elements *)

KWarps == plan.threads \div kWarpSize
GridWarps == 0 .. KWarps - 1
GridBlocks == 0 .. plan.grid - 1

X(r, c) == ((r + 1) * (c + req.seed)) % (Spread + 1)
Load(r, c) == IF req.inplace /\ y[<<r, c>>] # Unstored THEN Garbage ELSE X(r, c)
Units == req.columns \div plan.unit
UnitCols(j) == [k \in 1 .. plan.unit |-> j * plan.unit + k - 1]
LoadUnit(r, j) == [k \in 1 .. plan.unit |-> Load(r, UnitCols(j)[k])]

\* The units thread t visits with a stride, in order.
Visits(t, stride) == [i \in 1 .. (IF t < Units THEN 1 + (Units - 1 - t) \div stride ELSE 0) |-> t + (i - 1) * stride]

SumOf(s) == FoldLeft(LAMBDA a, v : a + v, 0, s)
MaxOf(m, s) == FoldLeft(LAMBDA a, v : IF v > a THEN v ELSE a, m, s)
Flat(us) == FoldLeft(LAMBDA a, u : a \o u, <<>>, us)

NegInf == -1000                                     \* -3.0e38f
Exp(d) == IF d < -Spread THEN 0 ELSE IF d > 0 THEN Garbage ELSE 2^(Spread + d)  \* smn_expf, h2exp and the refined forms
Rescale(s, d) == IF d > Spread THEN 0 ELSE s \div 2^d  \* s * smn_expf(-d)
Squares(s) == SumOf([i \in DOMAIN s |-> s[i] * s[i]])
Exps(s, m) == [i \in DOMAIN s |-> Exp(s[i] - m)]

\* Mutant: the running sum is not rescaled when the maximum grows.
OnlineUnscaled(s) ==
    FoldLeft(LAMBDA a, f : LET mn == IF f > a.m THEN f ELSE a.m
                           IN  [m |-> mn, s |-> a.s + Exp(f - mn)],
             [m |-> NegInf, s |-> 0], s)

\* The running maximum and rescaled sum of the online streaming pass.
Online(s) ==
    FoldLeft(LAMBDA a, f : LET mn == IF f > a.m THEN f ELSE a.m
                           IN  [m |-> mn, s |-> Rescale(a.s, mn - a.m) + Exp(f - mn)],
             [m |-> NegInf, s |-> 0], s)

Cut(us) == SubSeq(us, 1, AtMost(Len(us), plan.cache))     \* what fits the lane's cache
Cell(us, i) == IF i <= Len(us) THEN us[i] ELSE [k \in 1 .. plan.unit |-> Garbage]

FirstRow(b, w) == IF plan.kind = "block" THEN b ELSE b * KWarps + w
RowStride == IF plan.kind = "block" THEN plan.grid ELSE plan.grid * KWarps

Registers(b, w) == [row |-> FirstRow(b, w), at |-> "load", iter |-> 0, m |-> NegInf, s |-> 0,
                    buf |-> [l \in Lanes |-> <<>>]]
HasRow(b, w) == wk[b][w].row < req.rows
NextRow(r) == [r EXCEPT !.row = @ + RowStride, !.at = "load"]

\* Results.  NormalizePacked/NormalizeScalar keep the weight of the column.
Normalized(v, s, c) == [e |-> v, s |-> s, w |-> IF req.weight THEN c ELSE Absent]
StoreUnits(r, s, f) ==                          \* f: unit -> its elements
    y' = [p \in DOMAIN y |->
            IF p[1] = r /\ (p[2] \div plan.unit) \in DOMAIN f
            THEN Normalized(f[p[2] \div plan.unit][1 + (p[2] % plan.unit)], s, p[2]) ELSE y[p]]

-----------------------------------------------------------------------------
(* Warp-per-row kernels: one warp, lanes in lockstep.                      *)

LaneUnits(row, l) == LET v == Visits(l, kWarpSize) IN [i \in DOMAIN v |-> LoadUnit(row, v[i])]

\* First pass of RMSNorm: accumulate, cache, reduce; lane 0 stores the inverse.
RmsLoad(b, w) ==
    /\ plan.kind = "warp" /\ plan.pass = "rms"
    /\ wk[b][w].at = "load" /\ HasRow(b, w)
    /\ LET row == wk[b][w].row
           us  == [l \in Lanes |-> LaneUnits(row, l)]
           s   == WarpReduce("Sum", [l \in Lanes |-> Squares(Flat(us[l]))])
       IN  /\ wk' = [wk EXCEPT ![b][w].s = s, ![b][w].at = "store",
                               ![b][w].buf = [l \in Lanes |-> Cut(us[l])]]
           /\ inverse_rms' = [inverse_rms EXCEPT ![row] = s]
    /\ UNCHANGED <<req, plan, y, cached, redVars>>

\* First pass of softmax: the maximum (and, streaming online, the running sum).
SmnLoad(b, w) ==
    /\ plan.kind = "warp" /\ plan.pass # "rms"
    /\ wk[b][w].at = "load" /\ HasRow(b, w)
    /\ LET us  == [l \in Lanes |-> LaneUnits(wk[b][w].row, l)]
           on  == [l \in Lanes |-> Online(Flat(us[l]))]
           m   == WarpReduce("Max", [l \in Lanes |-> MaxOf(NegInf, Flat(us[l]))])
           s   == WarpReduce("Sum", [l \in Lanes |-> Rescale(on[l].s, m - on[l].m)])
       IN  wk' = [wk EXCEPT ![b][w].m = m,
                            ![b][w].s = IF plan.pass = "online" THEN s ELSE 0,
                            ![b][w].at = IF plan.pass = "online" THEN "store" ELSE "exp",
                            ![b][w].buf = [l \in Lanes |-> Cut(us[l])]]
    /\ UNCHANGED <<req, plan, y, inverse_rms, cached, redVars>>

\* Second pass: exponentials in the cache, or recomputed from memory.
SmnExp(b, w) ==
    /\ plan.kind = "warp" /\ wk[b][w].at = "exp"
    /\ LET r   == wk[b][w]
           us  == [l \in Lanes |-> LET n == LaneUnits(r.row, l)
                                   IN  IF plan.pass = "cached" THEN [i \in DOMAIN n |-> Cell(r.buf[l], i)] ELSE n]
           es  == [l \in Lanes |-> [i \in DOMAIN us[l] |-> Exps(us[l][i], r.m)]]
       IN  wk' = [wk EXCEPT ![b][w].s = WarpReduce("Sum", [l \in Lanes |-> SumOf(Flat(es[l]))]),
                            ![b][w].at = "store", ![b][w].buf = [l \in Lanes |-> Cut(es[l])]]
    /\ UNCHANGED <<req, plan, y, inverse_rms, cached, redVars>>

\* Last pass: each lane stores its units and the warp moves on by the stride.
WarpStore(b, w) ==
    /\ plan.kind = "warp" /\ wk[b][w].at = "store"
    /\ LET r == wk[b][w]
           Elements(j) ==
               IF plan.cache > 0 THEN Cell(r.buf[j % kWarpSize], 1 + (j \div kWarpSize))
               ELSE IF plan.pass = "rms" THEN LoadUnit(r.row, j) ELSE Exps(LoadUnit(r.row, j), r.m)
       IN  /\ StoreUnits(r.row, r.s, [j \in 0 .. Units - 1 |-> Elements(j)])
           /\ wk' = [wk EXCEPT ![b][w] = NextRow(r)]
    /\ UNCHANGED <<req, plan, inverse_rms, cached, redVars>>

-----------------------------------------------------------------------------
(* Block-per-row kernels: the row lives in UB, reductions go through       *)
(* aclcub::BlockReduce::AllReduce(value, op, iteration++).                 *)

Native(f) == [declared |-> "none", valueMatches |-> FALSE, ownerMatches |-> FALSE,
              base |-> f, ascType |-> TRUE, sem |-> f]
Reduce(b, w, f, in) ==
    Begin(b, w, [fn |-> "AllReduceDB", op |-> Native(f), warps |-> KWarps, iter |-> wk[b][w].iter], in)

ThreadUnits(w, l) == Visits(w * kWarpSize + l, plan.threads)
OwnUnits(w) == UNION {{ThreadUnits(w, l)[i] : i \in DOMAIN ThreadUnits(w, l)} : l \in Lanes}
CacheCell(b, j) == IF j < plan.cache THEN cached[b][j] ELSE [k \in 1 .. plan.unit |-> Garbage]

\* Read the row once into UB and reduce squares (RMSNorm) or the maximum.
BlockLoad(b, w) ==
    /\ plan.kind = "block" /\ wk[b][w].at = "load" /\ HasRow(b, w)
    /\ LET row == wk[b][w].row
           flat == [l \in Lanes |-> Flat([i \in DOMAIN ThreadUnits(w, l) |-> LoadUnit(row, ThreadUnits(w, l)[i])])]
       IN  /\ cached' = [cached EXCEPT ![b] =
                 [j \in DOMAIN @ |-> IF j \in OwnUnits(w) THEN LoadUnit(row, j) ELSE @[j]]]
           /\ IF plan.pass = "rms"
              THEN Reduce(b, w, "Sum", [l \in Lanes |-> Squares(flat[l])])
              ELSE Reduce(b, w, "Max", [l \in Lanes |-> MaxOf(NegInf, flat[l])])
    /\ wk' = [wk EXCEPT ![b][w].at = IF plan.pass = "rms" THEN "sum" ELSE "max", ![b][w].iter = @ + 1]
    /\ UNCHANGED <<req, plan, y, inverse_rms>>

\* The reduction returned: thread 0 stores the inverse of an RMSNorm row.
BlockReduced(b, w) ==
    /\ plan.kind = "block" /\ red[b][w].at = "done"
    /\ LET v == red[b][w].out[0]
       IN  /\ wk' = [wk EXCEPT ![b][w] =
                       IF @.at = "max" THEN [@ EXCEPT !.m = v, !.at = "exp"]
                       ELSE [@ EXCEPT !.s = v, !.at = "store"]]
           /\ inverse_rms' = IF plan.pass = "rms" /\ w = 0
                             THEN [inverse_rms EXCEPT ![wk[b][w].row] = v] ELSE inverse_rms
    /\ red' = [red EXCEPT ![b][w] = Idle]
    /\ UNCHANGED <<req, plan, y, cached, warp_aggregates, generic_buf>>

\* Exponentials replace the row in UB; their sum is reduced.
BlockExp(b, w) ==
    /\ plan.kind = "block" /\ wk[b][w].at = "exp"
    /\ LET e == [j \in OwnUnits(w) |-> Exps(CacheCell(b, j), wk[b][w].m)]
       IN  /\ cached' = [cached EXCEPT ![b] =
                 [j \in DOMAIN @ |-> IF j \in OwnUnits(w) THEN e[j] ELSE @[j]]]
           /\ Reduce(b, w, "Sum", [l \in Lanes |->
                 SumOf(Flat([i \in DOMAIN ThreadUnits(w, l) |-> e[ThreadUnits(w, l)[i]]]))])
    /\ wk' = [wk EXCEPT ![b][w].at = "sum", ![b][w].iter = @ + 1]
    /\ UNCHANGED <<req, plan, y, inverse_rms>>

BlockStore(b, w) ==
    /\ plan.kind = "block" /\ wk[b][w].at = "store"
    /\ StoreUnits(wk[b][w].row, wk[b][w].s, [j \in OwnUnits(w) |-> CacheCell(b, j)])
    /\ wk' = [wk EXCEPT ![b][w] = NextRow(@)]
    /\ UNCHANGED <<req, plan, inverse_rms, cached, redVars>>

-----------------------------------------------------------------------------
Finished == IF plan.kind = "error" THEN TRUE
            ELSE \A b \in GridBlocks, w \in GridWarps : ~ HasRow(b, w)

\* A launch is asynchronous: Init is the state right after Launch returned.
KernelInit ==
    /\ req \in Requests
    /\ plan = PlanFor(req)
    /\ y = [p \in (0 .. req.rows - 1) \X (0 .. req.columns - 1) |-> Unstored]
    /\ inverse_rms = [r \in 0 .. req.rows - 1 |-> Absent]
    /\ cached = [b \in Blocks |-> IF plan.kind = "block" THEN [j \in 0 .. plan.cache - 1 |-> <<>>] ELSE <<>>]
    /\ wk = [b \in Blocks |-> [w \in Lanes |->
               IF plan.kind # "error" /\ b \in GridBlocks /\ w \in GridWarps THEN Registers(b, w) ELSE [at |-> "absent"]]]
    /\ RedInit(Lanes)

WarpStep(b, w) == RmsLoad(b, w) \/ SmnLoad(b, w) \/ SmnExp(b, w) \/ WarpStore(b, w)
BlockStep(b, w) == BlockLoad(b, w) \/ BlockReduced(b, w) \/ BlockExp(b, w) \/ BlockStore(b, w)

KernelNext ==
    \/ /\ plan.kind # "error"
       /\ \E b \in GridBlocks : \/ \E w \in GridWarps : WarpStep(b, w) \/ BlockStep(b, w)
                                \/ RedStep(b, GridWarps) /\ UNCHANGED kernelVars
    \/ Finished /\ UNCHANGED <<redVars, kernelVars>>

-----------------------------------------------------------------------------
Row(r) == [c \in 1 .. req.columns |-> X(r, c - 1)]

(* When a launched kernel has finished, every element of every row is the  *)
(* normalization of that element by the reduction of its whole row, with   *)
(* the weight of its column, and every inverse is that of its row: no      *)
(* element is skipped, taken from a stale cache, or divided by a partial   *)
(* or another row's sum, also in place; a rejected launch writes nothing   *)
(* (rmsnorm_fp16_impl.hpp, softmax_fp16_impl.hpp).                         *)
RowsExact ==
    Finished =>
      IF plan.kind = "error"
      THEN (\A p \in DOMAIN y : y[p] = Unstored) /\ \A r \in DOMAIN inverse_rms : inverse_rms[r] = Absent
      ELSE \A r \in 0 .. req.rows - 1 :
             LET m  == MaxOf(NegInf, Row(r))
                 se == SumOf(Exps(Row(r), m))
             IN  IF req.op = "rms"
                 THEN /\ inverse_rms[r] = Squares(Row(r))
                      /\ \A c \in 0 .. req.columns - 1 :
                           y[<<r, c>>] = Normalized(X(r, c), Squares(Row(r)), c)
                 ELSE \A c \in 0 .. req.columns - 1 :
                        /\ y[<<r, c>>] # Unstored
                        /\ y[<<r, c>>].e * se = Exp(X(r, c) - m) * y[<<r, c>>].s
=============================================================================
