--------------------------- MODULE BlockReduction ---------------------------
(***************************************************************************)
(* The scratch-backed block reduction of the generated-code runtime        *)
(* (include/ascify/uniform_block_reduction_compat.hpp): the warps of one   *)
(* block call reduce one call after the other on tiles of whole warps,     *)
(* through per-warp and per-tile slots of one shared scratch object and    *)
(* three block barriers.  Between two barriers warps run in any order.     *)
(*                                                                         *)
(* A value is the bag of the operands combined into it, so that a lane     *)
(* counted twice, a lane left out, an operand of an earlier call and a     *)
(* synthetic +0 are all told apart.  WarpSize stands for the 32 lanes of   *)
(* the device.                                                             *)
(***************************************************************************)
EXTENDS Integers, FiniteSets, SequencesExt, Bags

CONSTANTS
    WarpSize,      \* lanes of a warp, a power of two (32 on the device)
    BlockWarps,    \* BlockSize / 32
    Calls          \* the reduce calls of the kernel: records [type, wpt]

Types == {"int", "float", "double"}

\* A set of powers of two: its members halve within it down to 1.
PowersOfTwo(Q) == \A n \in Q : n = 1 \/ (n % 2 = 0 /\ n \div 2 \in Q)

\* The static_asserts: tiles of 1 to 16 warps of 32 lanes, a power of two each, that
\* exactly partition the block.
ASSUME ReductionShape ==
    /\ WarpSize \in Nat \ {0} /\ BlockWarps \in Nat \ {0}
    /\ Calls \in Seq([type : Types, wpt : 1..WarpSize])
    /\ \A c \in 1..Len(Calls) : BlockWarps % Calls[c].wpt = 0
    /\ \E Q \in SUBSET (1..WarpSize) :
          PowersOfTwo(Q) /\ WarpSize \in Q /\ \A c \in 1..Len(Calls) : Calls[c].wpt \in Q

VARIABLES
    blockSize,     \* blockDim of the launch
    full,          \* per warp: asc_activemask() is the full mask
    rpc,           \* per warp: where it is inside reduce
    call,          \* per warp: index of the reduce call it executes
    value,         \* per warp and lane: the register of the reduction
    warpSlot,      \* warp_i / warp_f / warp_d: per type and warp
    resultSlot,    \* result_i / result_f / result_d: per type and tile
    results,       \* per warp: what its calls returned
    trapped        \* reject_device_contract() ended the kernel

reduceVars == <<blockSize, full, rpc, call, value, warpSlot, resultSlot,
                results, trapped>>

Warps == 0..(BlockWarps - 1)
Lanes == 0..(WarpSize - 1)

Contribution(w, l, c) == SetToBag({<<w, l, c>>})
Zero == SetToBag({<<-1, -1, 0>>})        \* the synthetic T(0)
Uninitialised == SetToBag({<<-1, -1, -1>>})  \* an uninitialised register or slot

(***************************************************************************)
(* Register exchange: lane l receives the register of lane l + offset, its *)
(* own when that lane is outside the warp.                                 *)
(***************************************************************************)
uniform_reduction_shuffle_down(v, offset) ==
    [l \in Lanes |-> IF l + offset \in Lanes THEN v[l + offset] ELSE v[l]]

(***************************************************************************)
(* The two loops "for (offset = first; offset != 0; offset >>= 1)".  The   *)
(* first combines at every level each lane with the one offset above it,   *)
(* the second only the lanes below the offset (always: the lanes that      *)
(* combine at every level).                                                *)
(***************************************************************************)
Level(reg, offset, always) ==
    LET source == uniform_reduction_shuffle_down(reg, offset)
    IN [l \in Lanes |-> IF l \in always \/ l < offset THEN reg[l] (+) source[l] ELSE reg[l]]

Offset(first) ==
    LET offset[k \in 0..WarpSize] == IF k = 0 THEN first ELSE offset[k - 1] \div 2
    IN offset

Loop(v, first, always) ==
    LET reg[k \in 0..WarpSize] ==
            IF k = 0 THEN v
            ELSE IF Offset(first)[k - 1] = 0 THEN reg[k - 1]
            ELSE Level(reg[k - 1], Offset(first)[k - 1], always)
    IN reg

Tree(v, first, always) == Loop(v, first, always)[WarpSize]

\* First tree: the lanes of one warp.
WarpTree(v) == Tree(v, WarpSize \div 2, Lanes)

\* Slip: the halving starts at the number of partials, one level too high.
MutPartialTree(v, wpt) == Tree(v, wpt, {})

\* Second tree: the partials of a tile.
PartialTree(v, wpt) == Tree(v, wpt \div 2, {})

ReduceInit ==
    /\ blockSize \in {BlockWarps * WarpSize, (BlockWarps - 1) * WarpSize}
    /\ full \in {[w \in Warps |-> TRUE]} \cup
                {[w \in Warps |-> w # k] : k \in Warps}
    /\ rpc = [w \in Warps |-> "enter"]
    /\ call = [w \in Warps |-> 1]
    /\ value = [w \in Warps |-> [l \in Lanes |-> Uninitialised]]
    /\ warpSlot = [t \in Types |-> [w \in Warps |-> Uninitialised]]
    /\ resultSlot = [t \in Types |-> [w \in Warps |-> Uninitialised]]
    /\ results = [w \in Warps |-> <<>>]
    /\ trapped = FALSE

\* The call a warp executes: its type, its tile and where in the tile it is.
Type(w) == Calls[call[w]].type
WarpsPerTile(w) == Calls[call[w]].wpt
Tile(w) == w \div WarpsPerTile(w)
LeadsTile(w) == w % WarpsPerTile(w) = 0

(***************************************************************************)
(* reduce up to the first barrier: contract check, warp tree, warp slot.   *)
(* The operand of lane l of warp w in call c is named by <<w, l, c>>.      *)
(***************************************************************************)
EnterReduce(w) ==
    /\ ~trapped /\ rpc[w] = "enter" /\ call[w] <= Len(Calls)
    /\ IF blockSize # BlockWarps * WarpSize \/ ~full[w]
       THEN trapped' = TRUE /\ UNCHANGED <<rpc, value, warpSlot>>
       ELSE LET reg == WarpTree([l \in Lanes |-> Contribution(w, l, call[w])])
            IN /\ value' = [value EXCEPT ![w] = reg]
               /\ warpSlot' = [warpSlot EXCEPT ![Type(w)][w] = reg[0]]
               /\ rpc' = [rpc EXCEPT ![w] = "barrier1"]
               /\ UNCHANGED trapped
    /\ UNCHANGED <<blockSize, full, call, resultSlot, results>>

\* Between the first two barriers: the first warp of a tile folds its partials.
FoldPartials(w) ==
    /\ ~trapped /\ rpc[w] = "fold"
    /\ rpc' = [rpc EXCEPT ![w] = "barrier2"]
    /\ IF LeadsTile(w)
       THEN LET loaded == [l \in Lanes |->
                    IF l < WarpsPerTile(w)
                    THEN warpSlot[Type(w)][Tile(w) * WarpsPerTile(w) + l] ELSE Zero]
                reg == PartialTree(loaded, WarpsPerTile(w))
            IN /\ value' = [value EXCEPT ![w] = reg]
               /\ resultSlot' = [resultSlot EXCEPT ![Type(w)][Tile(w)] = reg[0]]
       ELSE UNCHANGED <<value, resultSlot>>
    /\ UNCHANGED <<blockSize, full, call, warpSlot, results, trapped>>

\* After the second barrier: every warp reads the result of its tile.
ReadResult(w) ==
    /\ ~trapped /\ rpc[w] = "read"
    /\ results' = [results EXCEPT ![w] = Append(@, resultSlot[Type(w)][Tile(w)])]
    /\ rpc' = [rpc EXCEPT ![w] = "barrier3"]
    /\ UNCHANGED <<blockSize, full, call, value, warpSlot, resultSlot, trapped>>

(***************************************************************************)
(* thread_block::sync(), the work-item barrier of the device (external):   *)
(* it releases the block once every warp waits in it.  The third barrier   *)
(* ends the call.                                                          *)
(***************************************************************************)
\* Slip: the second barrier leads back to the fold.
MutAfterBarrier == [barrier1 |-> "fold", barrier2 |-> "fold", barrier3 |-> "enter"]
AfterBarrier == [barrier1 |-> "fold", barrier2 |-> "read", barrier3 |-> "enter"]

BlockBarrier ==
    /\ ~trapped /\ \A w \in Warps : rpc[w] \in DOMAIN AfterBarrier
    /\ rpc' = [w \in Warps |-> AfterBarrier[rpc[w]]]
    /\ call' = [w \in Warps |-> IF rpc[w] = "barrier3" THEN call[w] + 1 ELSE call[w]]
    /\ UNCHANGED <<blockSize, full, value, warpSlot, resultSlot, results, trapped>>

ReduceEnded ==
    trapped \/ \A w \in Warps : rpc[w] = "enter" /\ call[w] = Len(Calls) + 1

ReduceNext ==
    \/ \E w \in Warps : EnterReduce(w) \/ FoldPartials(w) \/ ReadResult(w)
    \/ BlockBarrier

ReduceSpec == ReduceInit /\ [][ReduceNext]_reduceVars

\* Every warp scheduled on the device runs, and a complete barrier releases.
ReduceFairness ==
    /\ \A w \in Warps : WF_reduceVars(EnterReduce(w) \/ FoldPartials(w) \/ ReadResult(w))
    /\ WF_reduceVars(BlockBarrier)

-----------------------------------------------------------------------------
(***************************************************************************)
(* What a call of a tile must return: the operand of every lane of every   *)
(* warp of the tile, once, of this call, and no synthetic zero (adding +0  *)
(* changes a sum of negative zeros).                                       *)
(***************************************************************************)
TileOperands(w, c) ==
    LET wpt == Calls[c].wpt
        tile == {v \in Warps : v \div wpt = w \div wpt}
    IN SetToBag({<<v, l, c>> : v \in tile, l \in Lanes})

(***************************************************************************)
(* reduce of the scratch tile: however the warps interleave between the    *)
(* barriers and reuse the slots call after call, the value each warp gets  *)
(* from its n-th call is the sum of exactly its tile's operands of call n; *)
(* and no warp gets a value when the block has the wrong size or ANY warp  *)
(* of it has inactive lanes, although each warp checks only its own mask.  *)
(***************************************************************************)
ReduceExact ==
    \A w \in Warps :
        /\ \A c \in 1..Len(results[w]) : results[w][c] = TileOperands(w, c)
        /\ results[w] # <<>> =>
              blockSize = BlockWarps * WarpSize /\ \A v \in Warps : full[v]
=============================================================================
