----------------------------- MODULE WarpGroups -----------------------------
(***************************************************************************)
(* Groups of lanes of one warp in the generated-code runtime:              *)
(*   dynamic_warp_groups_compat.hpp  coalesced groups, binary and labeled  *)
(*                                   partitions, exchange and reductions   *)
(*   cooperative_groups_compat.hpp   the full-warp tile                    *)
(*   masked_warp_compat.hpp          collectives with an explicit mask     *)
(*                                                                         *)
(* A warp executes its lanes together until a branch splits it: the lanes  *)
(* that take the branch run alone, then the lanes join again.  A frame of  *)
(* `stack` is such a branch, with the group variable that its lanes        *)
(* created in it.  A mask is the set of its lanes.                         *)
(***************************************************************************)
EXTENDS Integers, FiniteSets, SequencesExt, FiniteSetsExt

CONSTANTS
    Width,         \* lanes of the warp (32 on the device), a power of two
    IntBits,       \* width of the integer registers (32 on the device)
    Inputs,        \* operand vectors: functions from lanes to integers
    Branches,      \* sets of lanes a branch condition may hold on
    LaneLabels,    \* labels a lane may pass to labeled_partition
    MaxDepth       \* nesting of divergent branches

\* Powers of two.
TwoTo == LET p[k \in 0..(Width + IntBits)] == IF k = 0 THEN 1 ELSE 2 * p[k - 1] IN p

Warp == 0..(Width - 1)

\* The operands are values of the registers.
ASSUME GroupsAssumption ==
    /\ Width \in Nat /\ IntBits \in Nat \ {0}
    /\ \E k \in 1..Width : Width = TwoTo[k]
    /\ Inputs \subseteq [Warp -> -TwoTo[IntBits - 1] .. TwoTo[IntBits - 1] - 1]

VARIABLES
    stack,         \* frames [lanes, group]; group[l] a coalesced_group or NoGroup
    last,          \* the collective just executed: its operands and results
    wtrap          \* reject_device_contract() ended the kernel

groupVars == <<stack, last, wtrap>>

NoGroup == [mask |-> {}, meta_rank |-> 0, meta_size |-> 0]
Nothing == [op |-> "none"]

\* asc_activemask(): the lanes at this instruction.
active == stack[Len(stack)].lanes

\* ---- dynamic_detail ------------------------------------------------------
count(mask) == Cardinality(mask)
Below(mask, bit) == {x \in mask : x < bit}
HasMember(mask, rank) == rank \in 0..(count(mask) - 1)
member(mask, rank) == CHOOSE b \in mask : count(Below(mask, b)) = rank
members_active(mask, lane) == mask # {} /\ lane \in mask /\ mask \subseteq active
thread_rank(g, lane) == count(Below(g.mask, lane))

\* asc_ballot(predicate): the active lanes whose predicate holds.
ballot(predicate) == {l \in active : predicate[l]}

\* coalesced_group::shfl: the register of the source_rank-th member.
CanShfl(g, lane, rank) == members_active(g.mask, lane) /\ HasMember(g.mask, rank)
shfl(g, reg, rank) == reg[member(g.mask, rank)]

\* sum_int32: unsigned addition, its bits read back as two's complement.
Wrap(n) ==
    LET m == n % TwoTo[IntBits] IN IF m >= TwoTo[IntBits - 1] THEN m - TwoTo[IntBits] ELSE m
sum_int32(a, b) == Wrap(a + b)
greater(a, b) == IF a > b THEN a ELSE b
Operation(op, a, b) == IF op = "plus" THEN sum_int32(a, b) ELSE greater(a, b)

\* ---- the actions of the kernel --------------------------------------------
GroupInit ==
    /\ stack = <<[lanes |-> Warp, group |-> [l \in Warp |-> NoGroup]]>>
    /\ last = Nothing
    /\ wtrap = FALSE

\* Lanes taken by a branch run it alone; no group is declared in it yet.
Diverge(taken) ==
    /\ ~wtrap /\ last = Nothing /\ Len(stack) < MaxDepth
    /\ taken # {} /\ taken \subseteq active /\ taken # active
    /\ stack' = Append(stack, [lanes |-> taken, group |-> [l \in Warp |-> NoGroup]])
    /\ UNCHANGED <<last, wtrap>>

Reconverge ==
    /\ ~wtrap /\ last = Nothing /\ Len(stack) > 1
    /\ stack' = Front(stack)
    /\ UNCHANGED <<last, wtrap>>

\* The kernel goes on after a collective.
Continue ==
    /\ last # Nothing
    /\ last' = Nothing
    /\ UNCHANGED <<stack, wtrap>>

\* A collective of the active lanes: one lane that is not admitted ends the
\* kernel (reject_device_contract).
Collective(admitted, effect) ==
    /\ ~wtrap /\ last = Nothing
    /\ IF active \subseteq admitted
       THEN effect /\ UNCHANGED wtrap
       ELSE wtrap' = TRUE /\ UNCHANGED <<stack, last>>

\* Every active lane initialises the group of the innermost scope: made(l) out
\* of the lanes parent(l), by the key of each lane.
Declare(kind, parent(_), key, made(_)) ==
    /\ stack' = [stack EXCEPT ![Len(stack)].group =
                    [l \in Warp |-> IF l \in active THEN made(l) ELSE NoGroup]]
    /\ last' = [op |-> kind, at |-> active, key |-> key,
                group |-> [l \in active |-> parent(l)],
                out |-> [l \in active |-> made(l)]]

\* The constructor refuses a lane outside its own group.
coalesced_group(lane, mask) == mask # {} /\ lane \in mask

coalesced_threads ==
    Collective({l \in active : coalesced_group(l, active)},
               Declare("label", LAMBDA l : active, [l \in Warp |-> 0],
                       LAMBDA l : [mask |-> active, meta_rank |-> 0, meta_size |-> 1]))

\* The parent group a lane names: the one of some enclosing scope.
Parent(d, lane) == stack[d].group[lane]
Declared(d) == \A l \in active : Parent(d, l) # NoGroup

binary_partition(d, pred) ==
    LET yes(l) == ballot(pred) \cap Parent(d, l).mask
        homogeneous(l) == yes(l) \in {{}, Parent(d, l).mask}
        selected(l) == IF pred[l] THEN yes(l) ELSE Parent(d, l).mask \ yes(l)
    IN /\ Declared(d)
       /\ Collective(
            {l \in active : /\ members_active(Parent(d, l).mask, l)
                            /\ coalesced_group(l, selected(l))},
            Declare("binary", LAMBDA l : Parent(d, l).mask, pred, LAMBDA l :
               [mask |-> selected(l),
                meta_rank |-> IF ~homogeneous(l) /\ pred[l] THEN 1 ELSE 0,
                meta_size |-> IF homogeneous(l) THEN 1 ELSE 2]))

\* The overload on the complete tile32 of the warp.
binary_partition_tile(pred) ==
    LET yes == ballot(pred)
        homogeneous == yes \in {{}, Warp}
        selected(l) == IF pred[l] THEN yes ELSE Warp \ yes
    IN Collective(
         {l \in active : members_active(Warp, l) /\ coalesced_group(l, selected(l))},
         Declare("binary", LAMBDA l : Warp, pred, LAMBDA l :
            [mask |-> selected(l),
             meta_rank |-> IF ~homogeneous /\ pred[l] THEN 1 ELSE 0,
             meta_size |-> IF homogeneous THEN 1 ELSE 2]))

\* Key fetches rank by rank, then the first lanes of the new groups ballot.
labeled_partition(d, label) ==
    LET selected(l) ==
            LET g == Parent(d, l)
            IN {member(g.mask, r) : r \in {q \in 0..(count(g.mask) - 1) :
                                              shfl(g, label, q) = label[l]}}
        leader(l) == member(selected(l), 0)
        leaders(l) == ballot([x \in active |-> x = leader(x)]) \cap Parent(d, l).mask
    IN /\ Declared(d)
       /\ Collective(
            {l \in active : /\ members_active(Parent(d, l).mask, l)
                            /\ coalesced_group(l, selected(l))},
            Declare("label", LAMBDA l : Parent(d, l).mask, label, LAMBDA l :
               [mask |-> selected(l),
                meta_rank |-> count(Below(leaders(l), leader(l))),
                meta_size |-> count(leaders(l))]))

\* g.shfl(value, source_rank)
GroupShfl(d, reg, rank) ==
    /\ Declared(d)
    /\ Collective(
         {l \in active : CanShfl(Parent(d, l), l, rank)},
         /\ last' = [op |-> "shfl", in |-> reg, rank |-> rank, at |-> active,
                     group |-> [l \in active |-> Parent(d, l).mask],
                     out |-> [l \in active |-> shfl(Parent(d, l), reg, rank)]]
         /\ UNCHANGED stack)

\* Slip: the tail of the tree is not guarded by the count.
MutTreeLevel(d, op, reg, offset) ==
    [l \in active |->
        LET g == Parent(d, l)
            rank == thread_rank(g, l)
            combine == rank % (offset * 2) = 0
            peer == shfl(g, reg, IF rank + offset < count(g.mask) THEN rank + offset ELSE rank)
        IN IF offset < count(g.mask) /\ combine THEN Operation(op, reg[l], peer) ELSE reg[l]]

\* One pass of the loop of reduce_int, in the lanes whose group needs it.
TreeLevel(d, op, reg, offset) ==
    [l \in active |->
        LET g == Parent(d, l)
            rank == thread_rank(g, l)
            combine == rank % (offset * 2) = 0 /\ rank + offset < count(g.mask)
            peer == shfl(g, reg, IF combine THEN rank + offset ELSE rank)
        IN IF offset < count(g.mask) /\ combine THEN Operation(op, reg[l], peer) ELSE reg[l]]

\* The registers after each pass: offset = 1, 2, 4, ... with a ragged tail.
Passes(d, op, reg) ==
    LET u[k \in 0..Width] == IF k = 0 THEN reg ELSE TreeLevel(d, op, u[k - 1], TwoTo[k - 1]) IN u

reduce_int(d, op, reg) ==
    /\ Declared(d)
    /\ Collective(
         {l \in active : CanShfl(Parent(d, l), l, 0)},
         /\ last' = [op |-> op, in |-> reg, at |-> active,
                     group |-> [l \in active |-> Parent(d, l).mask],
                     out |-> [l \in active |-> shfl(Parent(d, l), Passes(d, op, reg)[Width], 0)]]
         /\ UNCHANGED stack)

\* ---- full-warp tile and explicit masks -------------------------------------
\* Reading a lane that does not execute, or a shuffle whose delta overflows its
\* field of the control word: no defined value.
Garbage == TwoTo[IntBits]
Segment(l, width) == (l \div width) * width
Read(reg, l) == IF l \in active THEN reg[l] ELSE Garbage

\* The native shuffles of the device (external): clamped to the segment.
asc_shfl_up(reg, l, delta, width) ==
    IF delta >= Width THEN Garbage
    ELSE IF l - delta < Segment(l, width) THEN reg[l] ELSE Read(reg, l - delta)
asc_shfl_down(reg, l, delta, width) ==
    IF delta >= Width THEN Garbage
    ELSE IF l + delta >= Segment(l, width) + width THEN reg[l] ELSE Read(reg, l + delta)

\* tile_register_operations<32>: offset = Width / 2, ..., 1, then lane 0's value.
TileOffset == LET o[k \in 0..Width] == IF k = 0 THEN Width \div 2 ELSE o[k - 1] \div 2 IN o

TileLevel(reg, offset) == [l \in active |-> sum_int32(reg[l], asc_shfl_down(reg, l, offset, Width))]

TilePasses(reg) ==
    LET u[k \in 0..Width] ==
            IF k = 0 THEN reg
            ELSE IF TileOffset[k - 1] = 0 THEN u[k - 1] ELSE TileLevel(u[k - 1], TileOffset[k - 1])
    IN  u

TileReduce(reg) ==
    Collective(
      {l \in active : active = Warp},
      /\ last' = [op |-> "plus", in |-> reg, at |-> active,
                  group |-> [l \in active |-> Warp],
                  out |-> [l \in active |-> TilePasses(reg)[Width][0]]]
      /\ UNCHANGED stack)

\* Every active lane must pass exactly the lanes that are active.
converged_mask(mask, l) == mask[l] = active /\ active # {}

converged_ballot_sync(mask, pred) ==
    Collective(
      {l \in active : converged_mask(mask, l)},
      /\ last' = [op |-> "ballot", in |-> pred, at |-> active,
                  out |-> [l \in active |-> ballot(pred) \cap mask[l]]]
      /\ UNCHANGED stack)

converged_shfl_up_sync(mask, reg, delta, width) ==
    LET native_delta(l) == IF delta[l] >= width THEN 0 ELSE delta[l]
    IN Collective(
         {l \in active : converged_mask(mask, l) /\ width \in {2, 4, 8, 16, 32}},
         /\ last' = [op |-> "up", in |-> reg, delta |-> delta, width |-> width,
                     at |-> active,
                     out |-> [l \in active |->
                                asc_shfl_up(reg, l, native_delta(l), width)]]
         /\ UNCHANGED stack)

converged_shfl_down_sync(mask, reg, delta, width) ==
    Collective(
      {l \in active : converged_mask(mask, l) /\ width \in {1, 2, 4, 8, 16, 32}},
      /\ last' = [op |-> "down", in |-> reg, delta |-> delta, width |-> width,
                  at |-> active,
                  out |-> [l \in active |-> asc_shfl_down(reg, l, delta[l], width)]]
      /\ UNCHANGED stack)

\* Masks the lanes may pass: all the same set, or one lane a different one.
Masks == {[l \in Warp |-> active], [l \in Warp |-> Warp],
          [l \in Warp |-> IF l = Min(active) THEN {l} ELSE active]}
Widths == {1, 2, Width}
DeltaVectors == {[l \in Warp |-> 1], [l \in Warp |-> Width], [l \in Warp |-> l]}
\* Exchanges only move registers: one vector of distinct values is enough.
Registers == [l \in Warp |-> l]
\* Labels are only compared for equality: each pattern of equal labels once.
LabelVectors == {f \in [active -> LaneLabels] :
    \A l \in active : f[l] <= 1 + Max({0} \cup {f[m] : m \in Below(active, l)})}
Predicates == [active -> BOOLEAN]

GroupNext ==
    \/ \E taken \in Branches : Diverge(taken)
    \/ Reconverge
    \/ Continue
    \/ coalesced_threads
    \/ \E pred \in Predicates :
          \/ binary_partition_tile(pred)
          \/ \E d \in 1..Len(stack) : binary_partition(d, pred)
          \/ \E mask \in Masks : converged_ballot_sync(mask, pred)
    \/ \E d \in 1..Len(stack), label \in LabelVectors : labeled_partition(d, label)
    \/ \E reg \in Inputs :
          \/ TileReduce(reg)
          \/ \E d \in 1..Len(stack), op \in {"plus", "greater"} : reduce_int(d, op, reg)
    \/ \E d \in 1..Len(stack), rank \in 0..(Width - 1) : GroupShfl(d, Registers, rank)
    \/ \E mask \in Masks, delta \in DeltaVectors, width \in Widths :
          \/ converged_shfl_up_sync(mask, Registers, delta, width)
          \/ converged_shfl_down_sync(mask, Registers, delta, width)

GroupSpec == GroupInit /\ [][GroupNext]_groupVars

-----------------------------------------------------------------------------
(***************************************************************************)
(* coalesced_threads, binary_partition and labeled_partition, on whatever  *)
(* enclosing group and after whatever branches: the lanes of one parent    *)
(* end in one group exactly when their keys agree; all members of a group  *)
(* hold the same group; the groups of a parent are numbered, without gaps, *)
(* by their first lane (labels) or false before true (predicates).  The    *)
(* code finds all this lane by lane, from exchanges and ballots.           *)
(***************************************************************************)
PartitionByKey ==
    last.op \in {"binary", "label"} =>
        \A l \in last.at :
            LET g == last.out[l]
                siblings == {last.out[m] : m \in last.group[l]}
                before == IF last.op = "label"
                          THEN {h \in siblings : Min(h.mask) < Min(g.mask)}
                          ELSE {h \in siblings : last.key[l] /\ ~last.key[Min(h.mask)]}
            IN /\ g.mask = {m \in last.group[l] : last.key[m] = last.key[l]}
               /\ \A m \in g.mask : last.out[m] = g
               /\ g.meta_size = Cardinality(siblings)
               /\ g.meta_rank = Cardinality(before)

\* The sum of the operands of a set of lanes.
SumOver(in, g) ==
    LET s[k \in 0..Width] ==
            IF k = 0 THEN 0 ELSE s[k - 1] + (IF k - 1 \in g THEN in[k - 1] ELSE 0)
    IN  s[Width]

(***************************************************************************)
(* shfl and reduce of a group: an exchange never takes a register of a     *)
(* lane that is not at the instruction (a group of an outer scope used     *)
(* inside a branch is refused), and the log-step tree over a group of any  *)
(* size, ragged tail included, gives every member the wrapped sum, or the  *)
(* maximum, of all members.                                                *)
(***************************************************************************)
GroupExchange ==
    last.op \in {"shfl", "plus", "greater"} =>
        \A l \in last.at :
            LET g == last.group[l]
            IN /\ g \subseteq last.at
               /\ last.op = "shfl" =>
                    \E m \in g : /\ Cardinality({x \in g : x < m}) = last.rank
                                 /\ last.out[l] = last.in[m]
               /\ last.op = "plus" =>
                    last.out[l] = Wrap(SumOver(last.in, g))
               /\ last.op = "greater" =>
                    last.out[l] = Max({last.in[x] : x \in g})

\* What CUDA defines: the lane delta away in the segment, else the own value.
CudaSource(op, l, delta, width) ==
    LET s == IF op = "up" THEN l - delta ELSE l + delta
    IN IF s \in Segment(l, width)..(Segment(l, width) + width - 1) THEN s ELSE l

(***************************************************************************)
(* converged_shfl_up_sync / _down_sync / ballot_sync under divergence: all *)
(* lanes passed exactly the active mask, and each lane gets the register   *)
(* CUDA defines whenever CUDA defines one (the source lane participates),  *)
(* for an up-shuffle with any delta, for a down-shuffle with a delta that  *)
(* fits the control word.                                                  *)
(***************************************************************************)
MaskedExchange ==
    /\ last.op = "ballot" =>
         \A l \in last.at : last.out[l] = {m \in last.at : last.in[m]}
    /\ last.op \in {"up", "down"} =>
         \A l \in last.at :
             LET from == CudaSource(last.op, l, last.delta[l], last.width)
             IN (from \in last.at /\ (last.op = "up" \/ last.delta[l] < Width)) =>
                    last.out[l] = last.in[from]

(***************************************************************************)
(* Every collective of a warp - forming groups, exchanging and reducing    *)
(* within one, the masked exchanges - gives each lane what CUDA defines,   *)
(* after any nesting of branches and groups.                               *)
(***************************************************************************)
GroupResultExact == PartitionByKey /\ GroupExchange /\ MaskedExchange
=============================================================================
