------------------------------- MODULE Aclcub -------------------------------
(***************************************************************************)
(* The block reductions of acl_cub/aclcub.hpp.  A block is a set of warps; *)
(* the lanes of one warp run in lockstep, the warps of a block interleave  *)
(* and meet only at asc_syncthreads().  Each call passes through           *)
(*    idle -> sync -> fold -> (sync -> fold ...) -> done                   *)
(* and the caller reads `out' and returns the warp to idle.  The storage   *)
(* the calls share is TempStorage (double-buffered by call parity) and the *)
(* scratch of the generic tree, one array per block.                       *)
(***************************************************************************)
EXTENDS Integers, Sequences, FiniteSets, SequencesExt

CONSTANTS kWarpSize,        \* lanes of a warp (32)
          Blocks            \* the blocks of the launch, 0 .. n-1

\* A set of powers of two: its members halve within it down to 1.
PowersOfTwo(Q) == \A n \in Q : n = 1 \/ (n % 2 = 0 /\ n \div 2 \in Q)

\* n is a power of two.
Halves(n) == \E Q \in SUBSET (1 .. n) : PowersOfTwo(Q) /\ n \in Q

ASSUME AclcubAssumption == kWarpSize \in Nat \ {0} /\ Halves(kWarpSize)

VARIABLES
  warp_aggregates,          \* TempStorage: block -> parity -> warp -> value
  generic_buf,              \* the generic tree's scratch: block -> thread -> value
  red                       \* the call in progress: block -> warp -> record

Unset == -7                 \* contents of storage nobody has written

redVars == <<warp_aggregates, generic_buf, red>>

Lanes == 0 .. kWarpSize - 1

-----------------------------------------------------------------------------
(* Reducers.  A reducer publicly derived from Sum or Max has that tag; one *)
(* that carries the conversion's marker has the declared tag when marker   *)
(* and block agree on the value type and the marker's owner is the reducer *)
(* itself (a derived class inherits the marker of its base).               *)

Apply(f, a, b) == IF f = "Sum" THEN a + b ELSE IF a > b THEN a ELSE b

\* The declared marker is used only when nothing about it is inherited.
DispatchTagOf(o) ==
    LET marked == o.declared # "none" /\ o.valueMatches /\ o.ownerMatches
    IN  IF ~ o.ascType THEN "generic" ELSE IF marked THEN o.declared
        ELSE IF o.base # "none" THEN o.base ELSE "generic"

\* Identity<T, Tag>: what an idle lane contributes to the second level.
Identity(f) == IF f = "Sum" THEN 0 ELSE -1000

\* The values v[0] to v[n - 1], one after the other.
Serial(f, v, n) ==
    LET acc[i \in 0 .. n - 1] == IF i = 0 THEN v[0] ELSE Apply(f, acc[i - 1], v[i])
    IN  acc[n - 1]

\* asc_reduce_add / asc_reduce_max: the fold of a warp, in every lane.
WarpReduce(f, v) == Serial(f, v, kWarpSize)

\* The shuffle butterfly: log2 rounds of v(l) op v(l xor mask).
Partner(l, mask) == IF (l \div mask) % 2 = 0 THEN l + mask ELSE l - mask

\* The mask of each round; the loop ends when it is 0.
Mask == LET mask[k \in 0 .. kWarpSize] == IF k = 0 THEN kWarpSize \div 2 ELSE mask[k - 1] \div 2 IN mask

Rounds(f, v) ==
    LET u[k \in 0 .. kWarpSize] ==
            IF k = 0 THEN v
            ELSE IF Mask[k - 1] = 0 THEN u[k - 1]
            ELSE [l \in Lanes |-> Apply(f, u[k - 1][l], u[k - 1][Partner(l, Mask[k - 1])])]
    IN  u

Butterfly(f, v) == Rounds(f, v)[kWarpSize]

\* FoldSerial / FoldWarp / FoldAuto over the aggregates of one parity.
FoldSerial(f, agg, n) == Serial(f, agg, n)
FoldWarp(f, agg, n) ==
    WarpReduce(f, [l \in Lanes |-> IF l < n THEN agg[l] ELSE Identity(f)])
FoldAuto(f, agg, n) == IF n <= 4 THEN FoldSerial(f, agg, n) ELSE FoldWarp(f, agg, n)

-----------------------------------------------------------------------------
(* A call.  c = [fn, op, warps, iter]: the member function, the reducer,   *)
(* kWarps of the instantiation and the caller's iteration counter.  The    *)
(* reducer names its real semantics (op.sem), the dispatch decides from    *)
(* what is declared.                                                       *)

Idle == [at |-> "idle"]

Tag(c) == IF c.fn = "Shfl" THEN c.op.sem ELSE DispatchTagOf(c.op)

\* AllReduce(.,.,iter) and its two explicit-fold variants go to AllReduceDB,
\* which alternates buffers by the parity of iter; the others use buffer 0.
DoubleBuffered == {"AllReduceDB", "AllReduceSerial", "AllReduceW"}

\* Mutant: every call uses the same buffer.
ParityFixed(c) == 0

Parity(c) == IF c.fn \in DoubleBuffered THEN c.iter % 2 ELSE 0

ThreadsOf(w) == w * kWarpSize .. (w + 1) * kWarpSize - 1

\* The first half of a call: up to and including the first asc_syncthreads()
\* arrival.  A one-warp block needs neither storage nor barrier.
Begin(b, w, c, in) ==
    /\ red[b][w].at = "idle"
    /\ LET tag  == Tag(c)
           warp == IF c.fn = "Shfl" THEN Butterfly(tag, in)
                   ELSE [l \in Lanes |-> WarpReduce(tag, in)]
       IN  IF tag = "generic"
           THEN /\ generic_buf' = [generic_buf EXCEPT ![b] =
                      [t \in DOMAIN @ |-> IF t \in ThreadsOf(w) THEN in[t % kWarpSize] ELSE @[t]]]
                /\ red' = [red EXCEPT ![b][w] =
                      [at |-> "sync", c |-> c, tag |-> tag, stride |-> c.warps * kWarpSize, out |-> in]]
                /\ UNCHANGED warp_aggregates
           ELSE /\ IF c.warps = 1
                   THEN UNCHANGED warp_aggregates
                   ELSE warp_aggregates' = [warp_aggregates EXCEPT ![b][Parity(c)][w] = warp[0]]
                /\ red' = [red EXCEPT ![b][w] =
                      [at |-> IF c.warps = 1 THEN "done" ELSE "sync",
                       c |-> c, tag |-> tag, stride |-> 0, out |-> warp]]
                /\ UNCHANGED generic_buf

\* asc_syncthreads(): every warp of the block has arrived.
Sync(b, warps) ==
    /\ \A w \in warps : red[b][w].at = "sync"
    /\ red' = [red EXCEPT ![b] = [w \in DOMAIN @ |-> IF w \in warps THEN [@[w] EXCEPT !.at = "fold"] ELSE @[w]]]
    /\ UNCHANGED <<warp_aggregates, generic_buf>>

\* After the barrier, tagged: Reduce folds in warp 0, Shfl in thread 0, the
\* AllReduce overloads in every thread.
Folded(r, agg, w) ==
    CASE r.c.fn = "Reduce" -> [l \in Lanes |-> IF w = 0 THEN FoldWarp(r.tag, agg, r.c.warps) ELSE r.out[l]]
      [] r.c.fn = "Shfl"   -> [l \in Lanes |-> IF w = 0 /\ l = 0 THEN FoldSerial(r.tag, agg, r.c.warps) ELSE r.out[l]]
      [] r.c.fn = "AllReduceSerial" -> [l \in Lanes |-> FoldSerial(r.tag, agg, r.c.warps)]
      [] r.c.fn = "AllReduceW" -> [l \in Lanes |-> FoldWarp(r.tag, agg, r.c.warps)]
      [] OTHER             -> [l \in Lanes |-> FoldAuto(r.tag, agg, r.c.warps)]

Fold(b, w) ==
    /\ red[b][w].at = "fold" /\ red[b][w].tag # "generic"
    /\ LET r == red[b][w]
       IN  red' = [red EXCEPT ![b][w] =
                     [r EXCEPT !.at = "done", !.out = Folded(r, warp_aggregates[b][Parity(r.c)], w)]]
    /\ UNCHANGED <<warp_aggregates, generic_buf>>

\* After a barrier, generic: one level of the tree and the next arrival; when
\* the stride is spent every thread reads generic_buf[0].
Tree(b, w) ==
    /\ red[b][w].at = "fold" /\ red[b][w].tag = "generic"
    /\ LET r == red[b][w]
           s == r.stride \div 2
       IN  IF s > 0
           THEN /\ generic_buf' = [generic_buf EXCEPT ![b] =
                      [t \in DOMAIN @ |-> IF t \in ThreadsOf(w) /\ t < s
                                          THEN Apply(r.c.op.sem, @[t], @[t + s]) ELSE @[t]]]
                /\ red' = [red EXCEPT ![b][w] = [r EXCEPT !.at = "sync", !.stride = s]]
           ELSE /\ red' = [red EXCEPT ![b][w] =
                      [r EXCEPT !.at = "done", !.out = [l \in Lanes |-> generic_buf[b][0]]]]
                /\ UNCHANGED generic_buf
    /\ UNCHANGED warp_aggregates

RedInit(warps) ==
    /\ warp_aggregates = [b \in Blocks |-> [p \in {0, 1} |-> [w \in warps |-> Unset]]]
    /\ generic_buf = [b \in Blocks |->
          [t \in 0 .. Cardinality(warps) * kWarpSize - 1 |-> Unset]]
    /\ red = [b \in Blocks |-> [w \in warps |-> Idle]]

RedStep(b, warps) == Sync(b, warps) \/ \E w \in warps : Fold(b, w) \/ Tree(b, w)
=============================================================================
