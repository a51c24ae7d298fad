------------------------- MODULE MCRuntimeLifecycle -------------------------
(***************************************************************************)
(* The runtime's lifecycle and the row-wise target for TLC.  `part' says   *)
(* which of the four machines runs - the managers of the process, a loop   *)
(* of block reductions, a native kernel, a launch wrapper - and the others *)
(* stay where they began.                                                  *)
(***************************************************************************)
EXTENDS RuntimeLifecycle, AclcubCalls, RowwiseKernels, RowwiseRoute, TLC

CONSTANTS t1, t2, d0, d1

TwoThreads == {t1, t2}
TwoDevices == {d0, d1}

VARIABLE part

mcVars == <<vars, redVars, callVars, kernelVars, routeVars, part>>

-----------------------------------------------------------------------------
(* Reducers: a marker the conversion placed agrees with operator(), and so *)
(* does a public base; an inherited or retyped marker promises nothing.    *)
Reducers ==
    {o \in [declared : {"none", "Sum", "Max"}, valueMatches : BOOLEAN, ownerMatches : BOOLEAN,
            base : {"none", "Sum"}, ascType : BOOLEAN, sem : {"Sum", "Max"}] :
       /\ o.declared = "none" => ~ o.valueMatches /\ ~ o.ownerMatches
       /\ o.declared # "none" /\ o.valueMatches /\ o.ownerMatches => o.sem = o.declared
       /\ o.base # "none" => o.sem = o.base}

\* Distinct powers: a value that is lost, doubled or of another call changes the sum.
Powers == [t \in 0 .. kWarpSize * kWarpSize - 1 |-> [i \in 0 .. Calls - 1 |-> (i + 1) * 3^t]]

Loops == [fn : {"Reduce", "AllReduce", "AllReduceDB", "AllReduceSerial", "AllReduceW", "Shfl"},
          op : Reducers, warps : {1, 2}, guard : BOOLEAN]

\* Loops that keep the contract: a barrier of their own, or double buffering.
ContractLoops == {u \in Loops : u.guard \/ (u.fn \in DoubleBuffered /\ DispatchTagOf(u.op) # "generic")}

-----------------------------------------------------------------------------
Launches ==
    {q \in [op : {"rms", "softmax"}, rows : 1 .. 3, columns : {1, 5, 8, 10, 16, 18, 34},
            weight : BOOLEAN, aligned : BOOLEAN, blk : {0, 2, 3, 4}, cap : {-1, 0, 1}, null : BOOLEAN,
            epsilonOk : BOOLEAN, inplace : BOOLEAN, seed : {1}] :
       /\ q.op = "softmax" => ~ q.weight /\ q.epsilonOk
       /\ q.inplace => ~ q.weight /\ q.cap = 0 /\ q.blk = 0
       /\ q.blk = 3 \/ q.cap = -1 \/ q.null \/ ~ q.epsilonOk => q.columns = 8 /\ q.rows = 1 /\ ~ q.inplace}

-----------------------------------------------------------------------------
Adapter(n, a) == [owned |-> TRUE, storageHalf |-> TRUE, computeFloat |-> TRUE, dataHalf |-> TRUE,
                  affine |-> a, weightHalf |-> TRUE, stride |-> n]

\* A well-formed hybrid wrapper called with buffers at i, p, v, u and w.
Placed(o, r, n, i, p, v, u, w) ==
    [op |-> o, entry |-> "hybrid", domain |-> "none", pack |-> 1, maxColumns |-> 0, minColumns |-> 0,
     padding |-> FALSE, rowsPerAccess |-> 1, shared |-> -1, algorithm |-> "softmax", geometryFails |-> FALSE,
     lifecycle |-> "ok", earlier |-> "ok",
     stream |-> TRUE, epsilon |-> TRUE, computeFloat |-> TRUE, rowValuesFloat |-> TRUE,
     load |-> Adapter(n, FALSE), store |-> Adapter(n, w # 0),
     rows |-> r, columns |-> n, input |-> i, output |-> p, inverse |-> v, mean |-> u, weight |-> w]

Placements ==
    {Placed("softmax", r, n, i, p, 0, 0, 0) : r \in 1 .. 3, n \in {2, 4}, i \in 0 .. 15, p \in 0 .. 15}
    \cup {Placed("rms", r, n, i, p, v, 0, w) : r \in 1 .. 3, n \in {2, 4}, i \in 0 .. 10, p \in {0, 2, 3, 4, 6, 8, 14},
                                              v \in {0, 4, 7, 8, 12}, w \in {0, 6, 12}}
    \cup {Placed("layernorm", r, n, i, p, v, u, 0) : r \in 1 .. 3, n \in {2, 4}, i \in {2, 3, 4, 6}, p \in {2, 4, 6, 8, 14},
                                                    v \in {0, 4, 8, 12}, u \in {0, 2, 10, 14}}

\* One placement with every kind of wrapper.
Shapes ==
    {[Placed(o, 2, 4, 2, IF t THEN 8 ELSE 2, 12, IF o = "layernorm" THEN 10 ELSE 0, IF t THEN 6 ELSE 0)
        EXCEPT !.entry = e, !.domain = d, !.pack = k, !.maxColumns = x, !.padding = g,
               !.rowsPerAccess = q, !.shared = h, !.geometryFails = f, !.load.stride = s] :
        o \in {"softmax", "rms", "layernorm"}, e \in {"hybrid", "native"}, t \in BOOLEAN,
        d \in {"none", "softmax_warp", "norm_warp"}, k \in {1, 3}, x \in {2, 4}, g \in BOOLEAN,
        q \in {1, 3}, h \in {-1, 2}, f \in BOOLEAN, s \in {2, 4}}

\* The same, on threads that carry an error already.
PendingErrors ==
    {[c EXCEPT !.lifecycle = l, !.earlier = e] :
        c \in {d \in Shapes : d.domain = "none" /\ d.pack = 1},
        l \in {"ok", "lifecycle_error"}, e \in {"ok", "earlier_error"}}

\* More rows than an int holds.
ManyRows == {[Placed(o, 3, 2, 2, 8, 14, 0, 0) EXCEPT !.entry = e] : o \in {"softmax", "rms"}, e \in {"hybrid", "native"}}

Wrappers == Placements \cup Shapes \cup PendingErrors \cup ManyRows
            \cup {[c EXCEPT !.algorithm = "logsoftmax"] : c \in {d \in Shapes : d.op = "softmax"}}

-----------------------------------------------------------------------------
MCInit ==
    /\ part \in {"lifecycle", "calls", "kernel", "route"}
    /\ Init
    /\ IF part = "calls" THEN CallsInit ELSE use = "idle" /\ turn = <<>>
    /\ IF part = "kernel" THEN KernelInit
       ELSE /\ req = "idle" /\ plan = [kind |-> "error"] /\ y = <<>> /\ inverse_rms = <<>>
            /\ cached = <<>> /\ wk = <<>>
    /\ IF part = "route" THEN RouteInit
       ELSE /\ call = "idle" /\ at = "entry" /\ ran = <<>> /\ lastError = "ok" /\ status = "none"
            /\ rowAt = <<>> /\ dirty = {}
    /\ part \in {"lifecycle", "route"} => RedInit(Lanes)

MCNext ==
    \/ part = "lifecycle" /\ Next /\ UNCHANGED <<redVars, callVars, kernelVars, routeVars, part>>
    \/ part = "calls" /\ CallsNext /\ UNCHANGED <<vars, kernelVars, routeVars, part>>
    \/ part = "kernel" /\ KernelNext /\ UNCHANGED <<vars, callVars, routeVars, part>>
    \/ part = "route" /\ RouteNext /\ UNCHANGED <<vars, redVars, callVars, kernelVars, part>>

MCSpec == MCInit /\ [][MCNext]_mcVars
=============================================================================
