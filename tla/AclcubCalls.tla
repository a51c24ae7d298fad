----------------------------- MODULE AclcubCalls -----------------------------
(***************************************************************************)
(* A kernel that calls one BlockReduce overload in a loop on the same      *)
(* storage, the way grid-stride kernels do.  `use' is the loop: the member *)
(* function, the reducer, the number of warps, and whether the caller has  *)
(* a barrier of its own between two calls.                                 *)
(***************************************************************************)
EXTENDS Aclcub

CONSTANTS Calls,            \* iterations of the loop
          Uses,             \* the loops considered
          Inputs            \* the operand of each thread in each iteration

\* A marker the conversion placed agrees with operator(), and so does a public base;
\* an inherited or retyped marker promises nothing.
Honest(o) ==
    /\ o.sem \in {"Sum", "Max"} /\ {o.declared, o.base} \subseteq {"none", "Sum", "Max"}
    /\ o.declared # "none" /\ o.valueMatches /\ o.ownerMatches => o.sem = o.declared
    /\ o.base # "none" => o.sem = o.base

\* The loop has a barrier of its own, or calls a double-buffered overload.
Contract(u) ==
    /\ u.fn \in {"Reduce", "AllReduce", "Shfl"} \cup DoubleBuffered
    /\ Honest(u.op) /\ u.warps \in 1 .. kWarpSize
    /\ u.guard \/ (u.fn \in DoubleBuffered /\ DispatchTagOf(u.op) # "generic")
    /\ Tag([fn |-> u.fn, op |-> u.op]) = "generic" => Halves(u.warps * kWarpSize)

ASSUME CallsAssumption ==
    /\ 0 \in Blocks /\ Calls \in Nat
    /\ \A u \in Uses : Contract(u)
    /\ \A t \in 0 .. kWarpSize * kWarpSize - 1, i \in 0 .. Calls - 1 :
          Inputs[t][i] \in Int /\ Inputs[t][i] >= Identity("Max")

VARIABLES use,              \* the loop
          turn              \* warp -> [it, at]: iteration, and "call" or "guard"

callVars == <<use, turn>>

Warps == DOMAIN turn

\* The input of thread t in call i.
Input(t, i) == Inputs[t][i]

CallBegin(w) ==
    /\ turn[w].at = "call" /\ turn[w].it < Calls
    /\ Begin(0, w, [fn |-> use.fn, op |-> use.op, warps |-> use.warps, iter |-> turn[w].it],
             [l \in Lanes |-> Input(w * kWarpSize + l, turn[w].it)])
    /\ UNCHANGED callVars

\* The call returns; with a guard the warp waits for the caller's barrier.
CallReturn(w) ==
    /\ red[0][w].at = "done"
    /\ red' = [red EXCEPT ![0][w] = Idle]
    /\ turn' = [turn EXCEPT ![w] = [it |-> @.it + 1, at |-> IF use.guard THEN "guard" ELSE "call"]]
    /\ UNCHANGED <<warp_aggregates, generic_buf, use>>

Guard ==
    /\ \A w \in Warps : turn[w].at = "guard"
    /\ turn' = [w \in Warps |-> [turn[w] EXCEPT !.at = "call"]]
    /\ UNCHANGED <<redVars, use>>

CallsDone ==
    /\ \A w \in Warps : turn[w].it = Calls /\ turn[w].at = "call"
    /\ UNCHANGED <<redVars, callVars>>

CallsInit ==
    /\ use \in Uses
    /\ turn = [w \in 0 .. use.warps - 1 |-> [it |-> 0, at |-> "call"]]
    /\ RedInit(Lanes)

CallsNext ==
    \/ \E w \in Warps : CallBegin(w) \/ CallReturn(w)
    \/ RedStep(0, Warps) /\ UNCHANGED callVars
    \/ Guard
    \/ CallsDone

CallsSpec == CallsInit /\ [][CallsNext]_<<redVars, callVars>>

-----------------------------------------------------------------------------
\* The threads a member function promises its result to: Reduce and the
\* shuffle algorithm thread 0, everything else every thread.
Promised(w) == {l \in Lanes : Tag([fn |-> use.fn, op |-> use.op]) = "generic"
                              \/ use.fn \in {"AllReduce"} \cup DoubleBuffered
                              \/ (w = 0 /\ l = 0)}

Reference(i) ==
    Serial(use.op.sem, [t \in 0 .. use.warps * kWarpSize - 1 |-> Input(t, i)], use.warps * kWarpSize)

(* However the warps interleave, and although every call reuses the same   *)
(* storage, a call that returns hands every promised thread the reduction, *)
(* under the reducer's own operator(), of the inputs of that very call     *)
(* (aclcub.hpp ReduceDispatch, AllReduceDispatch, AllReduceDB, Shfl).      *)
CallExact ==
    \A w \in Warps : red[0][w].at = "done" =>
        \A l \in Promised(w) : red[0][w].out[l] = Reference(turn[w].it)
=============================================================================
