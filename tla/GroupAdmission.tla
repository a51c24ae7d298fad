--------------------------- MODULE GroupAdmission ---------------------------
(***************************************************************************)
(* The proof that must succeed before a kernel with thread_block, tile16   *)
(* or erased groups is published (src/FullWarpGroups.cpp), and the kernel  *)
(* running afterwards with the groups of cooperative_groups_compat.hpp.    *)
(*                                                                         *)
(* The proof walks the kernel once, with an abstract value per local       *)
(* scalar (uniform over the block or not, and its constant when known) and *)
(* a flag `control`: do all threads of the block reach this point          *)
(* together?  A kernel is a tree:                                          *)
(*   lit n | var v | rank g | size g | load | bin op a b | and a b |       *)
(*   asg v e | inc v | cond c a b | sync g at | call h | diag e | other    *)
(* are expressions;                                                        *)
(*   decl v e | group g | expr e | if c t f | for | ret | while            *)
(* are statements.  `g` is the origin of the group value the expression    *)
(* names: this_thread_block(), tiled_partition<16> of it, or anything else *)
(* ("forged").  RECURSIVE definitions walk the tree: TLC only.             *)
(***************************************************************************)
EXTENDS Integers, FiniteSets, Sequences, SequencesExt

CONSTANTS
    WarpLanes,     \* lanes of a warp (32 on the device)
    TileLanes,     \* lanes of a tile16
    MaxBlock,      \* largest admitted block (1024)
    Kernels,       \* the kernels tried: sequences of statements
    Helpers,       \* __device__ functions: name -> [ordinary, body]
    Launches       \* launches tried: [how, written, threads, args]

VARIABLES
    kernelBody,    \* the kernel
    launch,        \* how it is launched
    inputs,        \* preprocessing of the caller's files: "closed" or "macro"
    phase,         \* "source", "refused", "run", "done"
    claims,        \* what the proof ended with: the scalars of its frame
    trace,         \* per thread: the collectives it will execute, in order
    final,         \* per thread: its scalars where it leaves the kernel
    pos,           \* per thread: collectives executed
    aborted        \* a group operation rejected the device contract

admissionVars == <<kernelBody, launch, inputs, phase, claims, trace, final, pos, aborted>>

Vars == {"x", "y", "i"}
NoConst == -(2^20)                       \* std::optional without a value
Varying == [u |-> FALSE, c |-> NoConst]
Known(n) == [u |-> TRUE, c |-> n]
Uniform == [u |-> TRUE, c |-> NoConst]
NoScalars == [v \in Vars |-> Varying]

\* ---- the proof ------------------------------------------------------------
\* origin(): only an authenticated factory gives a group its origin.
origin(g) == g \in {"block", "tile16"}
groupSize(g, n) == IF g = "block" THEN n ELSE TileLanes

Arith(op, x, y) ==
    CASE op = "add" -> x + y
      [] op = "lt"  -> IF x < y THEN 1 ELSE 0
      [] op = "and" -> IF x # 0 /\ y # 0 THEN 1 ELSE 0

\* Proof::binary: uniform when both are, constant when both constants are known.
binary(op, a, b) ==
    IF ~(a.u /\ b.u) THEN Varying
    ELSE IF a.c = NoConst \/ b.c = NoConst THEN Uniform
    ELSE Known(Arith(op, a.c, b.c))

\* Where two paths meet: a scalar keeps what both agree on.
Join(s, yes, no) ==
    [v \in DOMAIN s |->
        [u |-> yes[v].u /\ no[v].u,
         c |-> IF yes[v].u /\ no[v].u /\ yes[v].c = no[v].c THEN yes[v].c ELSE NoConst]]

ForgetConstants(s, vs) == [v \in DOMAIN s |-> IF v \in vs THEN [s[v] EXCEPT !.c = NoConst]
                                                          ELSE s[v]]

\* A value assigned where not all threads arrive is not uniform.
Assigned(v, control) == IF v.u /\ control THEN v ELSE Varying

\* Slip: only a divergent early exit ends the common path.
MutAfterStatement(path, early) == path

\* After a statement that may leave the function the path is not common.
AfterStatement(path, early) == path /\ ~early

\* Scalars a body assigns (Writes), and whether it only reads the counter.
RECURSIVE writtenBy(_)
writtenBy(t) ==
    CASE t.k \in {"asg", "decl"} -> (IF t.k = "asg" THEN {t.v} ELSE {}) \cup writtenBy(t.e)
      [] t.k = "inc" -> {t.v}
      [] t.k \in {"bin", "and"} -> writtenBy(t.a) \cup writtenBy(t.b)
      [] t.k = "cond" -> writtenBy(t.c) \cup writtenBy(t.a) \cup writtenBy(t.b)
      [] t.k \in {"expr", "diag"} -> writtenBy(t.e)
      [] t.k = "if" -> writtenBy(t.c) \cup
            UNION {writtenBy(q) : q \in ToSet(t.t) \cup ToSet(t.f)}
      [] t.k = "for" -> {"i"} \cup UNION {writtenBy(q) : q \in ToSet(t.body)}
      [] OTHER -> {}

\* The loop header: a counter with a known start, and a literal bound.
boundedLoop(t, start) ==
    /\ start.u /\ start.c # NoConst /\ t.limit.k = "lit"
    /\ \/ t.step = "halve" /\ t.limit.n = 0 /\ start.c > 0 /\ start.c <= MaxBlock
       \/ t.step = "inc" /\ 0 <= start.c /\ start.c <= t.limit.n /\ t.limit.n <= MaxBlock

\* The body visited once must not change what was uniform when the loop began.
frozenWitnesses(t, s, body) == \A v \in body \ {"i"} : ~s[v].u

Refused == [ok |-> FALSE, s |-> NoScalars, v |-> Varying, exits |-> FALSE]
Value(s, v) == [ok |-> TRUE, s |-> s, v |-> v, exits |-> FALSE]

(***************************************************************************)
(* expression, statement and function: does the walk succeed (ok), with    *)
(* which scalars (s), which value (v), and may the statement leave the     *)
(* function (exits)?  n is the number of threads of the launch, `calls`    *)
(* the helpers being walked.                                               *)
(***************************************************************************)
RECURSIVE expression(_, _, _, _, _), statement(_, _, _, _, _), block(_, _, _, _, _)

\* sourceFunction: an ordinary non-template device definition of the caller,
\* without overloads, unproved attributes or group values in its interface.
sourceFunction(h) == h \in DOMAIN Helpers /\ Helpers[h].ordinary

function(h, n, calls) ==
    /\ sourceFunction(h) /\ h \notin calls
    /\ block(Helpers[h].body, NoScalars, TRUE, n, calls \cup {h}).ok

expression(e, s, control, n, calls) ==
    CASE e.k = "lit" -> Value(s, Known(e.n))
      [] e.k = "var" -> Value(s, s[e.v])
      [] e.k = "load" -> Value(s, Varying)
      [] e.k = "rank" -> IF origin(e.g) THEN Value(s, Varying) ELSE Refused
      [] e.k = "size" -> IF origin(e.g) THEN Value(s, Known(groupSize(e.g, n))) ELSE Refused
      [] e.k = "sync" -> IF origin(e.g) /\ control THEN Value(s, Varying) ELSE Refused
      [] e.k = "call" -> IF control /\ function(e.h, n, calls) THEN Value(s, Varying)
                                                               ELSE Refused
      [] e.k = "diag" -> LET a == expression(e.e, s, control, n, calls)
                         IN IF a.ok THEN Value(a.s, Varying) ELSE Refused
      [] e.k = "bin" ->
           LET a == expression(e.a, s, control, n, calls)
               b == expression(e.b, a.s, control, n, calls)
           IN IF a.ok /\ b.ok THEN Value(b.s, binary(e.op, a.v, b.v)) ELSE Refused
      [] e.k = "and" ->
           LET a == expression(e.a, s, control, n, calls)
               b == expression(e.b, a.s, control /\ a.v.u, n, calls)
           IN IF a.ok /\ b.ok
              THEN Value(ForgetConstants(b.s, Vars), binary("and", a.v, b.v)) ELSE Refused
      [] e.k = "asg" ->
           LET a == expression(e.e, s, control, n, calls)
               v == Assigned(a.v, control)
           IN IF a.ok THEN Value([a.s EXCEPT ![e.v] = v], v) ELSE Refused
      [] e.k = "inc" ->
           LET v == Assigned(binary("add", s[e.v], Known(1)), control)
           IN Value([s EXCEPT ![e.v] = v], v)
      [] e.k = "cond" ->
           LET c == expression(e.c, s, control, n, calls)
               a == expression(e.a, c.s, control /\ c.v.u, n, calls)
               b == expression(e.b, c.s, control /\ c.v.u, n, calls)
               u == c.v.u /\ a.v.u /\ b.v.u
           IN IF c.ok /\ a.ok /\ b.ok
              THEN Value(Join(c.s, a.s, b.s),
                         [u |-> u, c |-> IF u /\ a.v.c = b.v.c THEN a.v.c ELSE NoConst])
              ELSE Refused
      [] OTHER -> Refused

statement(t, s, control, n, calls) ==
    CASE t.k = "expr" -> expression(t.e, s, control, n, calls)
      [] t.k = "group" -> IF control /\ origin(t.g) THEN Value(s, Varying) ELSE Refused
      [] t.k = "decl" ->
           LET a == expression(t.e, s, control, n, calls)
           IN IF a.ok THEN Value([a.s EXCEPT ![t.v] = Assigned(a.v, control)], Varying)
                      ELSE Refused
      [] t.k = "if" ->
           LET c == expression(t.c, s, control, n, calls)
               yes == block(t.t, c.s, control /\ c.v.u, n, calls)
               no == block(t.f, c.s, control /\ c.v.u, n, calls)
           IN IF c.ok /\ yes.ok /\ no.ok
              THEN [ok |-> TRUE, s |-> Join(c.s, yes.s, no.s), v |-> Varying,
                    exits |-> yes.exits \/ no.exits]
              ELSE Refused
      [] t.k = "for" ->
           LET start == expression(t.init, s, control, n, calls)
               entry == [start.s EXCEPT !["i"] = Assigned(start.v, control)]
               written == UNION {writtenBy(q) : q \in ToSet(t.body)}
               body == block(t.body, entry, control, n, calls)
           IN IF /\ control /\ start.ok /\ boundedLoop(t, entry["i"])
                 /\ "i" \notin written /\ frozenWitnesses(t, entry, written)
                 /\ body.ok /\ ~body.exits
              THEN Value(ForgetConstants(body.s, written \cup {"i"}), Varying)
              ELSE Refused
      [] t.k = "ret" -> [Value(s, Varying) EXCEPT !.exits = TRUE]
      [] OTHER -> Refused          \* while, do, switch, goto, break, ...

block(ts, s, control, n, calls) ==
    FoldLeft(LAMBDA acc, t :
        LET r == statement(t, acc.s, acc.path, n, calls)
        IN IF ~acc.ok \/ ~r.ok THEN [acc EXCEPT !.ok = FALSE]
           ELSE [ok |-> TRUE, s |-> r.s, v |-> Varying, exits |-> acc.exits \/ r.exits,
                 path |-> AfterStatement(acc.path, r.exits)],
        [ok |-> TRUE, s |-> s, v |-> Varying, exits |-> FALSE, path |-> control], ts)

(***************************************************************************)
(* The launch.  launch.written is the block size its configuration names:  *)
(* a literal, or the initial value of a local variable.  Another write to  *)
(* that variable, or a launch through a kernel pointer, makes the size it  *)
(* runs with (launch.threads) a different one.                             *)
(***************************************************************************)
\* readOnlyWitness: every reference to the variable is a plain read.
readOnlyWitness(l) == l.how # "written_var"

\* launchInteger: a literal or a read-only local with a literal initializer.
launchInteger(l) == l.how = "literal" \/ (l.how \in {"var", "written_var"} /\ readOnlyWitness(l))

\* blockThreads: a one-dimensional launch of whole warps.
blockThreads(l) ==
    /\ launchInteger(l)
    /\ l.written >= WarpLanes /\ l.written <= MaxBlock /\ l.written % WarpLanes = 0

\* guardedHostLaunch: configuration and arguments without side effects.
guardedHostLaunch(l) == l.args = "plain"

\* directiveFreeSource: the caller's files hold includes, no other directive and
\* no macro, so that the target's preprocessor sees the text that was proved.
directiveFreeSource == inputs = "closed"

\* ---- the kernel on the device -----------------------------------------------
\* env of a thread: its scalars s, the collectives tr it met, and has it returned.
RECURSIVE evalE(_, _, _, _), runB(_, _, _, _)

runS(t, env, r, n) ==
    CASE t.k = "expr" -> evalE(t.e, env, r, n).env
      [] t.k = "decl" -> LET a == evalE(t.e, env, r, n)
                         IN [a.env EXCEPT !.s[t.v] = a.val]
      [] t.k = "if" -> LET c == evalE(t.c, env, r, n)
                       IN runB(IF c.val # 0 THEN t.t ELSE t.f, c.env, r, n)
      [] t.k = "for" ->
           LET a == evalE(t.init, env, r, n)
               again(v) == IF t.step = "inc" THEN v < t.limit.n ELSE v > t.limit.n
               next(v) == IF t.step = "inc" THEN v + 1 ELSE v \div 2
               Iterate(acc, q) ==
                   IF acc.ret \/ ~again(acc.s["i"]) THEN acc
                   ELSE LET after == runB(t.body, acc, r, n)
                        IN [after EXCEPT !.s["i"] = next(after.s["i"])]
           IN FoldLeft(Iterate, [a.env EXCEPT !.s["i"] = a.val], [q \in 1..MaxBlock |-> q])
      [] t.k = "ret" -> [env EXCEPT !.ret = TRUE]
      [] OTHER -> env

runB(ts, env, r, n) ==
    FoldLeft(LAMBDA acc, t : IF acc.ret THEN acc ELSE runS(t, acc, r, n), env, ts)

evalE(e, env, r, n) ==
    CASE e.k = "lit" -> [env |-> env, val |-> e.n]
      [] e.k = "var" -> [env |-> env, val |-> env.s[e.v]]
      [] e.k = "load" -> [env |-> env, val |-> r % 2]
      [] e.k = "rank" -> [env |-> env, val |-> IF e.g = "block" THEN r ELSE r % TileLanes]
      [] e.k = "size" -> [env |-> env, val |-> groupSize(e.g, n)]
      [] e.k = "sync" -> [env |-> [env EXCEPT !.tr = Append(@, [g |-> e.g, at |-> e.at])],
                          val |-> 0]
      [] e.k = "call" ->
           LET inner == runB(Helpers[e.h].body, [env EXCEPT !.s = [v \in Vars |-> 0]], r, n)
           IN [env |-> [env EXCEPT !.tr = inner.tr], val |-> r]
      [] e.k = "diag" -> [evalE(e.e, env, r, n) EXCEPT !.val = 0]
      [] e.k = "bin" -> LET a == evalE(e.a, env, r, n)
                            b == evalE(e.b, a.env, r, n)
                        IN [env |-> b.env, val |-> Arith(e.op, a.val, b.val)]
      [] e.k = "and" -> LET a == evalE(e.a, env, r, n)
                            b == evalE(e.b, a.env, r, n)
                        IN IF a.val = 0 THEN a
                           ELSE [env |-> b.env, val |-> Arith("and", 1, b.val)]
      [] e.k = "asg" -> LET a == evalE(e.e, env, r, n)
                        IN [env |-> [a.env EXCEPT !.s[e.v] = a.val], val |-> a.val]
      [] e.k = "inc" -> [env |-> [env EXCEPT !.s[e.v] = @ + 1], val |-> env.s[e.v] + 1]
      [] e.k = "cond" -> LET c == evalE(e.c, env, r, n)
                         IN evalE(IF c.val # 0 THEN e.a ELSE e.b, c.env, r, n)

\* A macro of the target may put anything into the text, such as an early exit.
LeaveSome == [k |-> "if", c |-> [k |-> "rank", g |-> "block"], t |-> <<[k |-> "ret"]>>, f |-> <<>>]
TargetBody == IF inputs = "macro" THEN <<LeaveSome>> \o kernelBody ELSE kernelBody

Executed(r, n) ==
    runB(TargetBody, [s |-> [v \in Vars |-> 0], tr |-> <<>>, ret |-> FALSE], r, n)

\* ---- actions ---------------------------------------------------------------
AdmissionInit ==
    /\ kernelBody \in Kernels /\ launch \in Launches /\ inputs \in {"closed", "macro"}
    /\ phase = "source" /\ claims = NoScalars /\ aborted = FALSE
    /\ trace = <<>> /\ final = <<>> /\ pos = <<>>

Ranks == 0..(launch.threads - 1)

\* Proof::run on the kernel and its launch: refused, or published and launched.
\* A kernel without a visible direct launch is refused.
ProveFullWarpGroups ==
    LET proof == block(kernelBody, NoScalars, TRUE, launch.written, {})
    IN /\ phase = "source"
       /\ IF /\ directiveFreeSource /\ launch.how # "indirect"
             /\ blockThreads(launch) /\ guardedHostLaunch(launch) /\ proof.ok
          THEN /\ phase' = "run"
               /\ claims' = IF proof.exits THEN NoScalars ELSE proof.s
               /\ trace' = [r \in Ranks |-> Executed(r, launch.threads).tr]
               /\ final' = [r \in Ranks |-> Executed(r, launch.threads).s]
               /\ pos' = [r \in Ranks |-> 0]
          ELSE /\ phase' = "refused"
               /\ UNCHANGED <<claims, trace, final, pos>>
       /\ UNCHANGED <<kernelBody, launch, inputs, aborted>>

WarpOf(w) == {r \in Ranks : r \div WarpLanes = w}
WarpIds == 0..((launch.threads - 1) \div WarpLanes)
AtEnd == [g |-> "end", at |-> "end"]
Upcoming(r) == IF pos[r] < Len(trace[r]) THEN trace[r][pos[r] + 1] ELSE AtEnd
Advance(rs) == pos' = [r \in Ranks |-> IF r \in rs THEN pos[r] + 1 ELSE pos[r]]

\* full_warp_group_sync_v1: the whole warp at one call, or the kernel is rejected.
full_warp_group_sync_v1(w) ==
    /\ phase = "run" /\ ~aborted
    /\ \E r \in WarpOf(w) :
          /\ Upcoming(r).g = "tile16"
          /\ IF /\ \A q \in WarpOf(w) : Upcoming(q) = Upcoming(r)
                /\ Cardinality(WarpOf(w)) = WarpLanes
             THEN Advance(WarpOf(w)) /\ UNCHANGED aborted
             ELSE aborted' = TRUE /\ UNCHANGED pos
    /\ UNCHANGED <<kernelBody, launch, inputs, phase, claims, trace, final>>

\* thread_block::sync: releases the block when all its threads wait in it.
thread_block_sync ==
    /\ phase = "run" /\ ~aborted
    /\ \A r \in Ranks : Upcoming(r).g = "block"
    /\ Advance(Ranks)
    /\ UNCHANGED <<kernelBody, launch, inputs, phase, claims, trace, final, aborted>>

KernelReturns ==
    /\ phase = "run" /\ ~aborted
    /\ \A r \in Ranks : Upcoming(r) = AtEnd
    /\ phase' = "done"
    /\ UNCHANGED <<kernelBody, launch, inputs, claims, trace, final, pos, aborted>>

AdmissionNext ==
    \/ ProveFullWarpGroups
    \/ \E w \in WarpIds : full_warp_group_sync_v1(w)
    \/ thread_block_sync
    \/ KernelReturns

-----------------------------------------------------------------------------
(***************************************************************************)
(* What the proof is for ("collective requires block-uniform control at    *)
(* one common epoch"): in a published kernel the threads of a warp are     *)
(* always about to execute the same collective, two warps that have passed *)
(* equally many are about to execute the same one, and no group operation  *)
(* rejects the device contract.                                            *)
(***************************************************************************)
CollectivesTogether ==
    /\ ~aborted
    /\ phase = "run" =>
         \A q, r \in Ranks :
             (q \div WarpLanes = r \div WarpLanes \/ pos[q] = pos[r]) =>
                 Upcoming(q) = Upcoming(r)

(***************************************************************************)
(* The scalar values the one abstract walk ends with hold in every thread: *)
(* a scalar called uniform is the same in all threads, and has its         *)
(* constant where one is claimed, after branches, loops of many            *)
(* iterations, short circuits and helper calls.                            *)
(***************************************************************************)
UniformClaimsHold ==
    phase \in {"run", "done"} =>
        \A v \in Vars \ {"i"}, q, r \in Ranks :
            /\ claims[v].u => final[q][v] = final[r][v]
            /\ claims[v].u /\ claims[v].c # NoConst => final[q][v] = claims[v].c

(***************************************************************************)
(* The admission of FullWarpGroups is sound: what its one walk concludes   *)
(* about control and about scalars holds for all threads of a published    *)
(* kernel.                                                                 *)
(***************************************************************************)
AdmissionSound == CollectivesTogether /\ UniformClaimsHold
=============================================================================
