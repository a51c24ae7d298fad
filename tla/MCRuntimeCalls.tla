--------------------------- MODULE MCRuntimeCalls ---------------------------
(***************************************************************************)
(* Small instances of the calls translated programs make (RuntimeCalls)    *)
(* and of the proof behind the launch bounds written into them             *)
(* (KernelBounds).  A behaviour is about one of the two, `part`.           *)
(***************************************************************************)
EXTENDS RuntimeCalls, KernelBounds

CONSTANTS w1, w2, stream, mark, symbol,
          Parts          \* the parts of this run

VARIABLE part

MCThreads == {w1, w2}
MCNamed == {stream}
MCEvents == {mark}
MCTokens == {symbol}
MCObserved == {w1}

Devices ==
  [warp : {0, 2}, perCore : {5, 8}, ub : {-1, 0, 6}, perBlock : {4, 20}, cores : {2},
   perGrid : {1, 7}, memory : {1}]
Models == {[base |-> b, slope |-> k] : b \in {0, 4, 6, 7}, k \in {0, 1}}
               \cup {[base |-> 8, slope |-> -1]}
Kinds == {"active", "activeBound", "size", "sizeBound", "attributes", "properties"}

MCQuestions ==
  {[what |-> w, size |-> n, bound |-> b, model |-> m, dev |-> d, failing |-> f, args |-> <<>>] :
     w \in Kinds, n \in {-1, 0, 3, 4}, b \in {1, 6}, m \in Models, d \in Devices,
     f \in {{}, {"ub"}, {"perCore"}}}
  \cup
  {[what |-> "find", size |-> n, bound |-> b, model |-> [base |-> 0, slope |-> 0],
    dev |-> [a \in Attributes \cup Properties |-> 0], failing |-> f, args |-> g] :
     n \in 0 .. 2, b \in {0, 1}, f \in {{}, {"cores"}},
     g \in [1 .. 2 -> {"other", "zero", "device"}]}

\* ---- sources for KernelBounds ----------------------------------------------
kernel(shape, written, args, onTarget, place) ==
  [shape |-> shape, written |-> written, args |-> args, onTarget |-> onTarget, place |-> place]

PlainKernels == {kernel("plain", w, 1, w, p) : w \in {0, 1, 4}, p \in {"main", "selected", "header"}}
OddKernels ==
  {kernel(s, w, 1, w, "main") : w \in {0, 1},
     s \in {"template", "redeclared", "nested", "attributed", "macro", "conditional", "requalified"}}
  \cup {kernel("expression", 1, 1, 4, "main"), kernel("plain", 1, 2, 1, "main"),
        kernel("plain", 9, 1, 9, "main")}

occupancy(in, form, arg) ==
  [api |-> "occupancy", in |-> in, form |-> form, arg |-> arg, uses |-> {}]
attributes(in, form, arg, uses) ==
  [api |-> "attributes", in |-> in, form |-> form, arg |-> arg, uses |-> uses]

Asked == {occupancy("host", "checked", "a"), occupancy("host", "plain", "b"),
          occupancy("helper", "plain", "p"), attributes("host", "plain", "a", {"read"})}
OddlyAsked ==
  {occupancy(i, f, g) : i \in {"host", "template", "kernel"}, f \in {"plain", "macro", "qualified"},
                        g \in {"a", "any"}}
  \cup {attributes(i, f, "a", {"read"}) : i \in {"host", "template"}, f \in {"plain", "macro"}}
  \cup {attributes("host", "plain", "any", {"read"})}
  \cup {attributes("host", "plain", "a", u) :
          u \in SUBSET {"read", "write", "address", "again", "captured", "initialized", "shared", "layout"}}

caller(in, form, actual) == [in |-> in, form |-> form, actual |-> actual]
ClosedCalls == {<<>>, <<caller("host", "plain", "a")>>, <<caller("host", "plain", "b")>>,
                <<caller("host", "checked", "a"), caller("host", "plain", "b")>>}
OddCalls == {<<caller("host", "plain", "a"), caller(i, f, n)>> :
               i \in {"host", "helper", "template"}, f \in {"plain", "macro"}, n \in {"b", "any"}}

taker(callers, static, text, escapes, observed, hidden) ==
  [callers |-> callers, static |-> static, text |-> text, escapes |-> escapes,
   observed |-> observed, hidden |-> hidden]
Closed(c) == taker(c, TRUE, "closed", FALSE, FALSE, FALSE)
OddTakers ==
  {taker(<<caller("host", "plain", "a")>>, s, t, e, o, r) :
     s, e, o, r \in BOOLEAN, t \in {"closed", "directives", "foreign include"}}

unit(target, ks, qs, h, unresolved, apiEscapes, rawQuery) ==
  [target |-> target, kernels |-> ks, queries |-> qs, helper |-> h, unresolved |-> unresolved,
   apiEscapes |-> apiEscapes, rawQuery |-> rawQuery]
two(k, l) == [a |-> k, b |-> l]
Usual == two(kernel("plain", 0, 1, 0, "main"), kernel("plain", 1, 1, 1, "main"))

\* Two calls of any two kernels; every odd call, helper and unit beside usual ones.
MCBoundSources ==
  {unit("simt", two(k, l), <<q, r>>, Closed(c), FALSE, FALSE, FALSE) :
     k \in PlainKernels \cup OddKernels, l \in PlainKernels, q, r \in Asked, c \in ClosedCalls}
  \cup {unit(t, Usual, <<q, r>>, Closed(<<caller("host", "plain", "b")>>), u, FALSE, FALSE) :
     t \in {"simt", "recipe", "other"}, q \in OddlyAsked,
     r \in {occupancy("helper", "plain", "p"), attributes("host", "plain", "a", {"read"})}, u \in BOOLEAN}
  \cup {unit(t, Usual, <<q>>, Closed(<<caller("host", "plain", "b")>>), u, e, w) :
     t \in {"simt", "recipe", "other"}, q \in Asked, u, e, w \in BOOLEAN}
  \cup {unit("simt", Usual, <<occupancy("helper", "plain", "p"), q>>, h, FALSE, FALSE, FALSE) :
     q \in Asked, h \in OddTakers \cup {Closed(c) : c \in OddCalls}}

CallsOff == Init /\ textures = FALSE
BoundOff ==
  /\ bsource = "off" /\ bphase = "off" /\ bnext = 0 /\ bounded = <<>> /\ policies = {}
  /\ callees = <<>> /\ objects = {} /\ annotated = {} /\ answer = <<>>

MCInit ==
  /\ part \in Parts
  /\ IF part = "calls" THEN Init ELSE CallsOff
  /\ IF part = "bounds" THEN BoundInit ELSE BoundOff

Decided == part = "bounds" /\ bphase \in {"refused", "published"}

MCNext ==
  \/ part = "calls" /\ Next /\ UNCHANGED <<boundVars, part>>
  \/ part = "bounds" /\ BoundNext /\ UNCHANGED <<vars, part>>
  \/ Decided /\ UNCHANGED <<vars, boundVars, part>>

MCSpec == MCInit /\ [][MCNext]_<<vars, boundVars, part>>
=============================================================================
