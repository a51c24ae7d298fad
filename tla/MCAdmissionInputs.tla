------------------------ MODULE MCAdmissionInputs ------------------------
(* Kernels, translation units and sources tried by the three admission     *)
(* proofs, as values for TLC.                                              *)
EXTENDS GroupAdmission, ScratchAdmission, DynamicAdmission

\* ---- GroupAdmission: all kernels of a declaration, two statements of a pool and
\* a closing collective.
lit(n) == [k |-> "lit", n |-> n]
var(v) == [k |-> "var", v |-> v]
rank(g) == [k |-> "rank", g |-> g]
sz(g) == [k |-> "size", g |-> g]
asg(v, e) == [k |-> "asg", v |-> v, e |-> e]
bin(op, a, b) == [k |-> "bin", op |-> op, a |-> a, b |-> b]
both(a, b) == [k |-> "and", a |-> a, b |-> b]
sync(g, at) == [k |-> "sync", g |-> g, at |-> at]
decl(v, e) == [k |-> "decl", v |-> v, e |-> e]
ex(e) == [k |-> "expr", e |-> e]
when(c, t, f) == [k |-> "if", c |-> c, t |-> t, f |-> f]
ret == [k |-> "ret"]
up(from, to, body) == [k |-> "for", init |-> from, limit |-> to, step |-> "inc", body |-> body]
half(from, body) == [k |-> "for", init |-> from, limit |-> lit(0), step |-> "halve", body |-> body]
invoke(h) == [k |-> "call", h |-> h]

plainHelper(b) == [ordinary |-> TRUE, body |-> b]
SomeHelpers ==
    [meet |-> plainHelper(<<ex(sync("tile16", "h"))>>),
     early |-> plainHelper(<<when(rank("block"), <<ret>>, <<>>), ex(asg("x", lit(1)))>>),
     late |-> plainHelper(<<when(rank("block"), <<ret>>, <<>>), ex(sync("block", "l"))>>),
     loop |-> plainHelper(<<ex(invoke("loop"))>>),
     templ |-> [ordinary |-> FALSE, body |-> <<>>]]

SomeLaunches ==
    {[how |-> h, written |-> w, threads |-> n, args |-> a] :
        h \in {"literal", "var"}, w \in {8}, n \in {8}, a \in {"plain"}}
    \cup {[how |-> "literal", written |-> 6, threads |-> 6, args |-> "plain"],
          [how |-> "literal", written |-> 8, threads |-> 8, args |-> "effect"],
          [how |-> "written_var", written |-> 8, threads |-> 6, args |-> "plain"],
          [how |-> "indirect", written |-> 8, threads |-> 6, args |-> "plain"]}
OneLaunch == {[how |-> "literal", written |-> 8, threads |-> 8, args |-> "plain"]}

Declarations == {<<decl("x", e)>> : e \in {lit(2), rank("block"), sz("tile16")}}

Bodies == {<<ex(sync("tile16", "b"))>>, <<ex(asg("x", lit(3)))>>,
           <<ex(asg("x", rank("tile16")))>>,
           <<when(var("x"), <<ex(sync("block", "c"))>>, <<>>), ex(asg("x", rank("block")))>>,
           <<when(rank("block"), <<ret>>, <<>>)>>, <<ex(asg("i", lit(0)))>>,
           <<decl("y", var("x")), when(var("y"), <<ex(sync("block", "d"))>>, <<>>)>>}

Pool ==
    {ex(e) : e \in {asg("x", lit(3)), asg("x", rank("block")), asg("y", var("x")),
                    asg("x", invoke("early")), [k |-> "inc", v |-> "x"],
                    [k |-> "diag", e |-> var("x")], [k |-> "shuffle"],
                    both(rank("block"), asg("x", lit(3))),
                    both(var("x"), sync("tile16", "s")),
                    [k |-> "cond", c |-> rank("block"), a |-> asg("x", lit(3)), b |-> lit(3)],
                    asg("x", [k |-> "cond", c |-> var("x"), a |-> lit(5), b |-> sz("block")]),
                    asg("x", bin("lt", [k |-> "load"], lit(1))),
                    invoke("meet"), invoke("late"), invoke("loop"), invoke("templ"), sync("forged", "f")}}
    \cup {when(c, t, f) : c \in {var("x"), rank("block")},
                          t \in {<<ret>>, <<ex(asg("x", lit(3)))>>},
                          f \in {<<>>, <<ex(asg("x", lit(2)))>>}}
    \cup {up(lit(0), lit(2), b) : b \in Bodies}
    \cup {up(lit(0), var("x"), <<>>), half(lit(4), <<ex(sync("block", "e"))>>),
          half(var("x"), <<ex(asg("y", var("i")))>>),
          [k |-> "while"], [k |-> "group", g |-> "tile16"]}

Closings == {<<ex(sync(g, "z"))>> : g \in {"block", "tile16"}} \cup
            {<<when(var("x"), <<ex(sync(g, "w"))>>, <<>>)>> : g \in {"block", "tile16"}} \cup
            {<<up(var("x"), lit(4), <<ex(invoke("meet"))>>)>>}

AllKernels ==
    {d \o <<s, t>> \o c : d \in Declarations, s \in Pool, t \in Pool, c \in Closings} \cup
    {d \o <<s>> \o c : d \in Declarations, s \in Pool, c \in Closings}

\* Statements whose assignment may not be executed at all.
Skipped == {up(lit(0), lit(0), <<ex(asg("x", lit(3)))>>),
            ex(both(lit(0), asg("x", lit(3))))}
SkippingKernels == {d \o <<s>> \o c : d \in Declarations, s \in Skipped, c \in Closings}

\* ---- ScratchAdmission: kernels of a pool statement between two reductions, in
\* translation units with at most one deviation from an ordinary one.
storage(cap) == [k |-> "storage", shared |-> TRUE, cap |-> cap]
blockOf(s) == [k |-> "block", from |-> s, auto |-> TRUE]
tileOf(b, size, cap) == [k |-> "tile", from |-> b, auto |-> TRUE, size |-> size, cap |-> cap]
reduce(at) == [k |-> "reduce", local |-> TRUE, same |-> TRUE, at |-> at]
stmt(kind) == [k |-> kind]
branch(body) == [k |-> "if", body |-> body]
loopOf(head, step, start, bound, body) ==
    [k |-> "loop", head |-> head, step |-> step, start |-> start, bound |-> bound, body |-> body]

LoopBodies == {<<>>, <<stmt("write")>>, <<stmt("sync")>>, <<reduce("l")>>, <<stmt("exit")>>}

ScratchPool ==
    {<<stmt(k)>> : k \in {"sync", "query", "exit", "alias", "record", "escape", "addr"}}
    \cup {<<[k |-> "conv", ok |-> b]>> : b \in BOOLEAN}
    \cup {<<[k |-> "call", c |-> c]>> : c \in {"coordinate", "helper", "indirect"}}
    \cup {<<branch(b)>> : b \in {<<stmt("query")>>, <<stmt("exit")>>, <<reduce("n")>>,
                                 <<branch(<<stmt("exit")>>)>>, <<storage(64)>>}}
    \cup {<<loopOf("while", "stride", 0, "local", b)>> : b \in LoopBodies}
    \cup {<<loopOf("for", "inc", z, l, <<stmt("query")>>)>> :
            z \in {0, 1}, l \in {"local", "constant", "meta_group_size", "volatile"}}
    \cup {<<loopOf("for", s, 0, "local", <<>>)>> : s \in {"stride", "none"}}
    \cup {<<[reduce("o") EXCEPT !.same = FALSE]>>, <<[reduce("g") EXCEPT !.local = FALSE]>>,
          <<tileOf("block", 32, 64)>>, <<>>}

Heads == {<<storage(c), blockOf(s), tileOf(b, size, c2)>> :
             c \in {32, 48, 64, 96}, s \in {"storage", "other"}, b \in {"block", "other"},
             size \in {16, 32, 64}, c2 \in {64, 96}}
Head64 == <<storage(64), blockOf("storage"), tileOf("block", 32, 64)>>

FromProfile == [home |-> "profile", respecialized |-> FALSE]
PlainForwarder ==
    [device |-> TRUE, clean |-> TRUE, template |-> TRUE, specialized |-> FALSE,
     attributed |-> FALSE, anonymousTwin |-> FALSE, overloads |-> 1,
     body |-> "return reduce", callee |-> FromProfile]
Forwarders ==
    {[PlainForwarder EXCEPT !.device = FALSE], [PlainForwarder EXCEPT !.clean = FALSE],
     [PlainForwarder EXCEPT !.template = FALSE], [PlainForwarder EXCEPT !.specialized = TRUE],
     [PlainForwarder EXCEPT !.attributed = TRUE], [PlainForwarder EXCEPT !.anonymousTwin = TRUE],
     [PlainForwarder EXCEPT !.overloads = 2], [PlainForwarder EXCEPT !.body = "guarded reduce"],
     [PlainForwarder EXCEPT !.callee.home = "source"],
     [PlainForwarder EXCEPT !.callee.respecialized = TRUE]}

KernelOf(body) ==
    [present |-> TRUE, global |-> TRUE, clean |-> TRUE, parameters |-> "scalars",
     template |-> FALSE, templateParameters |-> "", instantiated |-> TRUE, body |-> body]
UnitOf(body) ==
    [profile |-> TRUE, standard |-> TRUE, language |-> 17, groupDeclarations |-> FALSE,
     usings |-> {}, names |-> {}, directives |-> {[d |-> "group include", witnessed |-> TRUE]},
     kernel |-> KernelOf(body), forwarder |-> PlainForwarder]
Directive(d, w) == [d |-> d, witnessed |-> w, tokens |-> "int specialization", primary |-> w]

DeviationsOf(u) ==
    {[u EXCEPT !.forwarder = f] : f \in Forwarders}
    \cup {[u EXCEPT !.names = {n}] :
            n \in {"outside variable", "type alias", "pragma token", "splice", "target namespace",
                   "projection type", "inactive use", "header use", "second naming"}}
    \cup {[u EXCEPT !.directives = {Directive(d, w)}] :
            d \in {"guard", "stdio", "arch", "other", "inside kernel"}, w \in BOOLEAN}
    \cup {[u EXCEPT !.profile = FALSE], [u EXCEPT !.standard = FALSE], [u EXCEPT !.language = 20],
          [u EXCEPT !.groupDeclarations = TRUE], [u EXCEPT !.usings = {"empty"}],
          [u EXCEPT !.usings = {"names"}], [u EXCEPT !.kernel.present = FALSE],
          [u EXCEPT !.kernel.global = FALSE], [u EXCEPT !.kernel.clean = FALSE],
          [u EXCEPT !.kernel.instantiated = FALSE], [u EXCEPT !.kernel.parameters = "class"],
          [u EXCEPT !.kernel.template = TRUE],
          [u EXCEPT !.kernel.template = TRUE, !.kernel.templateParameters = "T, block, tile"]}

SomeUnits ==
    {UnitOf(Head64 \o s \o <<reduce("a")>> \o t) : s \in ScratchPool, t \in ScratchPool}
    \cup {UnitOf(h \o <<reduce("a")>>) : h \in Heads}
    \cup UNION {DeviationsOf(UnitOf(Head64 \o <<reduce("a")>> \o s)) : s \in ScratchPool}

\* ---- DynamicAdmission: two values and an operation, with at most one deviation.
groupValue(v, f, factory, parent) ==
    [v |-> v, f |-> f, factory |-> factory, parent |-> parent, form |-> "local",
     arg |-> "int", effects |-> FALSE, text |-> "literal", callee |-> "sdk"]
use(op, g, f) ==
    [op |-> op, g |-> g, f |-> f, rank |-> 0, arg |-> "int", effects |-> FALSE,
     observed |-> FALSE, text |-> "literal", callee |-> "sdk"]
PlainTile == [f |-> "k", local |-> TRUE, size |-> 32, block |-> "this_thread_block",
              conversion |-> "none", otherUse |-> "none", typeUse |-> "declaration",
              text |-> "literal"]
Tiles == {[PlainTile EXCEPT !.conversion = c] : c \in {"none", "profile", "source"}} \cup
         {[PlainTile EXCEPT !.f = "h"], [PlainTile EXCEPT !.local = FALSE],
          [PlainTile EXCEPT !.size = 16], [PlainTile EXCEPT !.block = "other"],
          [PlainTile EXCEPT !.otherUse = "shuffle"], [PlainTile EXCEPT !.typeUse = "elsewhere"],
          [PlainTile EXCEPT !.text = "macro"]}
PlainKernel == [f |-> "k", shape |-> "pointers, unsigned", definition |-> "one literal",
                attributed |-> FALSE, uses |-> {"launch"}, otherEdit |-> FALSE]
KernelShapes ==
    {[PlainKernel EXCEPT !.shape = "scalars"], [PlainKernel EXCEPT !.definition = "redeclared"],
     [PlainKernel EXCEPT !.attributed = TRUE], [PlainKernel EXCEPT !.otherEdit = TRUE],
     [PlainKernel EXCEPT !.uses = {}], [PlainKernel EXCEPT !.f = "h"]} \cup
    {[PlainKernel EXCEPT !.uses = {"launch", u}] :
        u \in {"occupancy", "address", "overload", "symbol", "template argument", "signature",
               "launch in template"}}
SourceOf(values, calls) ==
    [values |-> values, calls |-> calls, tiles |-> [tile |-> PlainTile], standard |-> TRUE,
     functions |-> [k |-> "device", h |-> "device"], mentions |-> {}, kernel |-> PlainKernel]

FirstValues == {groupValue("a", "k", "coalesced_threads", ""), groupValue("a", "k", "this_grid", ""),
                groupValue("a", "k", "binary_partition", "tile"),
                groupValue("a", "k", "labeled_partition", "tile"), groupValue("a", "k", "copy", "b")}
SecondValues(f) ==
    {groupValue("b", f, factory, "a") : factory \in {"binary_partition", "labeled_partition", "copy"}}
    \cup {groupValue("b", f, "coalesced_threads", "")}
ValueDeviations(d) ==
    {[d EXCEPT !.form = x] : x \in {"static", "parameter", "reference"}} \cup
    {[d EXCEPT !.arg = x] : x \in {"bool", "wide"}} \cup
    {[d EXCEPT !.effects = TRUE], [d EXCEPT !.text = "macro"], [d EXCEPT !.callee = "source"]}
UseDeviations(c) ==
    {[c EXCEPT !.rank = 1], [c EXCEPT !.arg = "wide"], [c EXCEPT !.effects = TRUE],
     [c EXCEPT !.observed = TRUE], [c EXCEPT !.text = "macro"], [c EXCEPT !.callee = "source"]}
Operations == {"thread_rank", "num_threads", "shfl", "plus", "greater", "sync"}
OrdinarySources ==
    {SourceOf(<<a, b>>, <<use(op, g, f)>>) :
        a \in FirstValues, b \in SecondValues("k") \cup SecondValues("h"), op \in Operations,
        g \in {"a", "b"}, f \in {"k", "h"}}
OneSource == SourceOf(<<groupValue("a", "k", "coalesced_threads", ""),
                        groupValue("b", "k", "labeled_partition", "a")>>, <<use("shfl", "b", "k")>>)
TileSource == SourceOf(<<groupValue("a", "k", "binary_partition", "tile")>>, <<use("plus", "a", "k")>>)
DeviatingSources ==
    {[OneSource EXCEPT !.values[1] = d] : d \in ValueDeviations(OneSource.values[1])} \cup
    {[OneSource EXCEPT !.values[2] = d] : d \in ValueDeviations(OneSource.values[2])} \cup
    {[OneSource EXCEPT !.calls[1] = c] : c \in UseDeviations(OneSource.calls[1])} \cup
    {[OneSource EXCEPT !.mentions = {m}] :
        m \in {"reference", "member", "lookup", "type use", "legacy reduce", "greater temporary",
               "alias of cooperative_groups", "alias of unproved alias", "spliced alias",
               "injected declaration", "type alias", "using namespace"}} \cup
    {[OneSource EXCEPT !.functions.k = x] : x \in {"template", "host"}} \cup
    {[OneSource EXCEPT !.kernel = k] : k \in KernelShapes} \cup
    {[TileSource EXCEPT !.tiles.tile = t] : t \in Tiles} \cup
    {[OneSource EXCEPT !.standard = FALSE], SourceOf(<<>>, <<>>)}
SomeDynamicSources == OrdinarySources \cup DeviatingSources
=============================================================================
