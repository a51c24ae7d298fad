------------------------- MODULE MCLocalHeaderPlan -------------------------
(* Small projects for LocalHeaderPlan: a root and two headers, two texts of each. *)
EXTENDS LocalHeaderPlan

MCRoot == "root"
MCHeaders == {"a", "b"}

Local(h) == [kind |-> "local", child |-> h]
Other(k) == [kind |-> k, child |-> "a"]
Plain(incs) == [incs |-> incs, needs |-> "none", once |-> TRUE, pragma |-> "none", bound |-> FALSE]
Default == [mode |-> "recursive", inplace |-> FALSE, analysisOnly |-> FALSE,
            standalone |-> FALSE, standard |-> TRUE, clash |-> {}]
Texts(root, a, b) ==
    [f \in {"root", "a", "b"} |-> CASE f = "root" -> root [] f = "a" -> a [] f = "b" -> b]
Both(t, u) == [v \in {0, 1} |-> IF v = 0 THEN t ELSE u]

Empty == Plain(<<>>)
RootAB == Plain(<<Local("a"), Local("b")>>)
RootA == Plain(<<Local("a")>>)

\* Headers that include each other; the edited texts include less.
Cyclic == Texts(Both(RootA, RootAB), Both(Plain(<<Local("b")>>), Empty),
                Both(Plain(<<Other("angled"), Local("a")>>), Empty))
\* A header that needs its includer, and one that does not.
Context == Texts(Both(RootAB, RootA), Both([Empty EXCEPT !.needs = "source"], Empty),
                 Both(Empty, [Empty EXCEPT !.needs = "source"]))
\* A helper provider that a sibling includes again.
Helper == Texts(Both(RootAB, RootAB),
                Both([Empty EXCEPT !.needs = "helper", !.pragma = "literal"],
                     [Empty EXCEPT !.needs = "helper", !.pragma = "opaque"]),
                Both(Plain(<<Local("a")>>), [Plain(<<Local("a")>>) EXCEPT !.once = FALSE]))
\* A kernel whose thread bound must be written in its header.
Policy == Texts(Both(RootAB, RootA), Both([Empty EXCEPT !.bound = TRUE], [Empty EXCEPT !.bound = TRUE]),
                Both(Empty, Empty))
\* Directives that are not local, some of them fatal.
Mixed == Texts(Both(Plain(<<Other("dpp"), Other("excluded"), Other("external"), Local("b")>>),
                    Plain(<<Other("macro"), Local("a")>>)),
               Both(Empty, Plain(<<Other("escaping")>>)), Both(Plain(<<Other("angled")>>),
               Plain(<<Other("missing"), Other("absolute"), Other("root")>>)))

MCProjects ==
    {[text |-> Cyclic, opts |-> o] :
        o \in {Default, [Default EXCEPT !.mode = "direct"], [Default EXCEPT !.standalone = TRUE],
               [Default EXCEPT !.clash = {"b"}]}}
      \cup {[text |-> Context, opts |-> o] :
        o \in {Default, [Default EXCEPT !.clash = {"a"}], [Default EXCEPT !.standard = FALSE]}}
      \cup {[text |-> Helper, opts |-> Default], [text |-> Policy, opts |-> Default]}
      \cup {[text |-> Mixed, opts |-> o] :
        o \in {[Default EXCEPT !.mode = "direct", !.inplace = TRUE, !.clash = {"root"}],
               [Default EXCEPT !.analysisOnly = TRUE]}}
=============================================================================
