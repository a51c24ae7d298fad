------------------------ MODULE LocalHeaderPlan_proofs ------------------------
(***************************************************************************)
(* Proofs about the translation of a root with its local headers, for any  *)
(* set of headers, any texts of them and any number of edits by the user:  *)
(* the type invariant, that what is published was rechecked, is closed     *)
(* under its includes, and keeps every context the root gave its headers.  *)
(*                                                                         *)
(* The first lemmas say what the operations on plans and parses do.  The   *)
(* parts of the invariant then each follow the labels: what holds while    *)
(* the root is settled, while headers are translated, before publication.  *)
(***************************************************************************)
EXTENDS LocalHeaderPlan, WellFoundedInduction, TLAPS

-----------------------------------------------------------------------------
(* The parts of the invariant. *)

\* The saved root is known where it is parsed again.
RootSaved == pc \in Contextual => saved # None

\* A plan knows its sources: the root, the selected headers, the inputs of its
\* evidence; and a redirected include names a selected header.
Sourced(p) ==
  /\ Root \in p.deps /\ Selected(p) \subseteq p.deps
  /\ \A f \in Files : p.evidence[f] # None => f \in p.deps
  /\ \A e \in p.edges : e.child \in Selected(p)

\* What the plans hold before the headers are translated.
Unsettled ==
  /\ \A h \in Headers : trial.policy[h] = None /\ trial.sealed[h] = None
  /\ pc \in Settling =>
       /\ plan.inlined = {}
       /\ \A h \in Headers : staged.header[h] = NoText /\ plan.sealed[h] = None
       /\ \A f \in Files : plan.evidence[f] = None
  /\ pc \in {"start", "discover", "parseDiscovery"} => plan.helper = {} /\ plan.source = {}

\* Whose parse is running.
MainOfParse ==
  /\ pc \in ParseLabels => parse.seen[parse.main] # None
  /\ pc \in ParseLabels \ {"parseHeader"} => parse.main = Root /\ parse.depth = 0
  /\ pc = "parseHeader" => parse.main \in Selected(plan)
  /\ pc = "parseJoint" => checking \subseteq Headers

\* The local include of h by f.
Local(f, h) == [from |-> f, kind |-> "local", child |-> h]

\* An eligible include of the parsed text is still to come or was redirected or
\* is flattened.
Covered(f, v, due, edges, inlined) ==
  \A i \in DOMAIN Text(f, v).incs :
    LET d == Text(f, v).incs[i]
    IN  d.kind = "local" =>
          \/ d.child \in inlined
          \/ [from |-> f, child |-> d.child] \in edges
          \/ \E j \in DOMAIN due : due[j] = Local(f, d.child)

InParse ==
  pc \in ParseLabels /\ (parse.main = Root \/ Opt.mode = "recursive") =>
    Covered(parse.main, parse.seen[parse.main], parse.todo, Active.edges,
            IF pc = "parseJoint" THEN checking ELSE {})

\* So a staged text has no open include.
Closed(p) ==
  /\ staged.root.version # None =>
       Covered(Root, staged.root.version, <<>>, p.edges, p.inlined)
  /\ \A h \in Headers : staged.header[h].version # None /\ Opt.mode = "recursive" =>
       Covered(h, staged.header[h].version, <<>>, p.edges, p.inlined)

StagedClosed ==
  /\ pc \in Translating => Closed(plan)
  /\ pc = "verifyContext" => Closed(trial)

\* A sealed policy is the one that was demanded, and its text the one translated.
PolicySealed ==
  /\ \A h \in Headers : plan.sealed[h] # None => plan.sealed[h] = plan.policy[h]
  /\ pc = "parseHeader" /\ plan.policy[parse.main] # None =>
       parse.seen[parse.main] = plan.policy[parse.main]

\* Only selected headers are staged.
StagedSelected ==
  pc \in Translating => \A h \in Headers : staged.header[h] # NoText => h \in Selected(plan)

\* The root of the closure is the one of the evidence or of the target, and so is
\* every header of a standalone target.
RootBound ==
  /\ pc \in {"parseOriginal", "parseJoint"} => parse.seen[Root] = saved
  /\ pc \in {"flatten", "parseJoint"} => original.seen[Root] = saved
  /\ pc \in Contextual => ~Opt.standalone
  /\ pc = "verifyContext" => staged.root.version = trial.evidence[Root]
  /\ pc \in Translating =>
       /\ plan.inlined # {} => ~Opt.standalone /\ staged.root.version = plan.evidence[Root]
       /\ Opt.standalone =>
            /\ staged.root.version = target[Root]
            /\ \A h \in Headers : staged.header[h] # NoText => staged.header[h].version = target[h]

\* Inputs that were compared were on disk after the last translation.
Rechecked ==
  /\ disk \in history
  /\ pc \in {"verifyClosure", "publish"} =>
       /\ \A f \in Files : plan.evidence[f] # None /\ (pc = "publish" \/ f \notin checking) =>
             \E s \in history : s[f] = plan.evidence[f]
       /\ Opt.standalone => \A f \in Files : target[f] # None => \E s \in history : s[f] = target[f]

\* The headers that the discovery parse saw depending on the root.
Dependent ==
  {h \in Headers :
     /\ discovery.seen[h] # None /\ Text(h, discovery.seen[h]).needs # "none"
     /\ [from |-> Root, child |-> h, skipped |-> FALSE] \in discovery.edges}

\* They are selected, contextual, flattened and inlined in turn.
DependentKept ==
  /\ pc \in {"start", "discover", "parseDiscovery"} =>
       \A i \in DOMAIN plan.nodes : plan.nodes[i].depth = 1
  /\ pc = "parseDiscovery" =>
       \A e \in parse.edges : e.from = Root => e.child \in Selected(plan)
  /\ Opt.mode = "recursive" =>
       /\ pc \in {"context", "parseOriginal"} => Dependent \subseteq plan.helper \cup plan.source
       /\ pc = "flatten" => Dependent \subseteq trial.helper \cup trial.source
       /\ pc = "parseJoint" => Dependent \subseteq checking
       /\ pc = "verifyContext" => Dependent \subseteq trial.inlined /\ staged.root.by = "parseJoint"
       /\ pc \in Translating =>
            \A h \in Dependent : h \in plan.inlined /\ staged.root.by = "parseJoint"

\* What is about to be published was validated.
Validated ==
  pc = "publish" =>
    /\ \A h \in Selected(plan) : staged.header[h] # NoText
    /\ \A e \in plan.edges :
         e.child \in (IF e.from = Root THEN staged.root ELSE staged.header[e.from]).redirects
    /\ \A h \in Headers : plan.policy[h] # None => staged.header[h].version = plan.policy[h]
    /\ ArtifactsIsolated(plan)

\* Nothing is out before the end, and what is out is right.
OutInv ==
  /\ pc # "published" => out = NoOutput
  /\ PublishedAsProved /\ OutputsClosed /\ ContextKept

-----------------------------------------------------------------------------
(* Plans and parses. *)

\* The directives of a text are include records.
LEMMA DirectivesType ==
  ASSUME project \in Projects, NEW f \in Files, NEW v \in Versions
  PROVE  /\ Text(f, v) \in SourceTexts
         /\ Directives(f, v) \in Seq(Includes)
         /\ DOMAIN Directives(f, v) = DOMAIN Text(f, v).incs
         /\ \A i \in DOMAIN Text(f, v).incs :
              /\ Text(f, v).incs[i] \in [kind : Kinds \ {"inlined"}, child : Headers]
              /\ Directives(f, v)[i].from = f
              /\ Directives(f, v)[i].kind = Text(f, v).incs[i].kind
              /\ Directives(f, v)[i].child = Text(f, v).incs[i].child
<1>1. Text(f, v) \in SourceTexts
  BY ProjectsAssumption DEF Text
<1> DEFINE incs == Text(f, v).incs
           Incs == [kind : Kinds \ {"inlined"}, child : Headers]
<1>2. incs \in Seq(Incs)
  BY <1>1 DEF SourceTexts
<1> HIDE DEF incs, Incs
<1>3. \A i \in DOMAIN incs : incs[i] \in Incs
  BY <1>2
<1>4. /\ DOMAIN Directives(f, v) = DOMAIN incs
      /\ \A i \in DOMAIN incs :
           Directives(f, v)[i] = [from |-> f, kind |-> incs[i].kind, child |-> incs[i].child]
  BY DEF Directives, incs
<1>5. Directives(f, v) \in Seq(Includes)
  <2>1. \A i \in DOMAIN incs : Directives(f, v)[i] \in Includes
    BY <1>3, <1>4 DEF Includes, Incs
  <2>2. PICK n \in Nat : DOMAIN incs = 1..n
    BY <1>2
  <2>3. Directives(f, v) = [i \in 1..n |-> Directives(f, v)[i]]
    BY <2>2 DEF Directives, incs
  <2> QED
    BY <1>4, <2>1, <2>2, <2>3
<1>6. \A i \in DOMAIN incs : /\ Directives(f, v)[i].from = f
                             /\ Directives(f, v)[i].kind = incs[i].kind
                             /\ Directives(f, v)[i].child = incs[i].child
  BY <1>4
<1> QED
  BY <1>1, <1>3, <1>4, <1>5, <1>6 DEF incs, Incs

\* So are those of the flattened root: the same, but for the flattened headers.
LEMMA FlattenedType ==
  ASSUME project \in Projects, NEW v \in Versions, NEW S \in SUBSET Headers
  PROVE  /\ Flattened(v, S) \in Seq(Includes)
         /\ DOMAIN Flattened(v, S) = DOMAIN Text(Root, v).incs
         /\ \A i \in DOMAIN Text(Root, v).incs :
              Text(Root, v).incs[i].child \notin S => Flattened(v, S)[i] = Directives(Root, v)[i]
<1> DEFINE D == Directives(Root, v)
<1>1. /\ D \in Seq(Includes) /\ DOMAIN D = DOMAIN Text(Root, v).incs
      /\ \A i \in DOMAIN D : D[i].child = Text(Root, v).incs[i].child
  BY DirectivesType DEF Files
<1>2. /\ DOMAIN Flattened(v, S) = DOMAIN D
      /\ \A i \in DOMAIN D :
           Flattened(v, S)[i] = IF D[i].child \in S THEN [D[i] EXCEPT !.kind = "inlined"] ELSE D[i]
  BY DEF Flattened
<1> HIDE DEF D
<1>3. \A i \in DOMAIN D : Flattened(v, S)[i] \in Includes
  <2> SUFFICES ASSUME NEW i \in DOMAIN D PROVE Flattened(v, S)[i] \in Includes
    OBVIOUS
  <2>1. D[i] \in Includes
    BY <1>1
  <2>2. [D[i] EXCEPT !.kind = "inlined"] \in Includes
    BY <2>1 DEF Includes, Kinds
  <2> QED
    BY <1>2, <2>1, <2>2
<1>4. PICK n \in Nat : DOMAIN D = 1..n
  BY <1>1
<1>5. Flattened(v, S) = [i \in 1..n |-> Flattened(v, S)[i]]
  BY <1>4 DEF Flattened, D
<1> QED
  BY <1>1, <1>2, <1>3, <1>4, <1>5 DEF D

\* An include directive adds to a plan and keeps it in order.
LEMMA ObserveShape ==
  ASSUME NEW p \in Plans, NEW from \in Files, NEW depth \in Nat, NEW d \in Includes
  PROVE  LET q == ObserveInclude(p, from, depth, d)
         IN  /\ q \in Plans
             /\ q.helper = p.helper /\ q.source = p.source /\ q.policy = p.policy
             /\ q.sealed = p.sealed /\ q.inlined = p.inlined /\ q.evidence = p.evidence
             /\ p.edges \subseteq q.edges /\ Selected(p) \subseteq Selected(q)
             /\ \A i \in DOMAIN q.nodes :
                  (i \in DOMAIN p.nodes /\ q.nodes[i] = p.nodes[i]) \/ q.nodes[i].depth = depth + 1
             /\ d.kind = "local" /\ (depth = 0 \/ Opt.mode = "recursive") =>
                  [from |-> from, child |-> d.child] \in q.edges /\ d.child \in Selected(q)
             /\ Sourced(p) => Sourced(q)
<1> DEFINE q == ObserveInclude(p, from, depth, d)
           known == [p EXCEPT !.deps = @ \cup {d.child}]
           node == [src |-> d.child, depth |-> depth + 1, state |-> "discovered"]
           edge == [from |-> from, child |-> d.child]
<1>0. /\ d.child \in Headers /\ d.child \in Files /\ node \in Nodes /\ edge \in Edges
      /\ p.nodes \in Seq(Nodes)
  BY DEF Includes, Files, Nodes, Edges, NodeStates, Plans
<1>k. /\ known \in Plans /\ known.nodes = p.nodes /\ known.edges = p.edges
      /\ known.deps = p.deps \cup {d.child}
      /\ known.helper = p.helper /\ known.source = p.source /\ known.policy = p.policy
      /\ known.sealed = p.sealed /\ known.inlined = p.inlined /\ known.evidence = p.evidence
  <2>1. known \in Plans
    BY <1>0 DEF Plans
  <2> QED
    BY <2>1 DEF Plans
<1> DEFINE Same == /\ q.helper = p.helper /\ q.source = p.source /\ q.policy = p.policy
                   /\ q.sealed = p.sealed /\ q.inlined = p.inlined /\ q.evidence = p.evidence
<1>1. CASE d.kind # "local"
  <2>1. q = p \/ q = Fail(p)
    BY <1>1 DEF ObserveInclude, Fail
  <2>2. q \in Plans /\ q.nodes = p.nodes /\ q.edges = p.edges /\ q.deps = p.deps /\ Same
    BY <2>1 DEF Fail, Plans
  <2> QED
    BY <1>1, <2>2 DEF Selected, Sourced
<1>2. CASE d.kind = "local" /\ ~Found(p, d.child) /\ depth > 0 /\ Opt.mode # "recursive"
  <2>1. q = known
    BY <1>2 DEF ObserveInclude
  <2> HIDE DEF known, q
  <2>2. q \in Plans /\ q.nodes = p.nodes /\ q.edges = p.edges /\ Same
        /\ q.deps = p.deps \cup {d.child}
    BY <1>k, <2>1
  <2>3. Selected(q) = Selected(p)
    BY <2>2 DEF Selected
  <2>4. Sourced(p) => Sourced(q)
    BY <2>2, <2>3 DEF Sourced
  <2> QED
    BY <1>2, <2>2, <2>3, <2>4 DEF q
<1>3. CASE d.kind = "local" /\ Found(p, d.child)
  <2>1. q = [known EXCEPT !.edges = @ \cup {edge}, !.nodes = @]
    BY <1>3 DEF ObserveInclude
  <2> HIDE DEF known, q, node, edge
  <2>a. p.edges \cup {edge} \in SUBSET Edges
    BY <1>0 DEF Plans
  <2>b. q \in Plans
    BY <1>k, <2>1, <2>a DEF Plans
  <2>2. q \in Plans /\ q.nodes = p.nodes /\ q.edges = p.edges \cup {edge} /\ Same
        /\ q.deps = p.deps \cup {d.child}
    BY <1>k, <2>1, <2>b DEF Plans
  <2>3. d.child \in Selected(q)
    BY <1>3, <2>2 DEF Found, Selected
  <2>4. Selected(q) = Selected(p)
    BY <2>2 DEF Selected
  <2>5. Sourced(p) => Sourced(q)
    BY <2>2, <2>3, <2>4 DEF Sourced, edge
  <2>6. edge \in q.edges
    BY <2>2
  <2> QED
    BY <2>2, <2>3, <2>4, <2>5, <2>6 DEF q, edge
<1>4. CASE /\ d.kind = "local" /\ ~Found(p, d.child)
           /\ ~(depth > 0 /\ Opt.mode # "recursive")
  <2>1. q = [known EXCEPT !.edges = @ \cup {edge}, !.nodes = Append(@, node)]
    BY <1>4 DEF ObserveInclude
  <2>2. Append(p.nodes, node) \in Seq(Nodes)
    BY <1>0
  <2> HIDE DEF known, q, node, edge
  <2>a. p.edges \cup {edge} \in SUBSET Edges
    BY <1>0 DEF Plans
  <2>b. q \in Plans
    BY <1>k, <2>1, <2>2, <2>a DEF Plans
  <2>3. q \in Plans /\ q.nodes = Append(p.nodes, node) /\ q.edges = p.edges \cup {edge} /\ Same
        /\ q.deps = p.deps \cup {d.child}
    BY <1>k, <2>1, <2>b DEF Plans
  <2>4. /\ DOMAIN q.nodes = DOMAIN p.nodes \cup {Len(p.nodes) + 1}
        /\ \A i \in DOMAIN p.nodes : q.nodes[i] = p.nodes[i]
        /\ q.nodes[Len(p.nodes) + 1] = node
        /\ Len(p.nodes) + 1 \notin DOMAIN p.nodes
    BY <1>0, <2>3
  <2>5. Selected(q) = Selected(p) \cup {d.child}
    BY <2>4 DEF Selected, node
  <2>6. node.depth = depth + 1
    BY DEF node
  <2>7. Sourced(p) => Sourced(q)
    BY <2>3, <2>5 DEF Sourced, edge
  <2>8. edge \in q.edges
    BY <2>3
  <2>9. \A i \in DOMAIN q.nodes :
          (i \in DOMAIN p.nodes /\ q.nodes[i] = p.nodes[i]) \/ q.nodes[i].depth = depth + 1
    BY <2>4, <2>6
  <2> QED
    BY <2>3, <2>5, <2>7, <2>8, <2>9 DEF q, edge
<1> QED
  BY <1>1, <1>2, <1>3, <1>4

\* A directive of a running parse keeps what it has seen; it comes off the list,
\* and the directives of the text it enters go on it.
LEMMA DirectiveShape ==
  ASSUME TypeOK, parse.todo # <<>>
  PROVE  LET d == Head(parse.todo)  q == AfterDirective(d)
         IN  /\ d \in Includes /\ q \in Parses
             /\ q.main = parse.main /\ q.depth = parse.depth /\ q.rootOnDisk = parse.rootOnDisk
             /\ \A f \in Files : parse.seen[f] # None => q.seen[f] = parse.seen[f]
             /\ \A j \in DOMAIN parse.todo :
                  parse.todo[j] = d \/ \E k \in DOMAIN q.todo : q.todo[k] = parse.todo[j]
             /\ parse.edges \subseteq q.edges
             /\ \A e \in q.edges \ parse.edges :
                  d.kind = "local" /\ e.from = d.from /\ e.child = d.child
<1> DEFINE d == Head(parse.todo)
           q == AfterDirective(d)
           rest == Tail(parse.todo)
           again == parse.seen[d.child] # None
           version == IF again THEN parse.seen[d.child] ELSE disk[d.child]
           skipped == again /\ Text(d.child, version).once
           edge == [from |-> d.from, child |-> d.child, skipped |-> skipped]
<1>1. /\ parse \in Parses /\ original \in Parses /\ project \in Projects
      /\ disk \in [Files -> Versions]
  BY DEF TypeOK
<1>2. parse.todo \in Seq(Includes)
  BY <1>1 DEF Parses
<1>3. d \in Includes /\ rest \in Seq(Includes)
  BY <1>2
<1>4. \A j \in DOMAIN parse.todo :
        parse.todo[j] = d \/ \E k \in DOMAIN rest : rest[k] = parse.todo[j]
  <2> SUFFICES ASSUME NEW j \in DOMAIN parse.todo, parse.todo[j] # d
               PROVE  \E k \in DOMAIN rest : rest[k] = parse.todo[j]
    OBVIOUS
  <2>1. j \in 2..Len(parse.todo)
    BY <1>2
  <2>2. j - 1 \in DOMAIN rest /\ rest[j - 1] = parse.todo[j]
    BY <1>2, <2>1
  <2> QED
    BY <2>2
<1>5. d.child \in Headers /\ d.child \in Files /\ d.from \in Files
  BY <1>3 DEF Includes, Files
<1>6. /\ parse.seen \in [Files -> Known] /\ original.seen \in [Files -> Known]
      /\ parse.edges \subseteq Entered /\ parse.stream \in Seq(Files \X Known)
  BY <1>1 DEF Parses
<1>7. version \in Versions
  BY <1>1, <1>5, <1>6 DEF Known
<1>8. skipped \in BOOLEAN
  <2>1. Text(d.child, version) \in SourceTexts
    BY <1>1, <1>5, <1>7, DirectivesType
  <2> QED
    BY <2>1 DEF SourceTexts
<1>9. edge \in Entered
  BY <1>5, <1>8 DEF Entered
<1>r. /\ [parse EXCEPT !.todo = rest] \in Parses
      /\ [parse EXCEPT !.todo = rest].main = parse.main
      /\ [parse EXCEPT !.todo = rest].depth = parse.depth
      /\ [parse EXCEPT !.todo = rest].todo = rest
      /\ [parse EXCEPT !.todo = rest].stream = parse.stream
      /\ [parse EXCEPT !.todo = rest].seen = parse.seen
      /\ [parse EXCEPT !.todo = rest].edges = parse.edges
      /\ [parse EXCEPT !.todo = rest].rootOnDisk = parse.rootOnDisk
  <2> HIDE DEF rest
  <2>1. [parse EXCEPT !.todo = rest] \in Parses
    BY <1>1, <1>3 DEF Parses
  <2> QED
    BY <1>1, <2>1 DEF Parses
<1> DEFINE base == [parse EXCEPT !.todo = rest]
<1> HIDE DEF d, version, skipped, again, rest, base
<1>10. CASE d.kind = "inlined"
  <2>1. q = [base EXCEPT
               !.stream = Append(@, <<d.child, original.seen[d.child]>>)]
    BY <1>10 DEF AfterDirective, base, rest, d
  <2>2. Append(parse.stream, <<d.child, original.seen[d.child]>>) \in Seq(Files \X Known)
    BY <1>5, <1>6
  <2> HIDE DEF q
  <2>a. q \in Parses
    BY <1>r, <2>1, <2>2 DEF base, Parses
  <2>3. /\ q \in Parses /\ q.main = parse.main /\ q.depth = parse.depth /\ q.todo = rest
        /\ q.rootOnDisk = parse.rootOnDisk /\ q.seen = parse.seen /\ q.edges = parse.edges
    BY <1>r, <2>1, <2>a DEF base, Parses
  <2>8. \A j \in DOMAIN parse.todo :
          parse.todo[j] = d \/ \E k \in DOMAIN q.todo : q.todo[k] = parse.todo[j]
    BY <1>4, <2>3
  <2>9. \A e \in q.edges \ parse.edges :
          d.kind = "local" /\ e.from = d.from /\ e.child = d.child
    BY <2>3 DEF edge
  <2> QED
    BY <1>3, <2>3, <2>8, <2>9 DEF q, d
<1>11. CASE d.kind = "local" /\ skipped
  <2>1. q = [base EXCEPT !.edges = @ \cup {edge}]
    BY <1>11 DEF AfterDirective, base, rest, skipped, again, version, d
  <2> HIDE DEF q, edge
  <2>a. base.edges \cup {edge} \in SUBSET Entered
    BY <1>r, <1>6, <1>9 DEF base
  <2>b. q \in Parses
    BY <1>r, <2>1, <2>a DEF base, Parses
  <2>2. /\ q \in Parses /\ q.main = parse.main /\ q.depth = parse.depth /\ q.todo = rest
        /\ q.rootOnDisk = parse.rootOnDisk /\ q.seen = parse.seen
        /\ q.edges = parse.edges \cup {edge}
    BY <1>r, <2>1, <2>b DEF base, Parses
  <2>8. \A j \in DOMAIN parse.todo :
          parse.todo[j] = d \/ \E k \in DOMAIN q.todo : q.todo[k] = parse.todo[j]
    BY <1>4, <2>2
  <2>9. \A e \in q.edges \ parse.edges :
          d.kind = "local" /\ e.from = d.from /\ e.child = d.child
    BY <1>11, <2>2 DEF edge
  <2> QED
    BY <1>3, <2>2, <2>8, <2>9 DEF q, d
<1>12. CASE d.kind = "local" /\ ~skipped
  <2> DEFINE more == Directives(d.child, version)
  <2>1. q = [base EXCEPT
               !.edges = @ \cup {edge}, !.seen[d.child] = version,
               !.stream = Append(@, <<d.child, version>>), !.todo = more \o @]
    BY <1>12 DEF AfterDirective, base, rest, skipped, again, version, d
  <2>2. more \in Seq(Includes)
    BY <1>1, <1>5, <1>7, DirectivesType
  <2> HIDE DEF more
  <2>3. more \o rest \in Seq(Includes)
    BY <1>3, <2>2
  <2>4. Append(parse.stream, <<d.child, version>>) \in Seq(Files \X Known)
    BY <1>5, <1>6, <1>7 DEF Known
  <2>5. [parse.seen EXCEPT ![d.child] = version] \in [Files -> Known]
    BY <1>6, <1>7 DEF Known
  <2> HIDE DEF q, edge
  <2>a. base.edges \cup {edge} \in SUBSET Entered
    BY <1>r, <1>6, <1>9 DEF base
  <2>b. q = [base EXCEPT !.edges = base.edges \cup {edge},
                         !.seen = [parse.seen EXCEPT ![d.child] = version],
                         !.stream = Append(parse.stream, <<d.child, version>>),
                         !.todo = more \o rest]
    BY <1>r, <2>1 DEF base
  <2>c. q \in Parses
    BY <1>r, <2>3, <2>4, <2>5, <2>a, <2>b DEF base, Parses
  <2>6. /\ q \in Parses /\ q.main = parse.main /\ q.depth = parse.depth /\ q.todo = more \o rest
        /\ q.rootOnDisk = parse.rootOnDisk /\ q.seen = [parse.seen EXCEPT ![d.child] = version]
        /\ q.edges = parse.edges \cup {edge}
    BY <1>r, <2>b, <2>c DEF base, Parses
  <2>7. \A f \in Files : parse.seen[f] # None => q.seen[f] = parse.seen[f]
    BY <1>6, <2>6 DEF version, again
  <2>8. \A k \in DOMAIN rest : Len(more) + k \in DOMAIN q.todo /\ q.todo[Len(more) + k] = rest[k]
    BY <1>3, <2>2, <2>6
  <2>9. \A j \in DOMAIN parse.todo :
          parse.todo[j] = d \/ \E k \in DOMAIN q.todo : q.todo[k] = parse.todo[j]
    BY <1>4, <2>8
  <2>10. \A e \in q.edges \ parse.edges :
           d.kind = "local" /\ e.from = d.from /\ e.child = d.child
    BY <1>12, <2>6 DEF edge
  <2> QED
    BY <1>3, <2>6, <2>7, <2>9, <2>10 DEF q, d
<1>13. CASE d.kind \notin {"inlined", "local"}
  <2>1. q = [parse EXCEPT !.todo = rest]
    BY <1>13 DEF AfterDirective, rest, d
  <2>2. /\ q \in Parses /\ q.main = parse.main /\ q.depth = parse.depth /\ q.todo = rest
        /\ q.rootOnDisk = parse.rootOnDisk /\ q.seen = parse.seen /\ q.edges = parse.edges
    BY <1>1, <1>3, <2>1 DEF Parses
  <2> QED
    BY <1>3, <1>4, <2>2 DEF d
<1> QED
  BY <1>10, <1>11, <1>12, <1>13 DEF d

\* The fields of a plan that no include directive changes.
Kept(p, q) ==
  /\ q.helper = p.helper /\ q.source = p.source /\ q.policy = p.policy
  /\ q.sealed = p.sealed /\ q.inlined = p.inlined /\ q.evidence = p.evidence

\* A failed plan is the same plan, failed.
LEMMA FailShape ==
  ASSUME NEW p \in Plans
  PROVE  /\ Fail(p) \in Plans /\ Kept(p, Fail(p)) /\ Fail(p).nodes = p.nodes
         /\ Fail(p).edges = p.edges /\ Fail(p).deps = p.deps /\ Fail(p).failed
<1>1. Fail(p) \in Plans
  BY DEF Fail, Plans
<1> QED
  BY <1>1 DEF Fail, Plans, Kept

\* requireInheritedHelperContext and requireInheritedSourceContext only add
\* selected root headers, in recursive mode.
LEMMA RequireContextShape ==
  ASSUME NEW p \in Plans, NEW helper \in SUBSET Headers, NEW source \in SUBSET Headers
  PROVE  LET q == RequireContext(p, helper, source)
         IN  /\ q \in Plans /\ q.nodes = p.nodes /\ q.edges = p.edges /\ q.deps = p.deps
             /\ q.failed = p.failed /\ q.policy = p.policy /\ q.sealed = p.sealed
             /\ q.inlined = p.inlined /\ q.evidence = p.evidence
             /\ Opt.mode = "recursive" =>
                  \A h \in Headers : IsSelectedRootHeader(p, h) =>
                    (h \in helper => h \in q.helper) /\ (h \in source => h \in q.source)
<1> DEFINE q == RequireContext(p, helper, source)
           H == p.helper \cup {h \in helper : IsSelectedRootHeader(p, h)}
           S == p.source \cup {h \in source : IsSelectedRootHeader(p, h)}
<1>1. CASE Opt.mode # "recursive"
  BY <1>1 DEF RequireContext
<1>2. CASE Opt.mode = "recursive"
  <2>1. q = [p EXCEPT !.helper = H, !.source = S]
    BY <1>2 DEF RequireContext
  <2>2. H \in SUBSET Headers /\ S \in SUBSET Headers
    BY DEF Plans
  <2>3. \A h \in Headers : IsSelectedRootHeader(p, h) =>
                    (h \in helper => h \in H) /\ (h \in source => h \in S)
    OBVIOUS
  <2> HIDE DEF q, H, S
  <2>4. q \in Plans
    BY <2>1, <2>2 DEF Plans
  <2>5. /\ q.nodes = p.nodes /\ q.edges = p.edges /\ q.deps = p.deps
        /\ q.failed = p.failed /\ q.policy = p.policy /\ q.sealed = p.sealed
        /\ q.inlined = p.inlined /\ q.evidence = p.evidence
        /\ q.helper = H /\ q.source = S
    BY <2>1 DEF Plans
  <2> QED
    BY <2>3, <2>4, <2>5 DEF q
<1> QED
  BY <1>1, <1>2

\* requireKernelThreadBoundPolicy only sets policies, to versions that were seen.
LEMMA RequirePolicyShape ==
  ASSUME NEW p \in Plans, NEW seen \in [Files -> Known], NEW bound \in SUBSET Headers
  PROVE  LET q == RequirePolicy(p, seen, bound)
         IN  /\ q \in Plans /\ q.nodes = p.nodes /\ q.edges = p.edges /\ q.deps = p.deps
             /\ q.helper = p.helper /\ q.source = p.source /\ q.sealed = p.sealed
             /\ q.inlined = p.inlined /\ q.evidence = p.evidence
<1> DEFINE q == RequirePolicy(p, seen, bound)
           policy == [h \in Headers |-> IF h \in bound THEN seen[h] ELSE p.policy[h]]
<1>1. CASE q = Fail(p)
  BY <1>1, FailShape DEF Kept
<1>2. CASE q # Fail(p)
  <2>1. q = [p EXCEPT !.policy = policy]
    BY <1>2 DEF RequirePolicy
  <2>2. policy \in [Headers -> Known]
    BY DEF Plans, Files
  <2> HIDE DEF q, policy
  <2>3. q \in Plans
    BY <2>1, <2>2 DEF Plans
  <2>4. /\ q.nodes = p.nodes /\ q.edges = p.edges /\ q.deps = p.deps
        /\ q.helper = p.helper /\ q.source = p.source /\ q.sealed = p.sealed
        /\ q.inlined = p.inlined /\ q.evidence = p.evidence
    BY <2>1 DEF Plans
  <2> QED
    BY <2>3, <2>4 DEF q
<1> QED
  BY <1>1, <1>2

\* sealKernelThreadBoundPolicies fails or seals the translated text, where a
\* policy asks for it.
LEMMA SealShape ==
  ASSUME NEW p \in Plans, NEW h \in Headers, NEW version \in Known,
         ~SealPolicies(p, h, version, p.policy[h] # None).failed
  PROVE  LET q == SealPolicies(p, h, version, p.policy[h] # None)
         IN  /\ q \in Plans /\ q.nodes = p.nodes /\ q.edges = p.edges /\ q.deps = p.deps
             /\ q.helper = p.helper /\ q.source = p.source /\ q.policy = p.policy
             /\ q.inlined = p.inlined /\ q.evidence = p.evidence
             /\ \A g \in Headers :
                  q.sealed[g] = IF g = h /\ p.policy[h] # None THEN version ELSE p.sealed[g]
<1> DEFINE q == SealPolicies(p, h, version, p.policy[h] # None)
<1>1. CASE p.policy[h] = None
  BY <1>1 DEF SealPolicies
<1>2. CASE p.policy[h] # None
  <2>1. q = [p EXCEPT !.sealed[h] = version]
    BY <1>2, FailShape DEF SealPolicies
  <2>2. p.sealed \in [Headers -> Known]
    BY DEF Plans
  <2> HIDE DEF q
  <2>3. q = [p EXCEPT !.sealed = [p.sealed EXCEPT ![h] = version]]
    BY <2>1
  <2>4. [p.sealed EXCEPT ![h] = version] \in [Headers -> Known]
    BY <2>2
  <2>5. q \in Plans
    BY <2>3, <2>4 DEF Plans
  <2>6. /\ q.nodes = p.nodes /\ q.edges = p.edges /\ q.deps = p.deps
        /\ q.helper = p.helper /\ q.source = p.source /\ q.policy = p.policy
        /\ q.inlined = p.inlined /\ q.evidence = p.evidence
        /\ q.sealed = [p.sealed EXCEPT ![h] = version]
    BY <2>3 DEF Plans
  <2> QED
    BY <1>2, <2>2, <2>5, <2>6 DEF q
<1> QED
  BY <1>1, <1>2

\* Marking a node changes its state and nothing else.
LEMMA MarkShape ==
  ASSUME NEW p \in Plans, NEW i, NEW state \in NodeStates
  PROVE  LET q == Mark(p, i, state)
         IN  /\ q \in Plans /\ Kept(p, q) /\ q.edges = p.edges /\ q.deps = p.deps
             /\ q.failed = p.failed /\ Selected(q) = Selected(p)
<1> DEFINE q == Mark(p, i, state)
           nodes == [p.nodes EXCEPT ![i].state = state]
<1>1. q = [p EXCEPT !.nodes = nodes]
  BY DEF Mark
<1>2. p.nodes \in Seq(Nodes)
  BY DEF Plans
<1>3. \A j \in DOMAIN p.nodes : p.nodes[j] \in Nodes /\ nodes[j].src = p.nodes[j].src
  <2> SUFFICES ASSUME NEW j \in DOMAIN p.nodes
               PROVE  p.nodes[j] \in Nodes /\ nodes[j].src = p.nodes[j].src
    OBVIOUS
  <2>1. p.nodes[j] \in Nodes
    BY <1>2
  <2>2. nodes[j] = IF j = i THEN [p.nodes[j] EXCEPT !.state = state] ELSE p.nodes[j]
    OBVIOUS
  <2> QED
    BY <2>1, <2>2 DEF Nodes
<1>4. DOMAIN nodes = DOMAIN p.nodes
  OBVIOUS
<1>5. nodes \in Seq(Nodes)
  <2>1. \A j \in DOMAIN p.nodes : nodes[j] \in Nodes
    <3> SUFFICES ASSUME NEW j \in DOMAIN p.nodes PROVE nodes[j] \in Nodes
      OBVIOUS
    <3>1. nodes[j] = IF j = i THEN [p.nodes[j] EXCEPT !.state = state] ELSE p.nodes[j]
      OBVIOUS
    <3> QED
      BY <1>3, <3>1 DEF Nodes
  <2>2. PICK n \in Nat : DOMAIN p.nodes = 1..n
    BY <1>2
  <2>3. nodes = [j \in 1..n |-> nodes[j]]
    BY <2>2
  <2> HIDE DEF nodes
  <2> QED
    BY <1>4, <2>1, <2>2, <2>3
<1> HIDE DEF q, nodes
<1>6. q \in Plans
  BY <1>1, <1>5 DEF Plans
<1>7. /\ Kept(p, q) /\ q.edges = p.edges /\ q.deps = p.deps /\ q.failed = p.failed
      /\ q.nodes = nodes
  BY <1>1 DEF Plans, Kept
<1>8. Selected(q) = Selected(p)
  BY <1>3, <1>4, <1>7 DEF Selected
<1> QED
  BY <1>6, <1>7, <1>8 DEF q

\* retainContextEvidence sets the evidence and what is inlined, and depends on it.
LEMMA RetainShape ==
  ASSUME NEW p \in Plans, NEW seen \in [Files -> Known], NEW S \in SUBSET Headers
  PROVE  LET q == RetainContext(p, seen, S)
         IN  /\ q \in Plans /\ q.nodes = p.nodes /\ q.edges = p.edges /\ q.failed = p.failed
             /\ q.helper = p.helper /\ q.source = p.source /\ q.policy = p.policy
             /\ q.sealed = p.sealed /\ q.inlined = S /\ q.evidence = seen
             /\ q.deps = p.deps \cup {f \in Files : seen[f] # None}
<1> DEFINE q == RetainContext(p, seen, S)
           deps == p.deps \cup {f \in Files : seen[f] # None}
<1>1. q = [p EXCEPT !.evidence = seen, !.inlined = S, !.deps = deps]
  BY DEF RetainContext
<1>2. deps \in SUBSET Files
  BY DEF Plans
<1> HIDE DEF q, deps
<1>3. q \in Plans
  BY <1>1, <1>2 DEF Plans
<1>4. /\ q.nodes = p.nodes /\ q.edges = p.edges /\ q.failed = p.failed
      /\ q.helper = p.helper /\ q.source = p.source /\ q.policy = p.policy
      /\ q.sealed = p.sealed /\ q.inlined = S /\ q.evidence = seen /\ q.deps = deps
  BY <1>1 DEF Plans
<1> QED
  BY <1>3, <1>4 DEF q, deps

\* A fresh plan has nothing but the root.
LEMMA FreshShape == FreshPlan \in Plans /\ Sourced(FreshPlan)
<1>1. FreshPlan \in Plans
  BY DEF FreshPlan, Plans, Known, Files
<1> QED
  BY <1>1 DEF FreshPlan, Sourced, Selected

\* A new parse has read its main file and no other.
LEMMA NewParseShape ==
  ASSUME disk \in [Files -> Versions], NEW f \in Files, NEW depth \in Nat, NEW v \in Known,
         NEW todo \in Seq(Includes)
  PROVE  LET q == NewParse(f, depth, v, todo)
         IN  /\ q \in Parses /\ q.main = f /\ q.depth = depth /\ q.todo = todo
             /\ q.seen[f] = v /\ q.edges = {}
<1>1. \A q : q = NewParse(f, depth, v, todo) =>
        /\ q.main = f /\ q.depth = depth /\ q.todo = todo /\ q.edges = {}
        /\ q.stream = <<<<f, v>>>> /\ q.rootOnDisk = disk[Root]
        /\ q.seen = [g \in Files |-> IF g = f THEN v ELSE None]
  BY DEF NewParse
<1>2. <<<<f, v>>>> \in Seq(Files \X Known) /\ disk[Root] \in Known
  BY DEF Known, Files
<1>3. [g \in Files |-> IF g = f THEN v ELSE None] \in [Files -> Known]
  BY DEF Known
<1>4. NewParse(f, depth, v, todo) \in Parses
  BY <1>2, <1>3 DEF NewParse, Parses
<1> QED
  BY <1>1, <1>4

\* No parse is a parse without a text.
LEMMA NoParseType == NoParse \in Parses
BY DEF NoParse, Parses, Known, Files, Includes

\* A staged text is the translated main file, and redirects what its edges say.
LEMMA TranslationShape ==
  ASSUME TypeOK, pc \in ParseLabels, NEW p \in Plans, NEW text \in Translations(p)
  PROVE  /\ text \in Stagings
         /\ text.version = parse.seen[parse.main] /\ text.by = pc
<1>1. parse \in Parses /\ p.edges \in SUBSET Edges
  BY DEF TypeOK, Plans
<1>2. parse.seen[parse.main] \in Known
  BY <1>1 DEF Parses
<1> DEFINE redirects == {e.child : e \in {f \in p.edges : f.from = parse.main}}
<1>3. redirects \subseteq Headers
  BY <1>1 DEF Edges
<1>4. PICK kept \in {redirects} \cup {redirects \ {h} : h \in redirects} :
        text = [version |-> parse.seen[parse.main], by |-> pc, redirects |-> kept]
  BY DEF Translations
<1>5. kept \in SUBSET Headers
  BY <1>3, <1>4
<1> QED
  BY <1>2, <1>4, <1>5 DEF Stagings

-----------------------------------------------------------------------------
(* What the actions with a plan or a parse do.                             *)

\* What an include directive does to a plan.
Grown(p, q) ==
  /\ q \in Plans /\ Kept(p, q) /\ p.edges \subseteq q.edges
  /\ Selected(p) \subseteq Selected(q) /\ (Sourced(p) => Sourced(q))

\* The staging directory.
Stages == [root : Stagings, header : [Headers -> Stagings]]

\* A directive grows the plan of the running parse and takes the parse a step on.
LEMMA DirectiveEffect ==
  ASSUME TypeOK, Directive
  PROVE  LET d == Head(parse.todo)
         IN  /\ pc \in ParseLabels /\ parse.todo # <<>>
             /\ parse' = AfterDirective(d)
             /\ Grown(plan, plan') /\ Grown(trial, trial')
             /\ Active' = IF d.from = parse.main
                          THEN ObserveInclude(Active, d.from, parse.depth, d) ELSE Active
             /\ pc \in {"parseOriginal", "parseJoint"} => plan' = plan
             /\ pc \notin {"parseOriginal", "parseJoint"} => trial' = trial
             /\ UNCHANGED <<disk, edits, pc, project, saved, discovery, original, staged,
                            target, checking, out, history>>
<1> DEFINE d == Head(parse.todo)
           next == IF d.from = parse.main THEN ObserveInclude(Active, d.from, parse.depth, d)
                   ELSE Active
<1>1. d \in Includes
  BY DirectiveShape DEF Directive
<1>2. /\ plan \in Plans /\ trial \in Plans /\ Active \in Plans
      /\ parse.depth \in Nat /\ d.from \in Files
  BY <1>1 DEF TypeOK, Parses, Includes, Active
<1>3. \A p \in Plans : Grown(p, p)
  BY DEF Grown, Kept
<1>4. Grown(Active, next)
  <2>1. CASE d.from = parse.main
    <3>1. next = ObserveInclude(Active, d.from, parse.depth, d)
      BY <2>1
    <3>2. ASSUME NEW p \in Plans, NEW from \in Files, NEW depth \in Nat, NEW c \in Includes
          PROVE  Grown(p, ObserveInclude(p, from, depth, c))
      <4> DEFINE q == ObserveInclude(p, from, depth, c)
      <4>1. /\ q \in Plans
            /\ q.helper = p.helper /\ q.source = p.source /\ q.policy = p.policy
            /\ q.sealed = p.sealed /\ q.inlined = p.inlined /\ q.evidence = p.evidence
            /\ p.edges \subseteq q.edges /\ Selected(p) \subseteq Selected(q)
            /\ Sourced(p) => Sourced(q)
        BY ObserveShape
      <4> HIDE DEF q
      <4>2. Grown(p, q)
        BY <4>1 DEF Grown, Kept
      <4> QED
        BY <4>2 DEF q
    <3> HIDE DEF d, next
    <3> QED
      BY <1>1, <1>2, <3>1, <3>2
  <2>2. CASE d.from # parse.main
    BY <1>2, <1>3, <2>2
  <2> QED
    BY <2>1, <2>2
<1>5. /\ pc \in ParseLabels /\ parse.todo # <<>> /\ parse' = AfterDirective(d)
      /\ UNCHANGED <<disk, edits, pc, project, saved, discovery, original, staged,
                     target, checking, out, history>>
      /\ IF pc \in {"parseOriginal", "parseJoint"}
         THEN trial' = next /\ plan' = plan ELSE plan' = next /\ trial' = trial
  BY DEF Directive
<1> HIDE DEF next
<1>6. Active' = next
  BY <1>5 DEF Active
<1>7. Grown(plan, plan') /\ Grown(trial, trial')
  BY <1>2, <1>3, <1>4, <1>5 DEF Active
<1> QED
  BY <1>5, <1>6, <1>7 DEF next

\* What the discovery parse asks for, and what it leaves.
LEMMA FinishDiscoveryEffect ==
  ASSUME TypeOK, FinishDiscovery, plan.helper = {}, plan.source = {}
  PROVE  /\ pc = "parseDiscovery" /\ parse.todo = <<>> /\ parse' = NoParse
         /\ UNCHANGED <<disk, edits, project, saved, trial, original, checking, out, history>>
         /\ plan' \in Plans /\ plan'.nodes = plan.nodes /\ plan'.edges = plan.edges
         /\ plan'.deps = plan.deps /\ plan'.sealed = plan.sealed
         /\ plan'.inlined = plan.inlined /\ plan'.evidence = plan.evidence
         /\ Opt.mode = "recursive" =>
              \A h \in Headers :
                (IsSelectedRootHeader(plan, h) /\ parse.seen[h] # None
                 /\ Text(h, parse.seen[h]).needs # "none")
                  => h \in plan'.helper \cup plan'.source
         /\ discovery' \in Parses
         /\ discovery'.seen = parse.seen /\ discovery'.edges = parse.edges
         /\ target' \in [Files -> Known] /\ staged' \in Stages
         /\ \/ pc' = "refused"
            \/ pc' = "context" /\ staged'.header = staged.header
            \/ /\ pc' = "headers" /\ staged'.header = staged.header
               /\ staged'.root.version = parse.seen[parse.main]
               /\ Opt.mode = "recursive" => plan'.helper = {} /\ plan'.source = {}
               /\ Opt.standalone =>
                    /\ TargetMatches
                    /\ \A f \in Files : target'[f] = IF parse.seen[f] # None THEN parse.seen[f]
                                                     ELSE target[f]
                    /\ Bound(TRUE)
<1> DEFINE helper == Needing(plan, "helper")
           source == Needing(plan, "source")
           wanted == RequireContext(plan, helper, source)
           deferred == Deferred(wanted)
           policy == RequirePolicy(wanted, parse.seen, Bounded(wanted))
           done == IF deferred THEN wanted ELSE policy
<1>1. /\ plan \in Plans /\ parse \in Parses /\ project \in Projects
      /\ staged \in Stages /\ target \in [Files -> Known] /\ parse.seen \in [Files -> Known]
  BY DEF TypeOK, Parses, Stages
<1>2. pc = "parseDiscovery" /\ parse.todo = <<>> /\ parse' = NoParse /\ plan' = done
      /\ UNCHANGED <<disk, edits, project, saved, trial, original, checking, out, history>>
      /\ discovery' = [parse EXCEPT !.todo = <<>>]
  BY DEF FinishDiscovery
<1>3. \/ pc' = "refused" /\ staged' = NothingStaged /\ target' = target
      \/ /\ Opt.standalone => Bound(TRUE) /\ TargetMatches
         /\ target' = IF Opt.standalone /\ ~deferred THEN [f \in Files |->
                         IF parse.seen[f] # None THEN parse.seen[f] ELSE target[f]] ELSE target
         /\ IF deferred THEN staged' = staged
            ELSE \E text \in Translations(done) : staged' = [staged EXCEPT !.root = text]
         /\ pc' = IF Opt.mode = "recursive" /\ (done.helper # {} \/ done.source # {})
                  THEN "context" ELSE "headers"
  BY DEF FinishDiscovery, Abandon, Give
<1>4. helper \in SUBSET Headers /\ source \in SUBSET Headers
      /\ Bounded(wanted) \in SUBSET Headers
  BY DEF Needing, Bounded
<1>5. \A h \in Headers :
        (IsSelectedRootHeader(plan, h) /\ parse.seen[h] # None
         /\ Text(h, parse.seen[h]).needs # "none") => h \in helper \cup source
  <2> SUFFICES ASSUME NEW h \in Headers, IsSelectedRootHeader(plan, h), parse.seen[h] # None,
                      Text(h, parse.seen[h]).needs # "none"
               PROVE  h \in helper \cup source
    OBVIOUS
  <2>1. parse.seen[h] \in Versions /\ h \in Files
    BY <1>1 DEF Known, Files
  <2>2. Text(h, parse.seen[h]) \in SourceTexts
    BY <1>1, <2>1, DirectivesType
  <2>3. Text(h, parse.seen[h]).needs \in {"helper", "source"}
    BY <2>2 DEF SourceTexts
  <2> QED
    BY <2>3 DEF Needing
<1> HIDE DEF helper, source
<1>6. /\ wanted \in Plans /\ wanted.nodes = plan.nodes /\ wanted.edges = plan.edges
      /\ wanted.deps = plan.deps /\ wanted.sealed = plan.sealed
      /\ wanted.inlined = plan.inlined /\ wanted.evidence = plan.evidence
      /\ Opt.mode = "recursive" =>
           \A h \in Headers : IsSelectedRootHeader(plan, h) =>
             (h \in helper => h \in wanted.helper) /\ (h \in source => h \in wanted.source)
  BY <1>1, <1>4, RequireContextShape
<1>z. Opt.mode # "recursive" => wanted.helper = {}
  BY DEF RequireContext
<1> HIDE DEF wanted
<1>7. /\ policy \in Plans /\ policy.nodes = wanted.nodes /\ policy.edges = wanted.edges
      /\ policy.deps = wanted.deps /\ policy.helper = wanted.helper
      /\ policy.source = wanted.source /\ policy.sealed = wanted.sealed
      /\ policy.inlined = wanted.inlined /\ policy.evidence = wanted.evidence
  BY <1>1, <1>4, <1>6, RequirePolicyShape
<1> HIDE DEF policy
<1>8. /\ done \in Plans /\ done.nodes = plan.nodes /\ done.edges = plan.edges
      /\ done.deps = plan.deps /\ done.sealed = plan.sealed
      /\ done.inlined = plan.inlined /\ done.evidence = plan.evidence
      /\ done.helper = wanted.helper /\ done.source = wanted.source
  BY <1>6, <1>7
<1>9. Opt.mode = "recursive" =>
        \A h \in Headers :
          (IsSelectedRootHeader(plan, h) /\ parse.seen[h] # None
           /\ Text(h, parse.seen[h]).needs # "none") => h \in done.helper \cup done.source
  BY <1>5, <1>6, <1>8
<1> HIDE DEF done
<1>10. discovery' \in Parses /\ discovery'.seen = parse.seen /\ discovery'.edges = parse.edges
  <2>1. <<>> \in Seq(Includes)
    OBVIOUS
  <2>2. discovery' \in Parses
    BY <1>1, <1>2, <2>1 DEF Parses
  <2> QED
    BY <1>1, <1>2 DEF Parses
<1>11. target' \in [Files -> Known]
  BY <1>1, <1>3
<1>12. CASE pc' = "refused" /\ staged' = NothingStaged
  <2>1. staged' \in Stages
    BY <1>12 DEF NothingStaged, NoText, Stages, Stagings, Known
  <2> QED
    BY <1>2, <1>8, <1>9, <1>10, <1>11, <1>12, <2>1
<1>13. CASE ~(pc' = "refused" /\ staged' = NothingStaged)
  <2>1. /\ Opt.standalone => Bound(TRUE) /\ TargetMatches
        /\ target' = IF Opt.standalone /\ ~deferred THEN [f \in Files |->
                        IF parse.seen[f] # None THEN parse.seen[f] ELSE target[f]] ELSE target
        /\ IF deferred THEN staged' = staged
           ELSE \E text \in Translations(done) : staged' = [staged EXCEPT !.root = text]
        /\ pc' = IF Opt.mode = "recursive" /\ (done.helper # {} \/ done.source # {})
                 THEN "context" ELSE "headers"
    BY <1>3, <1>13
  <2>2. staged' \in Stages /\ staged'.header = staged.header
        /\ (~deferred => staged'.root.version = parse.seen[parse.main])
    <3>1. CASE deferred
      BY <1>1, <2>1, <3>1
    <3>2. CASE ~deferred
      <4>1. PICK text \in Translations(done) : staged' = [staged EXCEPT !.root = text]
        BY <2>1, <3>2
      <4>2. text \in Stagings /\ text.version = parse.seen[parse.main]
        BY <1>2, <1>8, TranslationShape DEF ParseLabels
      <4> QED
        BY <1>1, <4>1, <4>2 DEF Stages
    <3> QED
      BY <3>1, <3>2
  <2>3. CASE pc' = "context"
    BY <1>2, <1>8, <1>9, <1>10, <1>11, <2>2, <2>3
  <2>4. CASE pc' = "headers"
    <3>1. Opt.mode = "recursive" => done.helper = {} /\ done.source = {}
      BY <2>1, <2>4
    <3>2. ~deferred
      BY <1>6, <1>z, <1>8, <3>1 DEF Deferred
    <3>3. Opt.standalone =>
            \A f \in Files : target'[f] = IF parse.seen[f] # None THEN parse.seen[f]
                                          ELSE target[f]
      BY <2>1, <3>2
    <3>4. staged'.root.version = parse.seen[parse.main]
      BY <2>2, <3>2
    <3>5. Opt.standalone => TargetMatches /\ Bound(TRUE)
      BY <2>1
    <3> HIDE DEF deferred
    <3> QED
      BY <1>2, <1>8, <1>9, <1>10, <1>11, <2>2, <2>4, <3>1, <3>3, <3>4, <3>5
  <2> QED
    BY <2>1, <2>3, <2>4
<1> QED
  BY <1>12, <1>13

\* A nonempty set of slots has a least one.
LEMMA LeastSlot ==
  ASSUME NEW S \in SUBSET Nat, S # {}
  PROVE  LET i == CHOOSE j \in S : \A k \in S : j <= k IN i \in S
<1> DEFINE R == {ss \in Nat \X Nat : ss[1] < ss[2]}
<1>1. IsWellFoundedOn(R, Nat)
  BY NatLessThanWellFounded DEF OpToRel
<1> HIDE DEF R
<1>2. PICK m \in S : \A k \in S : ~(<<k, m>> \in R)
  BY <1>1, WFMin
<1>3. \A k \in S : m <= k
  <2> SUFFICES ASSUME NEW k \in S, ~(m <= k) PROVE FALSE
    OBVIOUS
  <2>1. k < m /\ <<k, m>> \in Nat \X Nat
    OBVIOUS
  <2>2. <<k, m>> \in R
    BY <2>1 DEF R
  <2> QED
    BY <1>2, <2>2
<1> QED
  BY <1>3

\* What the second parse leaves: the original plan and evidence.
LEMMA FinishOriginalEffect ==
  ASSUME TypeOK, FinishOriginal
  PROVE  /\ pc = "parseOriginal" /\ parse.todo = <<>> /\ parse' = NoParse /\ original' = parse
         /\ UNCHANGED <<disk, edits, project, saved, plan, discovery, target, checking, out,
                        history>>
         /\ trial' \in Plans /\ trial'.nodes = trial.nodes /\ trial'.edges = trial.edges
         /\ trial'.deps = trial.deps /\ trial'.policy = trial.policy
         /\ trial'.sealed = trial.sealed /\ trial'.inlined = trial.inlined
         /\ trial'.evidence = trial.evidence
         /\ \/ pc' = "refused" /\ staged' = NothingStaged
            \/ /\ pc' = "flatten" /\ staged' = staged
               /\ trial'.helper = plan.helper /\ trial'.source = plan.source
<1> DEFINE helper == Needing(trial, "helper")
           source == Needing(trial, "source")
           done == RequireContext(trial, helper, source)
<1>1. trial \in Plans
  BY DEF TypeOK
<1>2. helper \in SUBSET Headers /\ source \in SUBSET Headers
  BY DEF Needing
<1>3. /\ pc = "parseOriginal" /\ parse.todo = <<>> /\ parse' = NoParse /\ original' = parse
      /\ UNCHANGED <<disk, edits, project, saved, plan, discovery, target, checking, out,
                     history>>
      /\ trial' = done
      /\ \/ pc' = "refused" /\ staged' = NothingStaged
         \/ /\ pc' = "flatten" /\ staged' = staged
            /\ done.helper = plan.helper /\ done.source = plan.source
  BY DEF FinishOriginal, Abandon, Give
<1> HIDE DEF helper, source
<1>4. /\ done \in Plans /\ done.nodes = trial.nodes /\ done.edges = trial.edges
      /\ done.deps = trial.deps /\ done.policy = trial.policy
      /\ done.sealed = trial.sealed /\ done.inlined = trial.inlined
      /\ done.evidence = trial.evidence
  BY <1>1, <1>2, RequireContextShape
<1> HIDE DEF done
<1> QED
  BY <1>3, <1>4

\* Flattening inlines at least the headers that need their includer.
LEMMA FlattenEffect ==
  ASSUME TypeOK, Flatten
  PROVE  /\ pc = "flatten"
         /\ UNCHANGED <<disk, edits, project, saved, plan, discovery, original, target, out,
                        history>>
         /\ ToInline \in SUBSET Headers
         /\ \/ /\ pc' = "refused" /\ staged' = NothingStaged
               /\ trial' = trial /\ parse' = parse /\ checking' = checking
            \/ /\ pc' = "parseJoint" /\ staged' = staged
               /\ trial.helper \cup trial.source \subseteq ToInline
               /\ checking' = ToInline /\ trial' = FreshPlan
               /\ parse' = NewParse(Root, 0, saved, Flattened(saved, ToInline))
<1>1. trial.helper \in SUBSET Headers /\ trial.source \in SUBSET Headers
  BY DEF TypeOK, Plans
<1>2. ToInline \in SUBSET Headers
  BY <1>1 DEF ToInline
<1>3. trial.helper \cup trial.source \subseteq ToInline
  BY <1>1 DEF ToInline
<1>4. /\ pc = "flatten"
      /\ UNCHANGED <<disk, edits, project, saved, plan, discovery, original, target, out,
                     history>>
      /\ \/ /\ pc' = "refused" /\ staged' = NothingStaged
            /\ trial' = trial /\ parse' = parse /\ checking' = checking
         \/ /\ pc' = "parseJoint" /\ staged' = staged
            /\ checking' = ToInline /\ trial' = FreshPlan
            /\ parse' = NewParse(Root, 0, saved, Flattened(saved, ToInline))
  BY DEF Flatten, Abandon, Give
<1> QED
  BY <1>2, <1>3, <1>4

\* The joint parse stages the root and retains the evidence of the original one.
LEMMA FinishJointEffect ==
  ASSUME TypeOK, MainOfParse, FinishJoint
  PROVE  /\ pc = "parseJoint" /\ parse.todo = <<>> /\ parse' = NoParse
         /\ UNCHANGED <<disk, edits, project, saved, plan, discovery, original, target, out,
                        history>>
         /\ \/ /\ pc' = "refused" /\ staged' = NothingStaged
               /\ trial' = trial /\ checking' = checking
            \/ /\ pc' = "verifyContext"
               /\ trial' \in Plans /\ trial'.nodes = trial.nodes /\ trial'.edges = trial.edges
               /\ trial'.policy = trial.policy /\ trial'.sealed = trial.sealed
               /\ trial'.inlined = checking /\ trial'.evidence = original.seen
               /\ trial'.deps = trial.deps \cup {f \in Files : original.seen[f] # None}
               /\ checking' \subseteq Files
               /\ staged' \in Stages /\ staged'.header = staged.header
               /\ staged'.root.version = parse.seen[parse.main]
               /\ staged'.root.by = "parseJoint"
<1> DEFINE wanted == RetainContext(trial, original.seen, checking)
<1>1. /\ trial \in Plans /\ original.seen \in [Files -> Known] /\ staged \in Stages
  BY DEF TypeOK, Parses, Stages
<1>2. /\ pc = "parseJoint" /\ parse.todo = <<>> /\ parse' = NoParse
      /\ UNCHANGED <<disk, edits, project, saved, plan, discovery, original, target, out,
                     history>>
      /\ \/ /\ pc' = "refused" /\ staged' = NothingStaged
            /\ trial' = trial /\ checking' = checking
         \/ /\ pc' = "verifyContext" /\ trial' = wanted
            /\ checking' = {f \in Files : wanted.evidence[f] # None}
            /\ \E text \in Translations(trial) : staged' = [staged EXCEPT !.root = text]
  BY DEF FinishJoint, Abandon, Give
<1>3. checking \in SUBSET Headers
  BY <1>2 DEF MainOfParse
<1>4. /\ wanted \in Plans /\ wanted.nodes = trial.nodes /\ wanted.edges = trial.edges
      /\ wanted.policy = trial.policy /\ wanted.sealed = trial.sealed
      /\ wanted.inlined = checking /\ wanted.evidence = original.seen
      /\ wanted.deps = trial.deps \cup {f \in Files : original.seen[f] # None}
  BY <1>1, <1>3, RetainShape
<1> HIDE DEF wanted
<1>5. CASE pc' = "refused"
  BY <1>2, <1>5
<1>6. CASE pc' = "verifyContext"
  <2>1. PICK text \in Translations(trial) : staged' = [staged EXCEPT !.root = text]
    BY <1>2, <1>6
  <2>2. text \in Stagings /\ text.version = parse.seen[parse.main] /\ text.by = pc
    BY <1>1, <1>2, TranslationShape DEF ParseLabels
  <2>3. /\ staged' \in Stages /\ staged'.header = staged.header
        /\ staged'.root = text
    BY <1>1, <2>1, <2>2 DEF Stages
  <2>4. trial' = wanted /\ checking' \subseteq Files
    BY <1>2, <1>6
  <2> QED
    BY <1>2, <1>4, <1>6, <2>2, <2>3, <2>4
<1> QED
  BY <1>2, <1>5, <1>6

\* A selected header is parsed as a main file, or cannot be and is marked failed.
LEMMA StartHeaderEffect ==
  ASSUME TypeOK, StartHeader
  PROVE  /\ pc = "headers"
         /\ UNCHANGED <<disk, edits, project, saved, trial, discovery, original, staged, target,
                        checking, out, history>>
         /\ plan' \in Plans /\ Kept(plan, plan') /\ plan'.edges = plan.edges
         /\ plan'.deps = plan.deps /\ Selected(plan') = Selected(plan)
         /\ \/ pc' = "closure" /\ parse' = parse
            \/ /\ pc' = "parseHeader"
               /\ \E h \in Selected(plan), depth \in Nat :
                    /\ h \in Headers
                    /\ plan.policy[h] # None => disk[h] = plan.policy[h]
                    /\ parse' = NewParse(h, depth, disk[h], Directives(h, disk[h]))
<1> DEFINE i == CHOOSE j \in NextDiscovered(plan) : \A k \in NextDiscovered(plan) : j <= k
           h == plan.nodes[i].src
<1>1. plan \in Plans /\ plan.nodes \in Seq(Nodes)
  BY DEF TypeOK, Plans
<1>2. /\ pc = "headers" /\ NextDiscovered(plan) # {}
      /\ UNCHANGED <<disk, edits, project, saved, trial, discovery, original, staged, target,
                     checking, out, history>>
      /\ \/ plan' = Fail(Mark(plan, i, "failed")) /\ pc' = "closure" /\ parse' = parse
         \/ /\ plan.policy[h] # None => disk[h] = plan.policy[h]
            /\ plan' = Mark(plan, i, "translating") /\ pc' = "parseHeader"
            /\ parse' = NewParse(h, plan.nodes[i].depth, disk[h], Directives(h, disk[h]))
  BY DEF StartHeader, Give
<1>3. NextDiscovered(plan) \in SUBSET Nat
  BY <1>1 DEF NextDiscovered
<1>4. i \in NextDiscovered(plan)
  BY <1>2, <1>3, LeastSlot
<1> HIDE DEF i
<1>5. i \in DOMAIN plan.nodes /\ plan.nodes[i] \in Nodes
  BY <1>1, <1>4 DEF NextDiscovered
<1>6. h \in Selected(plan) /\ h \in Headers /\ plan.nodes[i].depth \in Nat
  BY <1>5 DEF Selected, Nodes
<1> HIDE DEF h
<1>7. CASE plan' = Fail(Mark(plan, i, "failed")) /\ pc' = "closure" /\ parse' = parse
  <2> DEFINE m == Mark(plan, i, "failed")
  <2>1. /\ m \in Plans /\ Kept(plan, m) /\ m.edges = plan.edges /\ m.deps = plan.deps
        /\ Selected(m) = Selected(plan)
    BY <1>1, MarkShape DEF NodeStates
  <2>2. plan' = Fail(m)
    BY <1>7
  <2> HIDE DEF m
  <2>3. /\ plan' \in Plans /\ Kept(m, plan') /\ plan'.edges = m.edges /\ plan'.deps = m.deps
        /\ plan'.nodes = m.nodes
    BY <2>1, <2>2, FailShape
  <2>4. Selected(plan') = Selected(plan)
    BY <2>1, <2>3 DEF Selected
  <2> QED
    BY <1>2, <1>7, <2>1, <2>3, <2>4 DEF Kept
<1>8. CASE /\ plan.policy[h] # None => disk[h] = plan.policy[h]
           /\ plan' = Mark(plan, i, "translating") /\ pc' = "parseHeader"
           /\ parse' = NewParse(h, plan.nodes[i].depth, disk[h], Directives(h, disk[h]))
  <2>1. /\ plan' \in Plans /\ Kept(plan, plan') /\ plan'.edges = plan.edges
        /\ plan'.deps = plan.deps /\ Selected(plan') = Selected(plan)
    BY <1>1, <1>8, MarkShape DEF NodeStates
  <2> QED
    BY <1>2, <1>6, <1>8, <2>1
<1> QED
  BY <1>2, <1>7, <1>8

\* A translated header is sealed and staged, or marked failed.
LEMMA FinishHeaderEffect ==
  ASSUME TypeOK, MainOfParse, FinishHeader
  PROVE  /\ pc = "parseHeader" /\ parse.todo = <<>> /\ parse' = NoParse
         /\ UNCHANGED <<disk, edits, project, saved, trial, discovery, original, target,
                        checking, out, history>>
         /\ parse.main \in Headers /\ parse.main \in Selected(plan)
         /\ plan' \in Plans /\ plan'.edges = plan.edges /\ plan'.deps = plan.deps
         /\ plan'.helper = plan.helper /\ plan'.source = plan.source
         /\ plan'.policy = plan.policy /\ plan'.inlined = plan.inlined
         /\ plan'.evidence = plan.evidence /\ Selected(plan') = Selected(plan)
         /\ \/ pc' = "closure" /\ staged' = staged /\ plan'.sealed = plan.sealed
            \/ /\ pc' = "headers"
               /\ \A g \in Headers :
                    plan'.sealed[g] = IF g = parse.main /\ plan.policy[g] # None
                                      THEN parse.seen[parse.main] ELSE plan.sealed[g]
               /\ Opt.standalone => Bound(FALSE)
               /\ staged' \in Stages /\ staged'.root = staged.root
               /\ staged'.header[parse.main].version = parse.seen[parse.main]
               /\ \A g \in Headers \ {parse.main} : staged'.header[g] = staged.header[g]
<1> DEFINE h == parse.main
           i == CHOOSE j \in DOMAIN plan.nodes : plan.nodes[j].src = h
           done == SealPolicies(plan, h, parse.seen[h], plan.policy[h] # None)
<1>1. plan \in Plans /\ staged \in Stages /\ parse.seen \in [Files -> Known]
  BY DEF TypeOK, Parses, Stages
<1>2. /\ pc = "parseHeader" /\ parse.todo = <<>> /\ parse' = NoParse
      /\ UNCHANGED <<disk, edits, project, saved, trial, discovery, original, target,
                     checking, out, history>>
      /\ \/ plan' = Fail(Mark(plan, i, "failed")) /\ pc' = "closure" /\ staged' = staged
         \/ /\ ~done.failed
            /\ Opt.standalone => Bound(FALSE)
            /\ plan' = Mark(done, i, "staged")
            /\ \E text \in Translations(plan) : staged' = [staged EXCEPT !.header[h] = text]
            /\ pc' = "headers"
  BY DEF FinishHeader, Give
<1>3. h \in Headers /\ h \in Selected(plan)
  <2>1. h \in Selected(plan)
    BY <1>2 DEF MainOfParse
  <2>2. plan.nodes \in Seq(Nodes)
    BY <1>1 DEF Plans
  <2>3. \A j \in DOMAIN plan.nodes : plan.nodes[j].src \in Headers
    <3>1. \A j \in DOMAIN plan.nodes : plan.nodes[j] \in Nodes
      BY <2>2
    <3> QED
      BY <3>1 DEF Nodes
  <2> QED
    BY <2>1, <2>3 DEF Selected
<1>4. parse.seen[h] \in Known
  BY <1>1, <1>3 DEF Files
<1> HIDE DEF i
<1>5. CASE plan' = Fail(Mark(plan, i, "failed")) /\ pc' = "closure" /\ staged' = staged
  <2> DEFINE m == Mark(plan, i, "failed")
  <2>1. /\ m \in Plans /\ Kept(plan, m) /\ m.edges = plan.edges /\ m.deps = plan.deps
        /\ Selected(m) = Selected(plan)
    BY <1>1, MarkShape DEF NodeStates
  <2>2. plan' = Fail(m)
    BY <1>5
  <2> HIDE DEF m
  <2>3. /\ plan' \in Plans /\ Kept(m, plan') /\ plan'.edges = m.edges /\ plan'.deps = m.deps
        /\ plan'.nodes = m.nodes
    BY <2>1, <2>2, FailShape
  <2>4. Selected(plan') = Selected(plan)
    BY <2>1, <2>3 DEF Selected
  <2> QED
    BY <1>2, <1>3, <1>5, <2>1, <2>3, <2>4 DEF Kept
<1>6. CASE /\ ~done.failed
           /\ Opt.standalone => Bound(FALSE)
           /\ plan' = Mark(done, i, "staged")
           /\ \E text \in Translations(plan) : staged' = [staged EXCEPT !.header[h] = text]
           /\ pc' = "headers"
  <2>1. /\ done \in Plans /\ done.nodes = plan.nodes /\ done.edges = plan.edges
        /\ done.deps = plan.deps /\ done.helper = plan.helper /\ done.source = plan.source
        /\ done.policy = plan.policy /\ done.inlined = plan.inlined
        /\ done.evidence = plan.evidence
        /\ \A g \in Headers :
             done.sealed[g] = IF g = h /\ plan.policy[h] # None THEN parse.seen[h]
                              ELSE plan.sealed[g]
    BY <1>1, <1>3, <1>4, <1>6, SealShape
  <2>2. plan' = Mark(done, i, "staged")
    BY <1>6
  <2> HIDE DEF done
  <2>3. /\ plan' \in Plans /\ Kept(done, plan') /\ plan'.edges = done.edges
        /\ plan'.deps = done.deps /\ Selected(plan') = Selected(done)
    BY <2>1, <2>2, MarkShape DEF NodeStates
  <2>4. Selected(done) = Selected(plan)
    BY <2>1 DEF Selected
  <2>5. PICK text \in Translations(plan) : staged' = [staged EXCEPT !.header[h] = text]
    BY <1>6
  <2>6. text \in Stagings /\ text.version = parse.seen[h]
    BY <1>1, <1>2, TranslationShape DEF ParseLabels
  <2>7. /\ staged' \in Stages /\ staged'.root = staged.root
        /\ staged'.header = [staged.header EXCEPT ![h] = text]
    BY <1>1, <1>3, <2>5, <2>6 DEF Stages
  <2>8. /\ staged'.header[h] = text
        /\ \A g \in Headers \ {h} : staged'.header[g] = staged.header[g]
    BY <1>1, <1>3, <2>7 DEF Stages
  <2>9. \A g \in Headers :
          plan'.sealed[g] = IF g = h /\ plan.policy[g] # None THEN parse.seen[h]
                            ELSE plan.sealed[g]
    BY <2>1, <2>3 DEF Kept
  <2> QED
    BY <1>2, <1>3, <1>6, <2>1, <2>3, <2>4, <2>6, <2>7, <2>8, <2>9 DEF Kept
<1> QED
  BY <1>2, <1>5, <1>6

-----------------------------------------------------------------------------
(* The invariant, part by part.                                            *)

Inv ==
  /\ TypeOK /\ RootSaved /\ Sourced(plan) /\ Sourced(trial) /\ Unsettled /\ MainOfParse
  /\ InParse /\ StagedClosed /\ PolicySealed /\ StagedSelected /\ RootBound /\ Rechecked
  /\ DependentKept /\ Validated /\ OutInv

\* Every step keeps the types.
LEMMA TypeNext ==
  ASSUME Inv, [Next]_vars
  PROVE  TypeOK'
<1>0. TypeOK
  BY DEF Inv
<1>s. /\ staged \in Stages /\ NothingStaged \in Stages
      /\ Stages = [root : Stagings, header : [Headers -> Stagings]]
  BY <1>0 DEF TypeOK, NothingStaged, NoText, Stages, Stagings, Known
<1>k. Versions \subseteq Known /\ Root \in Files /\ Headers \subseteq Files
  BY DEF Known, Files
<1>1. CASE UserEdits
  <2>1. PICK f \in Files : disk' = [disk EXCEPT ![f] = 1 - @]
    BY <1>1 DEF UserEdits
  <2>2. disk \in [Files -> Versions]
    BY <1>0 DEF TypeOK
  <2>3. disk[f] = 0 \/ disk[f] = 1
    BY <2>2 DEF Versions
  <2>4. disk' \in [Files -> Versions]
    BY <2>1, <2>2, <2>3 DEF Versions
  <2>5. edits' \in Nat /\ history' \subseteq [Files -> Versions]
    BY <1>0, <1>1, <2>4 DEF UserEdits, TypeOK
  <2>6. UNCHANGED <<pc, project, saved, plan, trial, parse, discovery, original, staged,
                    target, checking, out>>
    BY <1>1 DEF UserEdits
  <2> QED
    BY <1>0, <2>4, <2>5, <2>6 DEF TypeOK
<1>2. CASE Prepare
  <2>a. /\ saved' = saved \/ saved' = None \/ saved' = disk[Root]
        /\ target' = target \/ target' = [target EXCEPT ![Root] = disk[Root]]
    BY <1>2 DEF Prepare
  <2>b. disk[Root] \in Known /\ saved \in Known /\ target \in [Files -> Known] /\ None \in Known
    BY <1>0, <1>k DEF TypeOK, Known
  <2>1. saved' \in Known /\ target' \in [Files -> Known]
    BY <2>a, <2>b
  <2>2. pc' \in {"refused", "discover"} /\ staged' \in Stages
    BY <1>2, <1>s DEF Prepare, Abandon, Give
  <2>3. UNCHANGED <<disk, edits, project, plan, trial, parse, discovery, original, checking,
                    out, history>>
    BY <1>2 DEF Prepare
  <2> QED
    BY <1>0, <1>s, <2>1, <2>2, <2>3 DEF TypeOK, Settling, Over
<1>3. CASE StartDiscovery
  <2>1. /\ parse' = NewParse(Root, 0, disk[Root], Directives(Root, disk[Root]))
        /\ pc' = "parseDiscovery"
        /\ UNCHANGED <<disk, edits, project, saved, plan, trial, discovery, original, staged,
                       target, checking, out, history>>
    BY <1>3 DEF StartDiscovery, Give
  <2>2. disk \in [Files -> Versions] /\ disk[Root] \in Versions /\ project \in Projects
    BY <1>0, <1>k DEF TypeOK
  <2>3. Directives(Root, disk[Root]) \in Seq(Includes)
    BY <1>k, <2>2, DirectivesType
  <2>4. parse' \in Parses
    BY <1>k, <2>1, <2>2, <2>3, NewParseShape
  <2> QED
    BY <1>0, <2>1, <2>4 DEF TypeOK, Settling
<1>4. CASE Directive
  <2>1. /\ parse' = AfterDirective(Head(parse.todo)) /\ parse.todo # <<>>
        /\ plan' \in Plans /\ trial' \in Plans
        /\ UNCHANGED <<disk, edits, pc, project, saved, discovery, original, staged,
                       target, checking, out, history>>
    BY <1>0, <1>4, DirectiveEffect DEF Grown
  <2>2. parse' \in Parses
    BY <1>0, <2>1, DirectiveShape
  <2> QED
    BY <1>0, <2>1, <2>2 DEF TypeOK
<1>5. CASE FinishDiscovery
  <2>1. plan.helper = {} /\ plan.source = {}
    BY <1>5 DEF Inv, Unsettled, FinishDiscovery
  <2>2. /\ plan' \in Plans /\ discovery' \in Parses /\ target' \in [Files -> Known]
        /\ staged' \in Stages /\ parse' = NoParse /\ pc' \in {"refused", "context", "headers"}
        /\ UNCHANGED <<disk, edits, project, saved, trial, original, checking, out, history>>
    BY <1>0, <1>5, <2>1, FinishDiscoveryEffect
  <2> QED
    BY <1>0, <1>s, <2>2, NoParseType DEF TypeOK, Settling, Translating, Over
<1>6. CASE StartOriginal
  <2>1. UNCHANGED <<disk, edits, project, saved, plan, discovery, original, target, checking,
                    out, history>>
    BY <1>6 DEF StartOriginal
  <2>2. CASE pc' = "refused" /\ staged' = NothingStaged /\ trial' = trial /\ parse' = parse
    BY <1>0, <1>s, <2>1, <2>2 DEF TypeOK, Over
  <2>3. CASE /\ disk[Root] = saved /\ trial' = FreshPlan /\ pc' = "parseOriginal"
             /\ staged' = staged
             /\ parse' = NewParse(Root, 0, saved, Directives(Root, saved))
    <3>1. disk \in [Files -> Versions] /\ saved \in Versions /\ project \in Projects
      BY <1>0, <1>k, <2>3 DEF TypeOK
    <3>2. Directives(Root, saved) \in Seq(Includes)
      BY <1>k, <3>1, DirectivesType
    <3>3. parse' \in Parses
      BY <1>k, <2>3, <3>1, <3>2, NewParseShape
    <3> QED
      BY <1>0, <2>1, <2>3, <3>3, FreshShape DEF TypeOK, Settling
  <2> QED
    BY <1>6, <2>2, <2>3 DEF StartOriginal, Abandon, Give
<1>7. CASE FinishOriginal
  <2>1. /\ parse' = NoParse /\ original' = parse /\ trial' \in Plans /\ staged' \in Stages
        /\ pc' \in {"refused", "flatten"}
        /\ UNCHANGED <<disk, edits, project, saved, plan, discovery, target, checking, out,
                       history>>
    BY <1>0, <1>7, <1>s, FinishOriginalEffect
  <2> QED
    BY <1>0, <1>s, <2>1, NoParseType DEF TypeOK, Settling, Over
<1>8. CASE Flatten
  <2>1. /\ pc = "flatten"
        /\ UNCHANGED <<disk, edits, project, saved, plan, discovery, original, target, out,
                       history>>
        /\ ToInline \in SUBSET Headers
        /\ \/ /\ pc' = "refused" /\ staged' = NothingStaged
              /\ trial' = trial /\ parse' = parse /\ checking' = checking
           \/ /\ pc' = "parseJoint" /\ staged' = staged
              /\ checking' = ToInline /\ trial' = FreshPlan
              /\ parse' = NewParse(Root, 0, saved, Flattened(saved, ToInline))
    BY <1>0, <1>8, FlattenEffect
  <2>2. disk \in [Files -> Versions] /\ saved \in Versions /\ project \in Projects
    BY <1>0, <2>1 DEF TypeOK, Inv, RootSaved, Contextual, Known
  <2>3. Flattened(saved, ToInline) \in Seq(Includes)
    BY <2>1, <2>2, FlattenedType
  <2>4. NewParse(Root, 0, saved, Flattened(saved, ToInline)) \in Parses
    BY <1>k, <2>2, <2>3, NewParseShape
  <2>5. parse' \in Parses /\ trial' \in Plans /\ checking' \subseteq Files
        /\ staged' \in Stages /\ pc' \in {"refused", "parseJoint"}
    BY <1>0, <1>s, <1>k, <2>1, <2>4, FreshShape DEF TypeOK
  <2> QED
    BY <1>0, <1>s, <2>1, <2>5 DEF TypeOK, Settling, Over
<1>9. CASE FinishJoint
  <2>1. MainOfParse
    BY DEF Inv
  <2>2. /\ parse' = NoParse
        /\ UNCHANGED <<disk, edits, project, saved, plan, discovery, original, target, out,
                       history>>
        /\ pc' \in {"refused", "verifyContext"} /\ trial' \in Plans
        /\ checking' \subseteq Files /\ staged' \in Stages
    BY <1>0, <1>9, <1>s, <2>1, FinishJointEffect DEF TypeOK
  <2> QED
    BY <1>0, <1>s, <2>2, NoParseType DEF TypeOK, Settling, Over
<1>10. CASE StartHeader
  <2>1. /\ UNCHANGED <<disk, edits, project, saved, trial, discovery, original, staged, target,
                       checking, out, history>>
        /\ plan' \in Plans
        /\ \/ pc' = "closure" /\ parse' = parse
           \/ /\ pc' = "parseHeader"
              /\ \E h \in Selected(plan), depth \in Nat :
                   h \in Headers /\ parse' = NewParse(h, depth, disk[h], Directives(h, disk[h]))
    BY <1>0, <1>10, StartHeaderEffect
  <2>2. ASSUME NEW h \in Headers, NEW depth \in Nat
        PROVE  NewParse(h, depth, disk[h], Directives(h, disk[h])) \in Parses
    <3>1. /\ disk \in [Files -> Versions] /\ disk[h] \in Versions
          /\ project \in Projects /\ h \in Files
      BY <1>0, <1>k DEF TypeOK
    <3>2. Directives(h, disk[h]) \in Seq(Includes)
      BY <3>1, DirectivesType
    <3> QED
      BY <1>k, <3>1, <3>2, NewParseShape
  <2>3. parse' \in Parses /\ pc' \in {"closure", "parseHeader"}
    BY <1>0, <2>1, <2>2 DEF TypeOK
  <2> QED
    BY <1>0, <2>1, <2>3 DEF TypeOK, Translating
<1>11. CASE FinishHeader
  <2>1. MainOfParse
    BY DEF Inv
  <2>2. /\ parse' = NoParse
        /\ UNCHANGED <<disk, edits, project, saved, trial, discovery, original, target,
                       checking, out, history>>
        /\ plan' \in Plans /\ staged' \in Stages /\ pc' \in {"closure", "headers"}
    BY <1>0, <1>11, <1>s, <2>1, FinishHeaderEffect
  <2> QED
    BY <1>0, <1>s, <2>2, NoParseType DEF TypeOK, Translating
<1>12. CASE FinishHeaders
  <2>1. /\ UNCHANGED <<disk, edits, project, saved, plan, trial, parse, discovery, original,
                       target, out>>
        /\ history' = {disk} /\ checking' \in {checking, {f \in Files : plan.evidence[f] # None}}
        /\ staged' \in Stages /\ pc' \in {"refused", "verifyClosure"}
    BY <1>12, <1>s DEF FinishHeaders, Abandon, Give
  <2> QED
    BY <1>0, <1>s, <2>1 DEF TypeOK, Translating, Over
<1>13. CASE Verify
  <2>1. /\ UNCHANGED <<disk, edits, project, saved, plan, trial, parse, discovery, original,
                       target, out, history>>
        /\ checking' \subseteq checking
        /\ staged' \in Stages /\ (pc' = "refused" \/ pc' = pc)
    BY <1>13, <1>s DEF Verify, Abandon, Give
  <2> QED
    BY <1>0, <1>s, <2>1 DEF TypeOK, Over
<1>14. CASE AdoptJointPlan
  BY <1>0, <1>14 DEF AdoptJointPlan, TypeOK, Translating, Give
<1>15. CASE Validate
  <2>1. /\ UNCHANGED <<disk, edits, project, saved, plan, trial, parse, discovery, original,
                       target, checking, out, history>>
        /\ staged' \in Stages /\ pc' \in {"refused", "analysed", "publish"}
    BY <1>15, <1>s DEF Validate, Abandon, Give
  <2> QED
    BY <1>0, <1>s, <2>1 DEF TypeOK, Translating, Over
<1>16. CASE Publish
  <2>1. /\ UNCHANGED <<disk, edits, project, saved, plan, trial, parse, discovery, original,
                       target, checking, history>>
        /\ staged' \in Stages /\ pc' \in {"refused", "published"}
        /\ \/ out' = out
           \/ out' = [root |-> staged.root, header |-> staged.header, inlined |-> plan.inlined,
                      evidence |-> plan.evidence, policy |-> plan.policy]
    BY <1>16, <1>s DEF Publish, Abandon, Give
  <2>2. out' \in [root : Stagings, header : [Headers -> Stagings], inlined : SUBSET Headers,
                  evidence : [Files -> Known], policy : [Headers -> Known]]
    <3>1. /\ plan.inlined \in SUBSET Headers /\ plan.evidence \in [Files -> Known]
          /\ plan.policy \in [Headers -> Known]
      BY <1>0 DEF TypeOK, Plans
    <3>2. staged.root \in Stagings /\ staged.header \in [Headers -> Stagings]
      BY <1>s
    <3> QED
      BY <1>0, <2>1, <3>1, <3>2 DEF TypeOK
  <2> QED
    BY <1>0, <1>s, <2>1, <2>2 DEF TypeOK, Over
<1>17. CASE UNCHANGED vars
  BY <1>0, <1>17 DEF TypeOK, vars
<1> QED
  BY <1>1, <1>2, <1>3, <1>4, <1>5, <1>6, <1>7, <1>8, <1>9, <1>10, <1>11, <1>12, <1>13, <1>14,
     <1>15, <1>16, <1>17 DEF Next, Done

\* Labels advance: the root is settled first, and what is over stays over.
LEMMA LabelsAdvance ==
  ASSUME Inv, [Next]_vars
  PROVE  /\ project' = project
         /\ pc' \in Settling => pc \in Settling
         /\ pc' \in {"start", "discover", "parseDiscovery"} =>
              pc \in {"start", "discover", "parseDiscovery"}
         /\ pc' \in Contextual => pc \in Contextual \/ StartOriginal
         /\ pc' \in Translating => pc \in Translating \/ FinishDiscovery \/ AdoptJointPlan
         /\ pc \in Over => UNCHANGED vars
<1>0. TypeOK
  BY DEF Inv
<1>1. CASE UserEdits \/ Prepare \/ StartDiscovery \/ StartOriginal
  BY <1>1 DEF UserEdits, Prepare, StartDiscovery, StartOriginal, Give, Abandon, Settling,
     Translating, Over, Contextual, ParseLabels
<1>2. CASE Directive
  BY <1>0, <1>2, DirectiveEffect DEF Directive, Settling, Translating, Over, Contextual,
     ParseLabels
<1>3. CASE FinishDiscovery
  <2>1. plan.helper = {} /\ plan.source = {}
    BY <1>3 DEF Inv, Unsettled, FinishDiscovery
  <2>2. pc = "parseDiscovery" /\ project' = project /\ pc' \in {"refused", "context", "headers"}
    BY <1>0, <1>3, <2>1, FinishDiscoveryEffect
  <2> QED
    BY <1>3, <2>2 DEF Settling, Translating, Over, Contextual
<1>4. CASE FinishOriginal \/ Flatten \/ FinishJoint \/ AdoptJointPlan
  BY <1>4 DEF FinishOriginal, Flatten, FinishJoint, AdoptJointPlan, Give, Abandon, Settling,
     Translating, Over, Contextual
<1>5. CASE StartHeader \/ FinishHeader \/ FinishHeaders
  BY <1>5 DEF StartHeader, FinishHeader, FinishHeaders, Give, Abandon, Settling, Translating,
     Over, Contextual
<1>6. CASE Verify \/ Validate \/ Publish
  BY <1>6 DEF Verify, Validate, Publish, Give, Abandon, Settling, Translating, Over, Contextual
<1>7. CASE UNCHANGED vars
  BY <1>7 DEF vars
<1> QED
  BY <1>1, <1>2, <1>3, <1>4, <1>5, <1>6, <1>7 DEF Next, Done

\* The saved root is known where it is parsed again: StartOriginal compares it.
LEMMA RootSavedNext ==
  ASSUME Inv, [Next]_vars
  PROVE  RootSaved'
<1>0. TypeOK /\ RootSaved
  BY DEF Inv
<1>1. pc' \in Contextual => pc \in Contextual \/ StartOriginal
  BY LabelsAdvance
<1>2. CASE StartOriginal
  <2>1. saved' = saved /\ (pc' = "refused" \/ saved = disk[Root])
    BY <1>2 DEF StartOriginal, Abandon, Give
  <2>2. disk[Root] \in Versions
    BY <1>0 DEF TypeOK, Files
  <2> QED
    BY <2>1, <2>2 DEF RootSaved, Contextual, Versions, None
<1>3. CASE pc \in Contextual
  <2>1. saved' = saved
    BY <1>3 DEF Contextual, Next, Done, vars, UserEdits, Prepare, StartDiscovery, Directive,
       FinishDiscovery, StartOriginal, FinishOriginal, Flatten, FinishJoint, StartHeader,
       FinishHeader, FinishHeaders, Verify, AdoptJointPlan, Validate, Publish
  <2> QED
    BY <1>0, <1>3, <2>1 DEF RootSaved
<1> QED
  BY <1>1, <1>2, <1>3 DEF RootSaved

\* Sources are only added.
LEMMA SourcedSame ==
  ASSUME NEW p, NEW q, Sourced(p), Selected(q) = Selected(p), q.edges = p.edges,
         p.deps \subseteq q.deps, \A f \in Files : q.evidence[f] # None => f \in q.deps
  PROVE  Sourced(q)
BY DEF Sourced

\* The plan that will be published knows its sources.
LEMMA PlanSourcedNext ==
  ASSUME Inv, [Next]_vars
  PROVE  Sourced(plan)'
<1>0. TypeOK /\ Sourced(plan) /\ Sourced(trial)
  BY DEF Inv
<1> SUFFICES Sourced(plan')
  BY DEF Sourced, Selected
<1>1. CASE plan' = plan
  BY <1>0, <1>1
<1>2. CASE Directive
  BY <1>0, <1>2, DirectiveEffect DEF Grown
<1>3. CASE FinishDiscovery
  <2>1. plan.helper = {} /\ plan.source = {}
    BY <1>3 DEF Inv, Unsettled, FinishDiscovery
  <2>2. /\ plan'.nodes = plan.nodes /\ plan'.edges = plan.edges
        /\ plan'.deps = plan.deps /\ plan'.evidence = plan.evidence
    BY <1>0, <1>3, <2>1, FinishDiscoveryEffect
  <2> QED
    BY <1>0, <2>2 DEF Sourced, Selected
<1>4. CASE StartHeader
  <2>1. /\ Kept(plan, plan') /\ plan'.edges = plan.edges /\ plan'.deps = plan.deps
        /\ Selected(plan') = Selected(plan)
    BY <1>0, <1>4, StartHeaderEffect
  <2> QED
    BY <1>0, <2>1 DEF Sourced, Kept
<1>5. CASE FinishHeader
  <2>1. MainOfParse
    BY DEF Inv
  <2>2. /\ plan'.edges = plan.edges /\ plan'.deps = plan.deps
        /\ plan'.evidence = plan.evidence /\ Selected(plan') = Selected(plan)
    BY <1>0, <1>5, <2>1, FinishHeaderEffect
  <2> QED
    BY <1>0, <2>2 DEF Sourced
<1>6. CASE AdoptJointPlan
  BY <1>0, <1>6 DEF AdoptJointPlan
<1> QED
  BY <1>1, <1>2, <1>3, <1>4, <1>5, <1>6 DEF Next, Done, vars, UserEdits, Prepare,
     StartDiscovery, StartOriginal, FinishOriginal, Flatten, FinishJoint, FinishHeaders, Verify,
     Validate, Publish

\* So do the original plan and the joint plan.
LEMMA TrialSourcedNext ==
  ASSUME Inv, [Next]_vars
  PROVE  Sourced(trial)'
<1>0. TypeOK /\ Sourced(trial) /\ MainOfParse
  BY DEF Inv
<1> SUFFICES Sourced(trial')
  BY DEF Sourced, Selected
<1>1. CASE trial' = trial
  BY <1>0, <1>1
<1>2. CASE Directive
  BY <1>0, <1>2, DirectiveEffect DEF Grown
<1>3. CASE trial' = FreshPlan
  BY <1>3, FreshShape
<1>4. CASE FinishOriginal
  <2>1. /\ trial'.nodes = trial.nodes /\ trial'.edges = trial.edges
        /\ trial'.deps = trial.deps /\ trial'.evidence = trial.evidence
    BY <1>0, <1>4, FinishOriginalEffect
  <2> QED
    BY <1>0, <2>1 DEF Sourced, Selected
<1>5. CASE FinishJoint
  <2>1. \/ trial' = trial
        \/ /\ trial'.nodes = trial.nodes /\ trial'.edges = trial.edges
           /\ trial'.evidence = original.seen
           /\ trial'.deps = trial.deps \cup {f \in Files : original.seen[f] # None}
    BY <1>0, <1>5, FinishJointEffect
  <2> QED
    BY <1>0, <2>1 DEF Sourced, Selected
<1> QED
  BY <1>1, <1>2, <1>3, <1>4, <1>5 DEF Next, Done, vars, UserEdits, Prepare,
     StartDiscovery, FinishDiscovery, StartOriginal, Flatten, StartHeader, FinishHeader,
     FinishHeaders, Verify, AdoptJointPlan, Validate, Publish

\* Until the headers are translated nothing is sealed, inlined or staged for them.
LEMMA UnsettledNext ==
  ASSUME Inv, [Next]_vars
  PROVE  Unsettled'
<1>0. TypeOK /\ Unsettled /\ MainOfParse
  BY DEF Inv
<1>a. \A h \in Headers : trial'.policy[h] = None /\ trial'.sealed[h] = None
  <2>0. \A h \in Headers : trial.policy[h] = None /\ trial.sealed[h] = None
    BY <1>0 DEF Unsettled
  <2>1. CASE trial' = trial
    BY <2>0, <2>1
  <2>2. CASE Directive
    BY <1>0, <2>0, <2>2, DirectiveEffect DEF Grown, Kept
  <2>3. CASE trial' = FreshPlan
    BY <2>3 DEF FreshPlan
  <2>4. CASE FinishOriginal
    BY <1>0, <2>0, <2>4, FinishOriginalEffect
  <2>5. CASE FinishJoint
    BY <1>0, <2>0, <2>5, FinishJointEffect
  <2> QED
    BY <2>1, <2>2, <2>3, <2>4, <2>5 DEF Next, Done, vars, UserEdits, Prepare,
       StartDiscovery, FinishDiscovery, StartOriginal, Flatten, StartHeader, FinishHeader,
       FinishHeaders, Verify, AdoptJointPlan, Validate, Publish
<1>b. /\ pc' \in Settling => pc \in Settling
      /\ pc' \in {"start", "discover", "parseDiscovery"} =>
              pc \in {"start", "discover", "parseDiscovery"}
  BY LabelsAdvance
<1>c. ASSUME pc' \in Settling
      PROVE  /\ plan'.inlined = plan.inlined /\ plan'.sealed = plan.sealed
             /\ plan'.evidence = plan.evidence /\ staged'.header = staged.header
  <2>0. pc \in Settling /\ pc' # "refused"
    BY <1>b, <1>c DEF Settling
  <2>1. CASE plan' = plan /\ staged' = staged
    BY <2>1
  <2>2. CASE Directive
    BY <1>0, <2>2, DirectiveEffect DEF Grown, Kept
  <2>3. CASE FinishDiscovery
    <3>1. plan.helper = {} /\ plan.source = {}
      BY <2>3 DEF Inv, Unsettled, FinishDiscovery
    <3>2. /\ plan'.sealed = plan.sealed /\ plan'.inlined = plan.inlined
          /\ plan'.evidence = plan.evidence
          /\ pc' = "refused" \/ staged'.header = staged.header
      BY <1>0, <2>3, <3>1, FinishDiscoveryEffect
    <3> QED
      BY <2>0, <3>2
  <2>4. CASE FinishOriginal
    BY <1>0, <2>0, <2>4, FinishOriginalEffect
  <2>5. CASE FinishJoint
    BY <1>0, <2>0, <2>5, FinishJointEffect
  <2>6. CASE Prepare \/ StartOriginal \/ Flatten \/ Verify
    BY <2>0, <2>6, <2>1 DEF Prepare, StartOriginal, Flatten, Verify, Abandon, Give
  <2>7. CASE StartHeader \/ FinishHeader \/ FinishHeaders \/ AdoptJointPlan \/ Validate \/ Publish
    BY <1>c, <2>0, <2>7 DEF StartHeader, FinishHeader, FinishHeaders, AdoptJointPlan, Validate,
       Publish, Settling, Give
  <2> QED
    BY <2>1, <2>2, <2>3, <2>4, <2>5, <2>6, <2>7 DEF Next, Done, vars, UserEdits, StartDiscovery
<1>d. ASSUME pc' \in {"start", "discover", "parseDiscovery"}
      PROVE  plan'.helper = plan.helper /\ plan'.source = plan.source
  <2>0. pc \in {"start", "discover", "parseDiscovery"}
    BY <1>b, <1>d
  <2>1. CASE plan' = plan
    BY <2>1
  <2>2. CASE Directive
    BY <1>0, <2>2, DirectiveEffect DEF Grown, Kept
  <2>3. CASE FinishDiscovery
    <3>1. plan.helper = {} /\ plan.source = {}
      BY <2>3 DEF Inv, Unsettled, FinishDiscovery
    <3>2. pc' \in {"refused", "context", "headers"}
      BY <1>0, <2>3, <3>1, FinishDiscoveryEffect
    <3> QED
      BY <1>d, <3>2
  <2>4. CASE StartHeader \/ FinishHeader \/ AdoptJointPlan
    BY <2>0, <2>4 DEF StartHeader, FinishHeader, AdoptJointPlan
  <2> QED
    BY <2>1, <2>2, <2>3, <2>4 DEF Next, Done, vars, UserEdits, Prepare,
       StartDiscovery, StartOriginal, FinishOriginal, Flatten, FinishJoint, FinishHeaders,
       Verify, Validate, Publish
<1> QED
  BY <1>0, <1>a, <1>b, <1>c, <1>d DEF Unsettled

\* The running parse knows its main file: the root, or a selected header.
LEMMA MainOfParseNext ==
  ASSUME Inv, [Next]_vars
  PROVE  MainOfParse'
<1>0. TypeOK /\ MainOfParse /\ RootSaved
  BY DEF Inv
<1>k. /\ disk \in [Files -> Versions] /\ Root \in Files /\ Headers \subseteq Files
      /\ project \in Projects /\ None \notin Versions /\ Versions \subseteq Known
  BY <1>0 DEF TypeOK, Files, Versions, None, Known
<1>1. CASE pc' \notin ParseLabels
  BY <1>1 DEF MainOfParse, ParseLabels
<1>2. CASE pc' = pc /\ parse' = parse /\ plan' = plan /\ checking' = checking
  BY <1>0, <1>2 DEF MainOfParse, Selected
<1>3. CASE StartDiscovery
  <2>1. /\ parse' = NewParse(Root, 0, disk[Root], Directives(Root, disk[Root]))
        /\ pc' = "parseDiscovery"
    BY <1>3 DEF StartDiscovery, Give
  <2>2. Directives(Root, disk[Root]) \in Seq(Includes) /\ disk[Root] \in Versions
    BY <1>k, DirectivesType
  <2>3. parse'.main = Root /\ parse'.depth = 0 /\ parse'.seen[Root] = disk[Root]
    BY <1>k, <2>1, <2>2, NewParseShape
  <2> QED
    BY <1>k, <2>1, <2>2, <2>3 DEF MainOfParse
<1>4. CASE Directive
  <2>1. /\ pc' = pc /\ pc \in ParseLabels /\ parse.todo # <<>> /\ checking' = checking
        /\ parse' = AfterDirective(Head(parse.todo)) /\ Selected(plan) \subseteq Selected(plan')
    BY <1>0, <1>4, DirectiveEffect DEF Grown
  <2>2. /\ parse'.main = parse.main /\ parse'.depth = parse.depth
        /\ \A f \in Files : parse.seen[f] # None => parse'.seen[f] = parse.seen[f]
    BY <1>0, <2>1, DirectiveShape
  <2>3. parse.main \in Files
    BY <1>0 DEF TypeOK, Parses
  <2>4. Selected(plan)' = Selected(plan')
    BY DEF Selected
  <2> QED
    BY <1>0, <2>1, <2>2, <2>3, <2>4 DEF MainOfParse
<1>5. CASE StartOriginal
  <2>1. CASE /\ disk[Root] = saved /\ pc' = "parseOriginal"
             /\ parse' = NewParse(Root, 0, saved, Directives(Root, saved))
    <3>1. Directives(Root, saved) \in Seq(Includes) /\ saved \in Versions
      BY <1>k, <2>1, DirectivesType
    <3>2. parse'.main = Root /\ parse'.depth = 0 /\ parse'.seen[Root] = saved
      BY <1>k, <2>1, <3>1, NewParseShape
    <3> QED
      BY <1>k, <2>1, <3>1, <3>2 DEF MainOfParse
  <2> QED
    BY <1>1, <1>5, <2>1 DEF StartOriginal, Abandon, Give, ParseLabels
<1>6. CASE Flatten
  <2>1. /\ pc = "flatten" /\ ToInline \in SUBSET Headers
        /\ \/ pc' = "refused"
           \/ /\ pc' = "parseJoint" /\ checking' = ToInline
              /\ parse' = NewParse(Root, 0, saved, Flattened(saved, ToInline))
    BY <1>0, <1>6, FlattenEffect
  <2>2. CASE pc' = "parseJoint"
    <3>1. saved \in Versions
      BY <1>0, <2>1 DEF TypeOK, RootSaved, Contextual, Known
    <3>2. Flattened(saved, ToInline) \in Seq(Includes)
      BY <1>k, <2>1, <3>1, FlattenedType
    <3>3. parse' = NewParse(Root, 0, saved, Flattened(saved, ToInline))
      BY <2>1, <2>2
    <3>4. parse'.main = Root /\ parse'.depth = 0 /\ parse'.seen[Root] = saved
      BY <1>k, <3>1, <3>2, <3>3, NewParseShape
    <3> QED
      BY <1>k, <2>1, <2>2, <3>1, <3>4 DEF MainOfParse
  <2> QED
    BY <1>1, <2>1, <2>2 DEF ParseLabels
<1>7. CASE StartHeader
  <2>1. /\ Selected(plan') = Selected(plan)
        /\ \/ pc' = "closure"
           \/ /\ pc' = "parseHeader"
              /\ \E h \in Selected(plan), depth \in Nat :
                   h \in Headers /\ parse' = NewParse(h, depth, disk[h], Directives(h, disk[h]))
    BY <1>0, <1>7, StartHeaderEffect
  <2>2. CASE pc' = "parseHeader"
    <3>1. PICK h \in Selected(plan), depth \in Nat :
            h \in Headers /\ parse' = NewParse(h, depth, disk[h], Directives(h, disk[h]))
      BY <2>1, <2>2
    <3>2. Directives(h, disk[h]) \in Seq(Includes) /\ disk[h] \in Versions /\ h \in Files
      BY <1>k, <3>1, DirectivesType
    <3>3. parse'.main = h /\ parse'.seen[h] = disk[h]
      BY <1>k, <3>1, <3>2, NewParseShape
    <3>4. Selected(plan)' = Selected(plan')
      BY DEF Selected
    <3> QED
      BY <1>k, <2>1, <2>2, <3>1, <3>2, <3>3, <3>4 DEF MainOfParse
  <2> QED
    BY <1>1, <2>1, <2>2 DEF ParseLabels
<1>8. CASE FinishDiscovery
  <2>1. plan.helper = {} /\ plan.source = {}
    BY <1>8 DEF Inv, Unsettled, FinishDiscovery
  <2>2. pc' \in {"refused", "context", "headers"}
    BY <1>0, <1>8, <2>1, FinishDiscoveryEffect
  <2> QED
    BY <1>1, <2>2 DEF ParseLabels
<1>9. CASE FinishOriginal \/ FinishJoint \/ FinishHeader
  BY <1>1, <1>9 DEF FinishOriginal, FinishJoint, FinishHeader, Abandon, Give, ParseLabels
<1>10. CASE UserEdits \/ Prepare \/ FinishHeaders \/ Verify
  BY <1>1, <1>2, <1>10 DEF UserEdits, Prepare, FinishHeaders, Verify, Abandon, Give, ParseLabels
<1>11. CASE AdoptJointPlan \/ Validate \/ Publish
  BY <1>1, <1>11 DEF AdoptJointPlan, Validate, Publish, Abandon, Give, ParseLabels
<1>12. CASE UNCHANGED vars
  BY <1>2, <1>12 DEF vars
<1> QED
  BY <1>3, <1>4, <1>5, <1>6, <1>7, <1>8, <1>9, <1>10, <1>11, <1>12 DEF Next, Done

\* More redirected includes and inlined headers leave no fewer covered.
LEMMA CoveredMono ==
  ASSUME NEW f, NEW v, NEW due, NEW edges, NEW inlined, NEW more, NEW others,
         Covered(f, v, due, edges, inlined), edges \subseteq more, inlined \subseteq others
  PROVE  Covered(f, v, due, more, others)
BY DEF Covered

\* A parse that begins has every include of its text to come, but the flattened ones.
LEMMA CoveredFirst ==
  ASSUME project \in Projects, NEW f \in Files, NEW v \in Versions, NEW edges
  PROVE  /\ Covered(f, v, Directives(f, v), edges, {})
         /\ \A S \in SUBSET Headers : Covered(Root, v, Flattened(v, S), edges, S)
<1>1. /\ DOMAIN Directives(f, v) = DOMAIN Text(f, v).incs
      /\ \A i \in DOMAIN Text(f, v).incs :
           Directives(f, v)[i] =
             [from |-> f, kind |-> Text(f, v).incs[i].kind, child |-> Text(f, v).incs[i].child]
  BY DEF Directives
<1>2. Covered(f, v, Directives(f, v), edges, {})
  BY <1>1 DEF Covered, Local
<1>3. ASSUME NEW S \in SUBSET Headers
      PROVE  Covered(Root, v, Flattened(v, S), edges, S)
  <2>1. /\ DOMAIN Flattened(v, S) = DOMAIN Text(Root, v).incs
        /\ \A i \in DOMAIN Text(Root, v).incs :
             Text(Root, v).incs[i].child \notin S => Flattened(v, S)[i] = Directives(Root, v)[i]
    BY FlattenedType
  <2>2. \A i \in DOMAIN Text(Root, v).incs :
          Directives(Root, v)[i] = [from |-> Root, kind |-> Text(Root, v).incs[i].kind,
                                    child |-> Text(Root, v).incs[i].child]
    BY DEF Directives
  <2> QED
    BY <2>1, <2>2 DEF Covered, Local
<1> QED
  BY <1>2, <1>3

\* A directive that comes off the list was redirected when it was eligible.
LEMMA CoveredStep ==
  ASSUME Inv, Directive, parse.main = Root \/ Opt.mode = "recursive", NEW inlined,
         Covered(parse.main, parse.seen[parse.main], parse.todo, Active.edges, inlined)
  PROVE  Covered(parse.main, parse.seen[parse.main], parse'.todo, Active'.edges, inlined)
<1>0. TypeOK /\ MainOfParse
  BY DEF Inv
<1> DEFINE d == Head(parse.todo)
<1>1. /\ pc \in ParseLabels /\ parse.todo # <<>> /\ parse' = AfterDirective(d)
      /\ Grown(plan, plan') /\ Grown(trial, trial')
      /\ Active' = IF d.from = parse.main THEN ObserveInclude(Active, d.from, parse.depth, d)
                   ELSE Active
      /\ pc' = pc
  BY <1>0, DirectiveEffect
<1>2. /\ d \in Includes
      /\ \A j \in DOMAIN parse.todo :
           parse.todo[j] = d \/ \E k \in DOMAIN parse'.todo : parse'.todo[k] = parse.todo[j]
  BY <1>0, <1>1, DirectiveShape
<1>3. Active.edges \subseteq Active'.edges
  BY <1>1 DEF Grown, Active
<1>4. Active \in Plans /\ parse.depth \in Nat
  BY <1>0 DEF TypeOK, Parses, Active
<1> HIDE DEF d
<1>5. parse.depth = 0 \/ Opt.mode = "recursive"
  <2>1. CASE pc = "parseHeader"
    <3>1. parse.main \in Selected(plan) /\ plan.nodes \in Seq(Nodes)
      BY <1>0, <2>1 DEF MainOfParse, TypeOK, Plans
    <3>2. \A i \in DOMAIN plan.nodes : plan.nodes[i] \in Nodes
      BY <3>1
    <3>3. parse.main \in Headers
      BY <3>1, <3>2 DEF Selected, Nodes
    <3> QED
      BY <3>3, RootAssumption
  <2> QED
    BY <1>0, <1>1, <2>1 DEF MainOfParse
<1>6. ASSUME d.kind = "local", d.from = parse.main
      PROVE  [from |-> parse.main, child |-> d.child] \in Active'.edges
  <2>1. parse.main \in Files
    BY <1>0 DEF TypeOK, Parses
  <2>2. Active' = ObserveInclude(Active, parse.main, parse.depth, d)
    BY <1>1, <1>6
  <2> QED
    BY <1>2, <1>4, <1>5, <1>6, <2>1, <2>2, ObserveShape
<1>7. ASSUME NEW i \in DOMAIN Text(parse.main, parse.seen[parse.main]).incs,
             NEW c, c = Text(parse.main, parse.seen[parse.main]).incs[i],
             c.kind = "local", c.child \notin inlined,
             [from |-> parse.main, child |-> c.child] \notin Active'.edges
      PROVE  \E k \in DOMAIN parse'.todo : parse'.todo[k] = Local(parse.main, c.child)
  <2>1. PICK j \in DOMAIN parse.todo : parse.todo[j] = Local(parse.main, c.child)
    BY <1>3, <1>7 DEF Covered
  <2>2. parse.todo[j] # d
    BY <1>6, <1>7, <2>1 DEF Local
  <2> QED
    BY <1>2, <2>1, <2>2
<1> QED
  BY <1>7 DEF Covered

\* An include is to come, redirected or flattened throughout a parse.
LEMMA InParseNext ==
  ASSUME Inv, [Next]_vars
  PROVE  InParse'
<1>0. TypeOK /\ MainOfParse /\ RootSaved /\ InParse
  BY DEF Inv
<1>p. project' = project
  BY LabelsAdvance
<1>k. /\ disk \in [Files -> Versions] /\ Root \in Files /\ Headers \subseteq Files
      /\ project \in Projects /\ Versions \subseteq Known
  BY <1>0 DEF TypeOK, Files, Known
<1> DEFINE flat == IF pc' = "parseJoint" THEN checking' ELSE {}
<1>s. SUFFICES ASSUME pc' \in ParseLabels, parse'.main = Root \/ Opt.mode = "recursive"
               PROVE  Covered(parse'.main, parse'.seen[parse'.main], parse'.todo,
                              Active'.edges, flat)
  BY <1>p DEF InParse, Covered, Text, Local, Opt
<1>1. CASE pc' \notin ParseLabels
  BY <1>1, <1>s
<1>2. CASE pc' = pc /\ parse' = parse /\ plan' = plan /\ trial' = trial /\ checking' = checking
  BY <1>0, <1>2, <1>s DEF InParse, Active
<1>3. CASE StartDiscovery
  <2>1. /\ parse' = NewParse(Root, 0, disk[Root], Directives(Root, disk[Root]))
        /\ pc' = "parseDiscovery"
    BY <1>3 DEF StartDiscovery, Give
  <2>2. Directives(Root, disk[Root]) \in Seq(Includes) /\ disk[Root] \in Versions
    BY <1>k, DirectivesType
  <2>3. /\ parse'.main = Root /\ parse'.todo = Directives(Root, disk[Root])
        /\ parse'.seen[Root] = disk[Root]
    BY <1>k, <2>1, <2>2, NewParseShape
  <2>4. Covered(Root, disk[Root], Directives(Root, disk[Root]), Active'.edges, {})
    BY <1>k, <2>2, CoveredFirst
  <2> QED
    BY <2>1, <2>3, <2>4
<1>4. CASE Directive
  <2>1. /\ pc' = pc /\ pc \in ParseLabels /\ parse.todo # <<>> /\ checking' = checking
        /\ parse' = AfterDirective(Head(parse.todo))
    BY <1>0, <1>4, DirectiveEffect
  <2>2. /\ parse'.main = parse.main
        /\ \A f \in Files : parse.seen[f] # None => parse'.seen[f] = parse.seen[f]
    BY <1>0, <2>1, DirectiveShape
  <2>3. parse.main \in Files /\ parse.seen[parse.main] # None
    BY <1>0, <2>1 DEF TypeOK, Parses, MainOfParse
  <2>4. Covered(parse.main, parse.seen[parse.main], parse.todo, Active.edges, flat)
    BY <1>0, <1>s, <2>1, <2>2 DEF InParse
  <2>5. parse.main = Root \/ Opt.mode = "recursive"
    BY <1>s, <2>2
  <2> HIDE DEF flat
  <2>6. Covered(parse.main, parse.seen[parse.main], parse'.todo, Active'.edges, flat)
    BY <1>4, <2>4, <2>5, CoveredStep
  <2> QED
    BY <2>2, <2>3, <2>6
<1>5. CASE StartOriginal
  <2>1. CASE /\ disk[Root] = saved /\ pc' = "parseOriginal"
             /\ parse' = NewParse(Root, 0, saved, Directives(Root, saved))
    <3>1. Directives(Root, saved) \in Seq(Includes) /\ saved \in Versions
      BY <1>k, <2>1, DirectivesType
    <3>a. parse' = NewParse(Root, 0, saved, Directives(Root, saved)) /\ saved \in Known
      BY <1>k, <2>1, <3>1
    <3>2. /\ parse'.main = Root /\ parse'.todo = Directives(Root, saved)
          /\ parse'.seen[Root] = saved
      BY <1>k, <3>1, <3>a, NewParseShape
    <3>3. Covered(Root, saved, Directives(Root, saved), Active'.edges, {})
      BY <1>k, <3>1, CoveredFirst
    <3> QED
      BY <2>1, <3>2, <3>3
  <2> QED
    BY <1>1, <1>5, <2>1 DEF StartOriginal, Abandon, Give, ParseLabels
<1>6. CASE Flatten
  <2>1. /\ pc = "flatten" /\ ToInline \in SUBSET Headers
        /\ \/ pc' = "refused"
           \/ /\ pc' = "parseJoint" /\ checking' = ToInline
              /\ parse' = NewParse(Root, 0, saved, Flattened(saved, ToInline))
    BY <1>0, <1>6, FlattenEffect
  <2>2. CASE pc' = "parseJoint"
    <3>1. saved \in Versions
      BY <1>0, <2>1 DEF TypeOK, RootSaved, Contextual, Known
    <3>2. Flattened(saved, ToInline) \in Seq(Includes)
      BY <1>k, <2>1, <3>1, FlattenedType
    <3>3. parse' = NewParse(Root, 0, saved, Flattened(saved, ToInline)) /\ checking' = ToInline
      BY <2>1, <2>2
    <3>4. /\ parse'.main = Root /\ parse'.todo = Flattened(saved, ToInline)
          /\ parse'.seen[Root] = saved
      BY <1>k, <3>1, <3>2, <3>3, NewParseShape
    <3>5. Covered(Root, saved, Flattened(saved, ToInline), Active'.edges, ToInline)
      BY <1>k, <2>1, <3>1, CoveredFirst
    <3> QED
      BY <2>2, <3>3, <3>4, <3>5
  <2> QED
    BY <1>1, <2>1, <2>2 DEF ParseLabels
<1>7. CASE StartHeader
  <2>1. /\ \/ pc' = "closure"
           \/ /\ pc' = "parseHeader"
              /\ \E h \in Selected(plan), depth \in Nat :
                   h \in Headers /\ parse' = NewParse(h, depth, disk[h], Directives(h, disk[h]))
    BY <1>0, <1>7, StartHeaderEffect
  <2>2. CASE pc' = "parseHeader"
    <3>1. PICK h \in Selected(plan), depth \in Nat :
            h \in Headers /\ parse' = NewParse(h, depth, disk[h], Directives(h, disk[h]))
      BY <2>1, <2>2
    <3>2. Directives(h, disk[h]) \in Seq(Includes) /\ disk[h] \in Versions /\ h \in Files
      BY <1>k, <3>1, DirectivesType
    <3>3. /\ parse'.main = h /\ parse'.seen[h] = disk[h]
          /\ parse'.todo = Directives(h, disk[h])
      BY <1>k, <3>1, <3>2, NewParseShape
    <3>4. Covered(h, disk[h], Directives(h, disk[h]), Active'.edges, {})
      BY <1>k, <3>2, CoveredFirst
    <3> QED
      BY <2>2, <3>3, <3>4
  <2> QED
    BY <1>1, <2>1, <2>2 DEF ParseLabels
<1>8. CASE FinishDiscovery
  <2>1. plan.helper = {} /\ plan.source = {}
    BY <1>8 DEF Inv, Unsettled, FinishDiscovery
  <2>2. pc' \in {"refused", "context", "headers"}
    BY <1>0, <1>8, <2>1, FinishDiscoveryEffect
  <2> QED
    BY <1>1, <2>2 DEF ParseLabels
<1>9. CASE FinishOriginal \/ FinishJoint \/ FinishHeader
  BY <1>1, <1>9 DEF FinishOriginal, FinishJoint, FinishHeader, Abandon, Give, ParseLabels
<1>10. CASE UserEdits \/ Prepare \/ FinishHeaders \/ Verify
  BY <1>1, <1>2, <1>10 DEF UserEdits, Prepare, FinishHeaders, Verify, Abandon, Give, ParseLabels
<1>11. CASE AdoptJointPlan \/ Validate \/ Publish
  BY <1>1, <1>11 DEF AdoptJointPlan, Validate, Publish, Abandon, Give, ParseLabels
<1>12. CASE UNCHANGED vars
  BY <1>2, <1>12 DEF vars
<1> QED
  BY <1>3, <1>4, <1>5, <1>6, <1>7, <1>8, <1>9, <1>10, <1>11, <1>12 DEF Next, Done

\* A staged text has every eligible include redirected or flattened.
LEMMA StagedClosedNext ==
  ASSUME Inv, [Next]_vars
  PROVE  StagedClosed'
<1>0. TypeOK /\ MainOfParse /\ InParse /\ StagedClosed /\ Unsettled
  BY DEF Inv
<1>p. /\ project' = project
      /\ pc' \in Translating => pc \in Translating \/ FinishDiscovery \/ AdoptJointPlan
  BY LabelsAdvance
<1> DEFINE Shut(p, root, header) ==
             /\ root.version # None => Covered(Root, root.version, <<>>, p.edges, p.inlined)
             /\ \A h \in Headers : header[h].version # None /\ Opt.mode = "recursive" =>
                  Covered(h, header[h].version, <<>>, p.edges, p.inlined)
<1>d. /\ pc \in Translating => Shut(plan, staged.root, staged.header)
      /\ pc = "verifyContext" => Shut(trial, staged.root, staged.header)
  BY <1>0 DEF StagedClosed, Closed
<1>t. ASSUME Shut(plan', staged'.root, staged'.header)
      PROVE  Closed(plan)'
  <2>1. (staged.root.version # None =>
           Covered(Root, staged.root.version, <<>>, plan.edges, plan.inlined))'
    BY <1>p, <1>t DEF Covered, Text, Local
  <2>2. ASSUME NEW h \in Headers
        PROVE  (staged.header[h].version # None /\ Opt.mode = "recursive" =>
                  Covered(h, staged.header[h].version, <<>>, plan.edges, plan.inlined))'
    BY <1>p, <1>t DEF Covered, Text, Local, Opt
  <2> QED
    BY <2>1, <2>2 DEF Closed
<1>u. ASSUME Shut(trial', staged'.root, staged'.header)
      PROVE  Closed(trial)'
  <2>1. (staged.root.version # None =>
           Covered(Root, staged.root.version, <<>>, trial.edges, trial.inlined))'
    BY <1>p, <1>u DEF Covered, Text, Local
  <2>2. ASSUME NEW h \in Headers
        PROVE  (staged.header[h].version # None /\ Opt.mode = "recursive" =>
                  Covered(h, staged.header[h].version, <<>>, trial.edges, trial.inlined))'
    BY <1>p, <1>u DEF Covered, Text, Local, Opt
  <2> QED
    BY <2>1, <2>2 DEF Closed
<1> SUFFICES /\ pc' \in Translating => Shut(plan', staged'.root, staged'.header)
             /\ pc' = "verifyContext" => Shut(trial', staged'.root, staged'.header)
  <2> HIDE DEF Shut
  <2> QED
    BY <1>t, <1>u DEF StagedClosed
<1>n. pc \in Settling => \A h \in Headers : staged.header[h].version = None
  BY <1>0 DEF Unsettled, NoText
<1>1. CASE pc' \notin Translating \cup {"verifyContext"}
  BY <1>1
<1>2. CASE pc' = pc /\ plan' = plan /\ trial' = trial /\ staged' = staged
  BY <1>d, <1>2
<1>3. CASE Directive
  <2>1. /\ pc' = pc /\ pc \in ParseLabels /\ Grown(plan, plan') /\ staged' = staged
    BY <1>0, <1>3, DirectiveEffect
  <2>2. plan.edges \subseteq plan'.edges /\ plan'.inlined = plan.inlined
    BY <2>1 DEF Grown, Kept
  <2>3. pc \in Translating => Shut(plan, staged.root, staged.header)
    BY <1>d
  <2>4. pc \in Translating => Shut(plan', staged'.root, staged'.header)
    BY <2>1, <2>2, <2>3, CoveredMono
  <2>5. pc' # "verifyContext"
    BY <2>1 DEF ParseLabels
  <2> HIDE DEF Shut
  <2> QED
    BY <2>1, <2>4, <2>5
<1>4. CASE FinishDiscovery
  <2>1. plan.helper = {} /\ plan.source = {} /\ plan.inlined = {}
    BY <1>0, <1>4 DEF Unsettled, FinishDiscovery, Settling
  <2>2. /\ pc = "parseDiscovery" /\ parse.todo = <<>> /\ pc' \in {"refused", "context", "headers"}
        /\ plan'.edges = plan.edges /\ plan'.inlined = plan.inlined
        /\ pc' = "headers" =>
             /\ staged'.header = staged.header
             /\ staged'.root.version = parse.seen[parse.main]
    BY <1>0, <1>4, <2>1, FinishDiscoveryEffect
  <2>3. parse.main = Root
    BY <1>0, <2>2 DEF MainOfParse, ParseLabels
  <2>4. Covered(Root, parse.seen[Root], <<>>, plan.edges, {})
    BY <1>0, <2>2, <2>3 DEF InParse, Active, ParseLabels
  <2>5. \A h \in Headers : staged.header[h].version = None
    BY <1>n, <2>2 DEF Settling
  <2>6. pc' # "verifyContext"
    BY <2>2
  <2>7. ASSUME pc' = "headers" PROVE Shut(plan', staged'.root, staged'.header)
    BY <2>1, <2>2, <2>3, <2>4, <2>5, <2>7
  <2> HIDE DEF Shut
  <2> QED
    BY <2>2, <2>6, <2>7 DEF Translating
<1>5. CASE FinishJoint
  <2>1. /\ pc = "parseJoint" /\ parse.todo = <<>>
        /\ \/ pc' = "refused"
           \/ /\ pc' = "verifyContext"
              /\ trial'.edges = trial.edges /\ trial'.inlined = checking
              /\ staged'.header = staged.header
              /\ staged'.root.version = parse.seen[parse.main]
    BY <1>0, <1>5, FinishJointEffect
  <2>2. parse.main = Root
    BY <1>0, <2>1 DEF MainOfParse, ParseLabels
  <2>3. Covered(Root, parse.seen[Root], <<>>, trial.edges, checking)
    BY <1>0, <2>1, <2>2 DEF InParse, Active, ParseLabels
  <2>4. \A h \in Headers : staged.header[h].version = None
    BY <1>n, <2>1 DEF Settling
  <2>5. ASSUME pc' = "verifyContext" PROVE Shut(trial', staged'.root, staged'.header)
    BY <2>1, <2>2, <2>3, <2>4, <2>5
  <2> HIDE DEF Shut
  <2> QED
    BY <2>1, <2>5 DEF Translating
<1>6. CASE StartHeader
  <2>1. /\ pc = "headers" /\ staged' = staged /\ plan'.edges = plan.edges
        /\ plan'.inlined = plan.inlined /\ pc' \in {"closure", "parseHeader"}
    BY <1>0, <1>6, StartHeaderEffect DEF Kept
  <2>2. Shut(plan, staged.root, staged.header)
    BY <1>d, <2>1 DEF Translating
  <2>3. Shut(plan', staged'.root, staged'.header)
    BY <2>1, <2>2
  <2> HIDE DEF Shut
  <2> QED
    BY <2>1, <2>3
<1>7. CASE FinishHeader
  <2>1. /\ pc = "parseHeader" /\ parse.todo = <<>> /\ parse.main \in Headers
        /\ plan'.edges = plan.edges /\ plan'.inlined = plan.inlined
        /\ \/ pc' = "closure" /\ staged' = staged
           \/ /\ pc' = "headers" /\ staged'.root = staged.root
              /\ staged'.header[parse.main].version = parse.seen[parse.main]
              /\ \A g \in Headers \ {parse.main} : staged'.header[g] = staged.header[g]
    BY <1>0, <1>7, FinishHeaderEffect
  <2>2. Shut(plan, staged.root, staged.header)
    BY <1>d, <2>1 DEF Translating
  <2>3. ASSUME Opt.mode = "recursive"
        PROVE  Covered(parse.main, parse.seen[parse.main], <<>>, plan.edges, plan.inlined)
    <3>1. Covered(parse.main, parse.seen[parse.main], <<>>, plan.edges, {})
      BY <1>0, <2>1, <2>3 DEF InParse, Active, ParseLabels
    <3> QED
      BY <3>1, CoveredMono
  <2>4. Shut(plan', staged'.root, staged'.header)
    <3>1. CASE staged' = staged
      BY <2>1, <2>2, <3>1
    <3>2. CASE /\ staged'.root = staged.root
               /\ staged'.header[parse.main].version = parse.seen[parse.main]
               /\ \A g \in Headers \ {parse.main} : staged'.header[g] = staged.header[g]
      <4>1. staged'.root.version # None =>
              Covered(Root, staged'.root.version, <<>>, plan'.edges, plan'.inlined)
        BY <2>1, <2>2, <3>2
      <4>2. ASSUME NEW h \in Headers, staged'.header[h].version # None, Opt.mode = "recursive"
            PROVE  Covered(h, staged'.header[h].version, <<>>, plan'.edges, plan'.inlined)
        <5>1. CASE h = parse.main
          BY <2>1, <2>3, <3>2, <4>2, <5>1
        <5>2. CASE h # parse.main
          BY <2>1, <2>2, <3>2, <4>2, <5>2
        <5> QED
          BY <5>1, <5>2
      <4> QED
        BY <4>1, <4>2
    <3> QED
      BY <2>1, <3>1, <3>2
  <2>5. pc' # "verifyContext"
    BY <2>1
  <2> HIDE DEF Shut
  <2> QED
    BY <2>4, <2>5
<1>8. CASE AdoptJointPlan
  <2>1. pc = "verifyContext" /\ plan' = trial /\ staged' = staged /\ pc' = "headers"
    BY <1>8 DEF AdoptJointPlan, Give
  <2> HIDE DEF Shut
  <2> QED
    BY <1>d, <2>1
<1>9. CASE UserEdits \/ Prepare \/ StartDiscovery \/ StartOriginal
  BY <1>1, <1>2, <1>9 DEF UserEdits, Prepare, StartDiscovery, StartOriginal, Abandon, Give,
     Translating
<1>10. CASE FinishOriginal \/ Flatten
  BY <1>1, <1>10 DEF FinishOriginal, Flatten, Abandon, Give, Translating
<1>11. CASE FinishHeaders \/ Verify \/ Validate \/ Publish
  <2>1. \/ pc' \in Over
        \/ /\ plan' = plan /\ trial' = trial /\ staged' = staged
           /\ pc \in Translating => pc' # "verifyContext"
           /\ pc \in Translating \/ (pc = "verifyContext" /\ pc' = "verifyContext")
    BY <1>11 DEF FinishHeaders, Verify, Validate, Publish, Abandon, Give, Translating, Over
  <2> HIDE DEF Shut
  <2> QED
    BY <1>1, <1>d, <2>1 DEF Translating, Over
<1>12. CASE UNCHANGED vars
  BY <1>2, <1>12 DEF vars
<1> QED
  BY <1>3, <1>4, <1>5, <1>6, <1>7, <1>8, <1>9, <1>10, <1>11, <1>12 DEF Next, Done

\* A sealed policy is the one that was demanded, of the text that is translated.
LEMMA PolicySealedNext ==
  ASSUME Inv, [Next]_vars
  PROVE  PolicySealed'
<1>0. TypeOK /\ MainOfParse /\ PolicySealed /\ Unsettled
  BY DEF Inv
<1>1. CASE plan' = plan /\ parse' = parse /\ pc' = pc
  BY <1>0, <1>1 DEF PolicySealed
<1>2. CASE plan' = plan /\ pc' # "parseHeader"
  BY <1>0, <1>2 DEF PolicySealed
<1>3. CASE Directive
  <2>1. /\ pc' = pc /\ pc \in ParseLabels /\ parse.todo # <<>> /\ Kept(plan, plan')
        /\ parse' = AfterDirective(Head(parse.todo))
    BY <1>0, <1>3, DirectiveEffect DEF Grown
  <2>2. /\ parse'.main = parse.main
        /\ \A f \in Files : parse.seen[f] # None => parse'.seen[f] = parse.seen[f]
    BY <1>0, <2>1, DirectiveShape
  <2>3. parse.main \in Files /\ parse.seen[parse.main] # None
    BY <1>0, <2>1 DEF TypeOK, Parses, MainOfParse
  <2> QED
    BY <1>0, <2>1, <2>2, <2>3 DEF PolicySealed, Kept
<1>4. CASE FinishDiscovery
  <2>1. plan.helper = {} /\ plan.source = {} /\ \A h \in Headers : plan.sealed[h] = None
    BY <1>0, <1>4 DEF Unsettled, FinishDiscovery, Settling
  <2>2. plan'.sealed = plan.sealed /\ pc' \in {"refused", "context", "headers"}
    BY <1>0, <1>4, <2>1, FinishDiscoveryEffect
  <2> QED
    BY <2>1, <2>2 DEF PolicySealed
<1>5. CASE StartHeader
  <2>1. /\ Kept(plan, plan')
        /\ \/ pc' = "closure"
           \/ /\ pc' = "parseHeader"
              /\ \E h \in Selected(plan), depth \in Nat :
                   /\ h \in Headers
                   /\ plan.policy[h] # None => disk[h] = plan.policy[h]
                   /\ parse' = NewParse(h, depth, disk[h], Directives(h, disk[h]))
    BY <1>0, <1>5, StartHeaderEffect
  <2>2. CASE pc' = "parseHeader"
    <3>1. PICK h \in Headers, depth \in Nat :
            /\ plan.policy[h] # None => disk[h] = plan.policy[h]
            /\ parse' = NewParse(h, depth, disk[h], Directives(h, disk[h]))
      BY <2>1, <2>2
    <3>2. parse'.main = h /\ parse'.seen = [g \in Files |-> IF g = h THEN disk[h] ELSE None]
      BY <3>1 DEF NewParse
    <3>3. parse'.seen[h] = disk[h]
      BY <3>2 DEF Files
    <3> QED
      BY <1>0, <2>1, <3>1, <3>2, <3>3 DEF PolicySealed, Kept
  <2>3. CASE pc' = "closure"
    BY <1>0, <2>1, <2>3 DEF PolicySealed, Kept
  <2> QED
    BY <2>1, <2>2, <2>3
<1>6. CASE FinishHeader
  <2>1. /\ pc = "parseHeader" /\ plan'.policy = plan.policy
        /\ \/ pc' = "closure" /\ plan'.sealed = plan.sealed
           \/ /\ pc' = "headers"
              /\ \A g \in Headers :
                   plan'.sealed[g] = IF g = parse.main /\ plan.policy[g] # None
                                     THEN parse.seen[parse.main] ELSE plan.sealed[g]
    BY <1>0, <1>6, FinishHeaderEffect
  <2> QED
    BY <1>0, <2>1 DEF PolicySealed
<1>7. CASE AdoptJointPlan
  <2>1. plan' = trial /\ pc' = "headers"
    BY <1>7 DEF AdoptJointPlan, Give
  <2> QED
    BY <1>0, <2>1 DEF PolicySealed, Unsettled
<1>8. CASE UserEdits \/ Prepare \/ StartDiscovery \/ StartOriginal
  BY <1>1, <1>2, <1>8 DEF UserEdits, Prepare, StartDiscovery, StartOriginal, Abandon, Give
<1>9. CASE FinishOriginal \/ Flatten \/ FinishJoint
  BY <1>2, <1>9 DEF FinishOriginal, Flatten, FinishJoint, Abandon, Give
<1>10. CASE FinishHeaders \/ Verify \/ Validate \/ Publish
  BY <1>1, <1>2, <1>10 DEF FinishHeaders, Verify, Validate, Publish, Abandon, Give
<1>11. CASE UNCHANGED vars
  BY <1>1, <1>11 DEF vars
<1> QED
  BY <1>3, <1>4, <1>5, <1>6, <1>7, <1>8, <1>9, <1>10, <1>11 DEF Next, Done

\* Only selected headers are staged.
LEMMA StagedSelectedNext ==
  ASSUME Inv, [Next]_vars
  PROVE  StagedSelected'
<1>0. TypeOK /\ MainOfParse /\ StagedSelected /\ Unsettled
  BY DEF Inv
<1>s. SUFFICES ASSUME pc' \in Translating, NEW h \in Headers, staged'.header[h] # NoText
               PROVE  h \in Selected(plan')
  BY DEF StagedSelected, Selected
<1>p. pc \in Translating \/ FinishDiscovery \/ AdoptJointPlan
  BY <1>s, LabelsAdvance
<1>n. pc \in Settling => staged.header[h] = NoText
  BY <1>0 DEF Unsettled
<1>d. pc \in Translating /\ staged.header[h] # NoText => h \in Selected(plan)
  BY <1>0 DEF StagedSelected
<1>1. CASE FinishDiscovery
  <2>1. plan.helper = {} /\ plan.source = {}
    BY <1>0, <1>1 DEF Unsettled, FinishDiscovery, Settling
  <2>2. /\ pc = "parseDiscovery" /\ pc' \in {"refused", "context", "headers"}
        /\ pc' = "headers" => staged'.header = staged.header
    BY <1>0, <1>1, <2>1, FinishDiscoveryEffect
  <2> QED
    BY <1>s, <1>n, <2>2 DEF Translating, Settling
<1>2. CASE AdoptJointPlan
  BY <1>s, <1>n, <1>2 DEF AdoptJointPlan, Settling
<1>3. CASE pc \in Translating /\ Directive
  BY <1>0, <1>s, <1>d, <1>3, DirectiveEffect DEF Grown
<1>4. CASE pc \in Translating /\ StartHeader
  BY <1>0, <1>s, <1>d, <1>4, StartHeaderEffect
<1>5. CASE pc \in Translating /\ FinishHeader
  BY <1>0, <1>s, <1>d, <1>5, FinishHeaderEffect
<1>6. CASE pc \in Translating /\ plan' = plan /\ staged' = staged
  BY <1>s, <1>d, <1>6
<1>7. CASE pc \in Translating /\ (FinishHeaders \/ Verify \/ Validate \/ Publish)
  BY <1>s, <1>6, <1>7 DEF FinishHeaders, Verify, Validate, Publish, Abandon, Give, Translating
<1>8. CASE /\ pc \in Translating
           /\ FinishOriginal \/ Flatten \/ FinishJoint \/ Prepare \/ StartOriginal
  BY <1>8 DEF FinishOriginal, Flatten, FinishJoint, Prepare, StartOriginal, Translating
<1> QED
  BY <1>p, <1>1, <1>2, <1>3, <1>4, <1>5, <1>6, <1>7, <1>8 DEF Next, Done, vars, UserEdits,
     StartDiscovery

\* The root of the closure is the one of the evidence or of the target.
LEMMA RootBoundNext ==
  ASSUME Inv, [Next]_vars
  PROVE  RootBound'
<1>0. TypeOK /\ MainOfParse /\ RootSaved /\ RootBound /\ Unsettled
  BY DEF Inv
<1>p. project' = project
  BY LabelsAdvance
<1>k. /\ Root \in Files /\ Headers \subseteq Files /\ project \in Projects
      /\ parse.main \in Files /\ parse.seen \in [Files -> Known]
  BY <1>0 DEF TypeOK, Files, Parses
<1>1. CASE pc' \notin Contextual \cup Translating
  BY <1>1 DEF RootBound, Contextual
<1>2. CASE /\ pc' = pc /\ parse' = parse /\ plan' = plan /\ trial' = trial /\ staged' = staged
           /\ original' = original /\ target' = target /\ saved' = saved
  BY <1>0, <1>2, <1>p DEF RootBound, Opt
<1>3. CASE Directive
  <2>1. /\ pc' = pc /\ pc \in ParseLabels /\ parse.todo # <<>>
        /\ plan'.inlined = plan.inlined /\ plan'.evidence = plan.evidence
        /\ parse' = AfterDirective(Head(parse.todo))
        /\ UNCHANGED <<saved, original, staged, target>>
    BY <1>0, <1>3, DirectiveEffect DEF Grown, Kept
  <2>2. \A f \in Files : parse.seen[f] # None => parse'.seen[f] = parse.seen[f]
    BY <1>0, <2>1, DirectiveShape
  <2>3. pc \in {"parseOriginal", "parseJoint"} => parse.seen[Root] = saved /\ saved # None
    BY <1>0 DEF RootBound, RootSaved, Contextual
  <2>4. pc \in {"parseOriginal", "parseJoint"} => parse'.seen[Root] = saved
    BY <1>k, <2>2, <2>3
  <2>5. pc # "verifyContext"
    BY <2>1 DEF ParseLabels
  <2> QED
    BY <1>0, <1>p, <2>1, <2>4, <2>5 DEF RootBound, Opt
<1>4. CASE FinishDiscovery
  <2>1. plan.helper = {} /\ plan.source = {} /\ plan.inlined = {}
        /\ \A h \in Headers : staged.header[h] = NoText
    BY <1>0, <1>4 DEF Unsettled, FinishDiscovery, Settling
  <2>2. /\ pc = "parseDiscovery" /\ pc' \in {"refused", "context", "headers"}
        /\ plan'.inlined = plan.inlined
        /\ pc' = "headers" =>
             /\ staged'.header = staged.header
             /\ staged'.root.version = parse.seen[parse.main]
             /\ Opt.standalone =>
                  \A f \in Files : target'[f] = IF parse.seen[f] # None THEN parse.seen[f]
                                                ELSE target[f]
    BY <1>0, <1>4, <2>1, FinishDiscoveryEffect
  <2>3. parse.main = Root /\ parse.seen[Root] # None
    BY <1>0, <2>2 DEF MainOfParse, ParseLabels
  <2>4. CASE pc' = "headers"
    BY <1>k, <1>p, <2>1, <2>2, <2>3, <2>4 DEF RootBound, Opt, Contextual
  <2> QED
    BY <1>1, <2>2, <2>4 DEF Contextual, Translating
<1>5. CASE StartOriginal
  <2>1. CASE /\ ~Opt.standalone /\ pc' = "parseOriginal" /\ saved' = saved
             /\ parse' = NewParse(Root, 0, saved, Directives(Root, saved))
    <3>1. parse'.seen[Root] = saved
      BY <1>k, <2>1 DEF NewParse
    <3> QED
      BY <1>p, <2>1, <3>1 DEF RootBound, Opt, Translating
  <2> QED
    BY <1>1, <1>5, <2>1 DEF StartOriginal, Abandon, Give, Contextual, Translating
<1>6. CASE FinishOriginal
  <2>1. /\ pc = "parseOriginal" /\ original' = parse /\ saved' = saved
        /\ pc' \in {"refused", "flatten"}
    BY <1>0, <1>6, FinishOriginalEffect
  <2>2. parse.seen[Root] = saved /\ ~Opt.standalone
    BY <1>0, <2>1 DEF RootBound, Contextual
  <2>3. CASE pc' = "flatten"
    BY <1>p, <2>1, <2>2, <2>3 DEF RootBound, Opt, Translating
  <2> QED
    BY <1>1, <2>1, <2>3 DEF Contextual, Translating
<1>7. CASE Flatten
  <2>1. /\ pc = "flatten" /\ original' = original /\ saved' = saved
        /\ \/ pc' = "refused"
           \/ /\ pc' = "parseJoint"
              /\ parse' = NewParse(Root, 0, saved, Flattened(saved, ToInline))
    BY <1>0, <1>7, FlattenEffect
  <2>2. original.seen[Root] = saved /\ ~Opt.standalone
    BY <1>0, <2>1 DEF RootBound, Contextual
  <2>3. CASE pc' = "parseJoint"
    <3>1. parse' = NewParse(Root, 0, saved, Flattened(saved, ToInline))
      BY <2>1, <2>3
    <3>2. parse'.seen[Root] = saved
      BY <1>k, <3>1 DEF NewParse
    <3> QED
      BY <1>p, <2>1, <2>2, <2>3, <3>2 DEF RootBound, Opt, Translating
  <2> QED
    BY <1>1, <2>1, <2>3 DEF Contextual, Translating
<1>8. CASE FinishJoint
  <2>1. /\ pc = "parseJoint" /\ original' = original /\ saved' = saved
        /\ \/ pc' = "refused"
           \/ /\ pc' = "verifyContext" /\ trial'.evidence = original.seen
              /\ staged'.root.version = parse.seen[parse.main]
    BY <1>0, <1>8, FinishJointEffect
  <2>2. original.seen[Root] = saved /\ parse.seen[Root] = saved /\ ~Opt.standalone
        /\ parse.main = Root
    BY <1>0, <2>1 DEF RootBound, Contextual, MainOfParse, ParseLabels
  <2>3. CASE pc' = "verifyContext"
    BY <1>p, <2>1, <2>2, <2>3 DEF RootBound, Opt, Translating
  <2> QED
    BY <1>1, <2>1, <2>3 DEF Contextual, Translating
<1>9. CASE AdoptJointPlan
  <2>1. /\ pc = "verifyContext" /\ plan' = trial /\ staged' = staged /\ target' = target
        /\ pc' = "headers"
    BY <1>9 DEF AdoptJointPlan, Give
  <2>2. staged.root.version = trial.evidence[Root] /\ ~Opt.standalone
    BY <1>0, <2>1 DEF RootBound, Contextual
  <2> QED
    BY <1>p, <2>1, <2>2 DEF RootBound, Opt, Contextual
<1>10. CASE StartHeader
  <2>1. /\ pc = "headers" /\ Kept(plan, plan') /\ UNCHANGED <<staged, target>>
        /\ pc' \in {"closure", "parseHeader"}
    BY <1>0, <1>10, StartHeaderEffect
  <2>2. pc' \notin Contextual /\ pc \in Translating
    BY <2>1 DEF Contextual, Translating
  <2> QED
    BY <1>0, <1>p, <2>1, <2>2 DEF RootBound, Opt, Kept, Contextual
<1>11. CASE FinishHeader
  <2>1. /\ pc = "parseHeader" /\ target' = target /\ parse.main \in Headers
        /\ plan'.inlined = plan.inlined /\ plan'.evidence = plan.evidence
        /\ \/ pc' = "closure" /\ staged' = staged
           \/ /\ pc' = "headers"
              /\ Opt.standalone => Bound(FALSE)
              /\ staged'.root = staged.root
              /\ staged'.header[parse.main].version = parse.seen[parse.main]
              /\ \A g \in Headers \ {parse.main} : staged'.header[g] = staged.header[g]
    BY <1>0, <1>11, FinishHeaderEffect
  <2>2. pc' \notin Contextual /\ pc \in Translating
    BY <2>1 DEF Contextual, Translating
  <2>3. parse.seen[parse.main] # None
    BY <1>0, <2>1 DEF MainOfParse, ParseLabels
  <2>4. pc' = "headers" /\ Opt.standalone =>
          staged'.header[parse.main].version = target[parse.main]
    BY <1>k, <2>1, <2>3 DEF Bound
  <2>5. /\ plan.inlined # {} => ~Opt.standalone /\ staged.root.version = plan.evidence[Root]
        /\ Opt.standalone =>
             /\ staged.root.version = target[Root]
             /\ \A h \in Headers : staged.header[h] # NoText => staged.header[h].version = target[h]
    BY <1>0, <2>2 DEF RootBound
  <2>6. /\ plan'.inlined # {} => ~Opt.standalone /\ staged'.root.version = plan'.evidence[Root]
        /\ Opt.standalone =>
             /\ staged'.root.version = target'[Root]
             /\ \A h \in Headers : staged'.header[h] # NoText =>
                  staged'.header[h].version = target'[h]
    BY <2>1, <2>4, <2>5
  <2> QED
    BY <1>p, <2>2, <2>6 DEF RootBound, Opt, Contextual
<1>12. CASE UserEdits \/ Prepare \/ StartDiscovery
  BY <1>1, <1>2, <1>12 DEF UserEdits, Prepare, StartDiscovery, Abandon, Give, Contextual,
     Translating
<1>13. CASE FinishHeaders \/ Verify \/ Validate \/ Publish
  <2>1. \/ pc' \in Over
        \/ /\ plan' = plan /\ trial' = trial /\ staged' = staged /\ original' = original
           /\ target' = target /\ pc' \in Translating /\ pc \in Translating
        \/ pc' = pc /\ parse' = parse /\ plan' = plan /\ trial' = trial /\ staged' = staged
           /\ original' = original /\ target' = target /\ saved' = saved
    BY <1>13 DEF FinishHeaders, Verify, Validate, Publish, Abandon, Give, Translating, Over
  <2>2. CASE pc' \in Over
    BY <1>1, <2>2 DEF Over, Contextual, Translating
  <2>3. CASE /\ plan' = plan /\ trial' = trial /\ staged' = staged /\ original' = original
             /\ target' = target /\ pc' \in Translating /\ pc \in Translating
    BY <1>0, <1>p, <2>3 DEF RootBound, Opt, Contextual, Translating
  <2> QED
    BY <1>2, <2>1, <2>2, <2>3
<1>14. CASE UNCHANGED vars
  BY <1>2, <1>14 DEF vars
<1> QED
  BY <1>3, <1>4, <1>5, <1>6, <1>7, <1>8, <1>9, <1>10, <1>11, <1>12, <1>13, <1>14 DEF Next, Done

\* Inputs that were compared were on disk after the last translation.
LEMMA RecheckedNext ==
  ASSUME Inv, [Next]_vars
  PROVE  Rechecked'
<1>0. TypeOK /\ Rechecked
  BY DEF Inv
<1>p. project' = project
  BY LabelsAdvance
<1>a. ASSUME history' = history, disk' = disk, pc' \notin {"verifyClosure", "publish"}
      PROVE  Rechecked'
  BY <1>0, <1>a DEF Rechecked
<1>1. CASE UserEdits
  <2>1. /\ disk' \in history' /\ history \subseteq history'
        /\ UNCHANGED <<pc, plan, target, checking>>
    BY <1>1 DEF UserEdits
  <2> QED
    BY <1>0, <1>p, <2>1 DEF Rechecked, Opt
<1>2. CASE FinishHeaders
  <2>1. /\ history' = {disk} /\ disk' = disk /\ plan' = plan /\ target' = target
        /\ \/ pc' = "refused"
           \/ /\ pc' = "verifyClosure"
              /\ Opt.standalone => TargetMatches
              /\ checking' = {f \in Files : plan.evidence[f] # None}
    BY <1>2 DEF FinishHeaders, Abandon, Give
  <2>2. CASE pc' = "refused"
    BY <2>1, <2>2 DEF Rechecked
  <2>3. CASE pc' = "verifyClosure"
    BY <1>p, <2>1, <2>3 DEF Rechecked, Opt, TargetMatches
  <2> QED
    BY <2>1, <2>2, <2>3
<1>3. CASE Verify
  <2>1. /\ history' = history /\ disk' = disk /\ plan' = plan /\ target' = target
        /\ pc \in {"verifyContext", "verifyClosure"}
        /\ \E f \in checking :
              \/ /\ InputVerified(f, IF pc = "verifyContext" THEN trial ELSE plan)
                 /\ checking' = checking \ {f} /\ pc' = pc
              \/ pc' = "refused"
    BY <1>3 DEF Verify, Abandon, Give
  <2>2. CASE pc' = "refused" \/ pc = "verifyContext"
    BY <1>a, <2>1, <2>2
  <2>3. CASE pc' = "verifyClosure" /\ pc = "verifyClosure"
    <3>1. PICK f \in checking : disk[f] = plan.evidence[f] /\ checking' = checking \ {f}
      BY <2>1, <2>3 DEF InputVerified
    <3>2. disk \in history
      BY <1>0 DEF Rechecked
    <3> QED
      BY <1>0, <1>p, <2>1, <2>3, <3>1, <3>2 DEF Rechecked, Opt
  <2> QED
    BY <2>1, <2>2, <2>3
<1>4. CASE Validate
  <2>1. /\ history' = history /\ disk' = disk /\ plan' = plan /\ target' = target
        /\ pc = "verifyClosure" /\ checking = {} /\ pc' \in {"refused", "analysed", "publish"}
    BY <1>4 DEF Validate, Abandon, Give
  <2> QED
    BY <1>0, <1>p, <2>1 DEF Rechecked, Opt
<1>5. CASE Publish
  BY <1>a, <1>5 DEF Publish, Abandon, Give
<1>6. CASE Directive
  <2>1. pc' = pc /\ pc \in ParseLabels /\ history' = history /\ disk' = disk
    BY <1>0, <1>6, DirectiveEffect
  <2> QED
    BY <1>a, <2>1 DEF ParseLabels
<1>7. CASE FinishDiscovery
  <2>1. plan.helper = {} /\ plan.source = {}
    BY <1>7 DEF Inv, Unsettled, FinishDiscovery
  <2>2. /\ pc' \in {"refused", "context", "headers"} /\ history' = history /\ disk' = disk
    BY <1>0, <1>7, <2>1, FinishDiscoveryEffect
  <2> QED
    BY <1>a, <2>2
<1>8. CASE Prepare \/ StartDiscovery \/ StartOriginal \/ FinishOriginal \/ Flatten
  BY <1>a, <1>8 DEF Prepare, StartDiscovery, StartOriginal, FinishOriginal, Flatten, Abandon, Give
<1>9. CASE FinishJoint \/ AdoptJointPlan \/ StartHeader \/ FinishHeader
  BY <1>a, <1>9 DEF FinishJoint, AdoptJointPlan, StartHeader, FinishHeader, Abandon, Give
<1>10. CASE UNCHANGED vars
  BY <1>0, <1>10, <1>p DEF Rechecked, Opt, vars
<1> QED
  BY <1>1, <1>2, <1>3, <1>4, <1>5, <1>6, <1>7, <1>8, <1>9, <1>10 DEF Next, Done

\* A dependent header is selected, asked for, flattened and inlined in turn.
LEMMA DependentNext ==
  ASSUME Inv, [Next]_vars
  PROVE  DependentKept'
<1>0. TypeOK /\ MainOfParse /\ DependentKept /\ Unsettled
  BY DEF Inv
<1>p. project' = project
  BY LabelsAdvance
<1>d. ASSUME discovery' = discovery
      PROVE  Dependent' = Dependent
  BY <1>p, <1>d DEF Dependent, Text
<1>1. CASE pc' \in Over
  BY <1>1 DEF DependentKept, Over, Translating
<1>2. CASE /\ pc' = pc /\ parse' = parse /\ plan' = plan /\ trial' = trial /\ staged' = staged
           /\ discovery' = discovery /\ checking' = checking
  BY <1>0, <1>2, <1>p, <1>d DEF DependentKept, Opt, Selected
<1>3. CASE Prepare \/ StartDiscovery
  <2>1. /\ plan' = plan /\ pc \in {"start", "discover"}
        /\ \/ pc' = "refused" \/ pc' = "discover"
           \/ pc' = "parseDiscovery" /\ parse'.edges = {}
    BY <1>3 DEF Prepare, StartDiscovery, Abandon, Give, NewParse
  <2>2. CASE pc' = "refused"
    BY <1>1, <2>2 DEF Over
  <2>3. CASE pc' # "refused"
    BY <1>0, <2>1, <2>3 DEF DependentKept, Translating
  <2> QED
    BY <2>2, <2>3
<1>4. CASE Directive
  <2> DEFINE d == Head(parse.todo)
  <2>1. /\ pc' = pc /\ pc \in ParseLabels /\ parse.todo # <<>> /\ parse' = AfterDirective(d)
        /\ Grown(plan, plan') /\ Grown(trial, trial')
        /\ Active' = IF d.from = parse.main THEN ObserveInclude(Active, d.from, parse.depth, d)
                     ELSE Active
        /\ UNCHANGED <<discovery, checking, staged>>
    BY <1>0, <1>4, DirectiveEffect
  <2>2. /\ d \in Includes
        /\ \A e \in parse'.edges \ parse.edges :
             d.kind = "local" /\ e.from = d.from /\ e.child = d.child
    BY <1>0, <2>1, DirectiveShape
  <2> HIDE DEF d
  <2>3. CASE pc = "parseDiscovery"
    <3>1. parse.main = Root /\ parse.depth = 0 /\ Active = plan /\ Active' = plan'
      BY <1>0, <2>1, <2>3 DEF MainOfParse, ParseLabels, Active
    <3>2. plan \in Plans
      BY <1>0 DEF TypeOK
    <3>3. CASE d.from # Root
      <4>1. plan' = plan /\ \A e \in parse'.edges : e.from = Root => e \in parse.edges
        BY <2>1, <2>2, <3>1, <3>3
      <4> QED
        BY <1>0, <2>1, <2>3, <4>1 DEF DependentKept, Translating, Selected
    <3>4. CASE d.from = Root
      <4>1. plan' = ObserveInclude(plan, Root, 0, d)
        BY <2>1, <3>1, <3>4
      <4>2. /\ Selected(plan) \subseteq Selected(plan')
            /\ \A i \in DOMAIN plan'.nodes :
                 \/ i \in DOMAIN plan.nodes /\ plan'.nodes[i] = plan.nodes[i]
                 \/ plan'.nodes[i].depth = 0 + 1
            /\ d.kind = "local" => d.child \in Selected(plan')
        <5>1. 0 \in Nat /\ Root \in Files
          BY DEF Files
        <5> QED
          BY <2>2, <3>2, <4>1, <5>1, ObserveShape
      <4>3. \A i \in DOMAIN plan'.nodes : plan'.nodes[i].depth = 1
        BY <1>0, <2>3, <4>2 DEF DependentKept
      <4>4. \A e \in parse'.edges : e.from = Root => e.child \in Selected(plan')
        BY <1>0, <2>2, <2>3, <4>2 DEF DependentKept
      <4>5. Selected(plan)' = Selected(plan')
        BY DEF Selected
      <4> QED
        BY <2>1, <2>3, <4>3, <4>4, <4>5 DEF DependentKept, Translating
    <3> QED
      BY <3>3, <3>4
  <2>4. CASE pc # "parseDiscovery"
    <3>1. Dependent' = Dependent
      BY <1>d, <2>1
    <3>2. pc \notin {"start", "discover", "parseDiscovery"}
      BY <2>1, <2>4 DEF ParseLabels
    <3> QED
      BY <1>0, <1>p, <2>1, <3>1, <3>2 DEF DependentKept, Grown, Kept, Opt
  <2> QED
    BY <2>3, <2>4
<1>5. CASE FinishDiscovery
  <2>1. plan.helper = {} /\ plan.source = {}
    BY <1>0, <1>5 DEF Unsettled, FinishDiscovery
  <2>2. /\ pc = "parseDiscovery" /\ plan'.nodes = plan.nodes
        /\ pc' \in {"refused", "context", "headers"}
        /\ Opt.mode = "recursive" =>
              \A h \in Headers :
                (IsSelectedRootHeader(plan, h) /\ parse.seen[h] # None
                 /\ Text(h, parse.seen[h]).needs # "none")
                  => h \in plan'.helper \cup plan'.source
        /\ discovery'.seen = parse.seen /\ discovery'.edges = parse.edges
        /\ pc' = "headers" /\ Opt.mode = "recursive" => plan'.helper = {} /\ plan'.source = {}
    BY <1>0, <1>5, <2>1, FinishDiscoveryEffect
  <2>3. ASSUME Opt.mode = "recursive", NEW h \in Dependent'
        PROVE  h \in plan'.helper \cup plan'.source
    <3>1. /\ h \in Headers /\ parse.seen[h] # None /\ Text(h, parse.seen[h]).needs # "none"
          /\ [from |-> Root, child |-> h, skipped |-> FALSE] \in parse.edges
      BY <1>p, <2>2, <2>3 DEF Dependent, Text
    <3>2. h \in Selected(plan)
      BY <1>0, <2>2, <3>1 DEF DependentKept
    <3>3. IsSelectedRootHeader(plan, h)
      BY <1>0, <2>2, <3>2 DEF DependentKept, Selected, IsSelectedRootHeader
    <3> QED
      BY <2>2, <2>3, <3>1, <3>3
  <2>4. CASE pc' = "context"
    BY <1>p, <2>3, <2>4 DEF DependentKept, Opt, Translating
  <2>5. CASE pc' = "headers"
    BY <1>p, <2>2, <2>3, <2>5 DEF DependentKept, Opt, Translating
  <2> QED
    BY <1>1, <2>2, <2>4, <2>5 DEF Over
<1>6. CASE StartOriginal
  <2>1. /\ pc = "context" /\ plan' = plan /\ discovery' = discovery
        /\ pc' \in {"refused", "parseOriginal"}
    BY <1>6 DEF StartOriginal, Abandon, Give
  <2>2. CASE pc' = "parseOriginal"
    BY <1>0, <1>p, <1>d, <2>1, <2>2 DEF DependentKept, Opt, Translating
  <2> QED
    BY <1>1, <2>1, <2>2 DEF Over
<1>7. CASE FinishOriginal
  <2>1. /\ pc = "parseOriginal" /\ discovery' = discovery
        /\ \/ pc' = "refused"
           \/ pc' = "flatten" /\ trial'.helper = plan.helper /\ trial'.source = plan.source
    BY <1>0, <1>7, FinishOriginalEffect
  <2>2. CASE pc' = "flatten"
    BY <1>0, <1>p, <1>d, <2>1, <2>2 DEF DependentKept, Opt, Translating
  <2> QED
    BY <1>1, <2>1, <2>2 DEF Over
<1>8. CASE Flatten
  <2>1. /\ pc = "flatten" /\ discovery' = discovery
        /\ \/ pc' = "refused"
           \/ /\ pc' = "parseJoint" /\ checking' = ToInline
              /\ trial.helper \cup trial.source \subseteq ToInline
    BY <1>0, <1>8, FlattenEffect
  <2>2. CASE pc' = "parseJoint"
    BY <1>0, <1>p, <1>d, <2>1, <2>2 DEF DependentKept, Opt, Translating
  <2> QED
    BY <1>1, <2>1, <2>2 DEF Over
<1>9. CASE FinishJoint
  <2>1. /\ pc = "parseJoint" /\ discovery' = discovery
        /\ \/ pc' = "refused"
           \/ /\ pc' = "verifyContext" /\ trial'.inlined = checking
              /\ staged'.root.by = "parseJoint"
    BY <1>0, <1>9, FinishJointEffect
  <2>2. CASE pc' = "verifyContext"
    BY <1>0, <1>p, <1>d, <2>1, <2>2 DEF DependentKept, Opt, Translating
  <2> QED
    BY <1>1, <2>1, <2>2 DEF Over
<1>10. CASE AdoptJointPlan
  <2>1. /\ pc = "verifyContext" /\ discovery' = discovery /\ plan' = trial /\ staged' = staged
        /\ pc' = "headers"
    BY <1>10 DEF AdoptJointPlan, Give
  <2> QED
    BY <1>0, <1>p, <1>d, <2>1 DEF DependentKept, Opt
<1>11. CASE StartHeader \/ FinishHeader
  <2>1. /\ pc \in Translating /\ pc' \in Translating /\ discovery' = discovery
        /\ plan'.inlined = plan.inlined /\ staged'.root = staged.root
    <3>1. CASE StartHeader
      BY <1>0, <3>1, StartHeaderEffect DEF Kept, Translating
    <3>2. CASE FinishHeader
      BY <1>0, <3>2, FinishHeaderEffect DEF Translating
    <3> QED
      BY <1>11, <3>1, <3>2
  <2>2. pc' \notin Settling
    BY <2>1 DEF Translating, Settling
  <2> QED
    BY <1>0, <1>p, <1>d, <2>1, <2>2 DEF DependentKept, Opt, Settling
<1>12. CASE UserEdits
  BY <1>2, <1>12 DEF UserEdits
<1>13. CASE FinishHeaders \/ Verify \/ Validate \/ Publish
  <2>1. \/ pc' \in Over
        \/ /\ plan' = plan /\ trial' = trial /\ staged' = staged /\ discovery' = discovery
           /\ \/ pc \in Translating /\ pc' \in Translating
              \/ pc = "verifyContext" /\ pc' = "verifyContext"
    BY <1>13 DEF FinishHeaders, Verify, Validate, Publish, Abandon, Give, Translating, Over
  <2>2. CASE /\ plan' = plan /\ trial' = trial /\ staged' = staged /\ discovery' = discovery
             /\ pc \in Translating /\ pc' \in Translating
    BY <1>0, <1>p, <1>d, <2>2 DEF DependentKept, Opt, Translating
  <2>3. CASE /\ plan' = plan /\ trial' = trial /\ staged' = staged /\ discovery' = discovery
             /\ pc = "verifyContext" /\ pc' = "verifyContext"
    BY <1>0, <1>p, <1>d, <2>3 DEF DependentKept, Opt, Translating
  <2> QED
    BY <1>1, <2>1, <2>2, <2>3
<1>14. CASE UNCHANGED vars
  BY <1>2, <1>14 DEF vars
<1> QED
  BY <1>3, <1>4, <1>5, <1>6, <1>7, <1>8, <1>9, <1>10, <1>11, <1>12, <1>13, <1>14 DEF Next, Done

\* Nothing is published that was not validated.
LEMMA ValidatedNext ==
  ASSUME Inv, [Next]_vars
  PROVE  Validated'
<1>0. TypeOK /\ Validated /\ PolicySealed
  BY DEF Inv
<1>p. project' = project
  BY LabelsAdvance
<1>1. CASE pc' # "publish"
  BY <1>1 DEF Validated
<1>2. CASE pc' = pc /\ plan' = plan /\ staged' = staged
  BY <1>0, <1>p, <1>2 DEF Validated, Selected, ArtifactsIsolated, Opt
<1>3. CASE Validate
  <2>1. /\ plan' = plan
        /\ \/ pc' \in Over
           \/ /\ pc' = "publish" /\ staged' = staged
              /\ ArtifactsIsolated(plan) /\ StagedValid(plan)
    BY <1>3 DEF Validate, Abandon, Give, Over
  <2>2. CASE pc' = "publish"
    <3>0. staged' = staged /\ ArtifactsIsolated(plan) /\ StagedValid(plan)
      BY <2>1, <2>2 DEF Over
    <3>1. \A h \in Selected(plan) : staged.header[h] # NoText
      BY <3>0 DEF StagedValid, Selected
    <3>2. \A e \in plan.edges :
            e.child \in (IF e.from = Root THEN staged.root ELSE staged.header[e.from]).redirects
      BY <3>0 DEF StagedValid
    <3>3. \A h \in Headers : plan.policy[h] # None => staged.header[h].version = plan.policy[h]
      BY <1>0, <3>0 DEF StagedValid, PoliciesValid, PolicySealed
    <3>4. ArtifactsIsolated(plan)'
      BY <1>p, <2>1, <3>0 DEF ArtifactsIsolated, Opt
    <3> QED
      BY <2>1, <3>0, <3>1, <3>2, <3>3, <3>4 DEF Validated, Selected
  <2> QED
    BY <1>1, <2>1, <2>2 DEF Over
<1>4. CASE Directive
  <2>1. pc' = pc /\ pc \in ParseLabels
    BY <1>0, <1>4, DirectiveEffect
  <2> QED
    BY <1>1, <2>1 DEF ParseLabels
<1>5. CASE FinishDiscovery
  <2>1. plan.helper = {} /\ plan.source = {}
    BY <1>5 DEF Inv, Unsettled, FinishDiscovery
  <2>2. pc' \in {"refused", "context", "headers"}
    BY <1>0, <1>5, <2>1, FinishDiscoveryEffect
  <2> QED
    BY <1>1, <2>2
<1>6. CASE Prepare \/ StartDiscovery \/ StartOriginal \/ FinishOriginal \/ Flatten \/ FinishJoint
  BY <1>1, <1>6 DEF Prepare, StartDiscovery, StartOriginal, FinishOriginal, Flatten, FinishJoint,
     Abandon, Give
<1>7. CASE AdoptJointPlan \/ StartHeader \/ FinishHeader \/ FinishHeaders \/ Publish
  BY <1>1, <1>7 DEF AdoptJointPlan, StartHeader, FinishHeader, FinishHeaders, Publish, Abandon,
     Give
<1>8. CASE UserEdits \/ Verify
  <2>1. (pc' = pc /\ plan' = plan /\ staged' = staged) \/ pc' = "refused"
    BY <1>8 DEF UserEdits, Verify, Abandon, Give
  <2> QED
    BY <1>1, <1>2, <2>1
<1>9. CASE UNCHANGED vars
  BY <1>2, <1>9 DEF vars
<1> QED
  BY <1>3, <1>4, <1>5, <1>6, <1>7, <1>8, <1>9 DEF Next, Done

\* The three properties hold of what Publish moves into place.
LEMMA PublishRight ==
  ASSUME Inv, Publish, pc' = "published"
  PROVE  (PublishedAsProved /\ OutputsClosed /\ ContextKept)'
<1>0. /\ TypeOK /\ Sourced(plan) /\ StagedClosed /\ StagedSelected /\ RootBound /\ Rechecked
      /\ DependentKept /\ Validated
  BY DEF Inv
<1>1. /\ pc = "publish"
      /\ out' = [root |-> staged.root, header |-> staged.header, inlined |-> plan.inlined,
                 evidence |-> plan.evidence, policy |-> plan.policy]
      /\ UNCHANGED <<project, discovery, target, history>>
  BY DEF Publish, Abandon, Give
<1>o. /\ out'.root = staged.root /\ out'.header = staged.header /\ out'.inlined = plan.inlined
      /\ out'.evidence = plan.evidence /\ out'.policy = plan.policy
  BY <1>1
<1>k. /\ Root \in Files /\ Headers = Files \ {Root} /\ plan \in Plans /\ pc \in Translating
      /\ plan.inlined \subseteq Headers /\ project \in Projects
  BY <1>0, <1>1, RootAssumption DEF Files, TypeOK, Plans, Translating
<1> DEFINE used == [f \in Files |->
                      IF f = Root THEN staged.root.version
                      ELSE IF f \in plan.inlined THEN plan.evidence[f]
                      ELSE IF staged.header[f] # NoText THEN staged.header[f].version
                      ELSE None]
           proved == IF plan.inlined # {} THEN plan.evidence ELSE target
<1>2. Used' = used /\ Proved' = proved
  BY <1>1, <1>o DEF Used, Proved
<1>v. /\ \A h \in Selected(plan) : staged.header[h] # NoText
      /\ \A e \in plan.edges :
           e.child \in (IF e.from = Root THEN staged.root ELSE staged.header[e.from]).redirects
      /\ \A h \in Headers : plan.policy[h] # None => staged.header[h].version = plan.policy[h]
      /\ ArtifactsIsolated(plan)
  BY <1>0, <1>1 DEF Validated
<1>3. InputsRechecked'
  <2>1. ASSUME plan.inlined # {} \/ Opt.standalone
        PROVE  /\ \A f \in Files : (f = Root \/ Opt.standalone) /\ used[f] # None =>
                     used[f] = proved[f]
               /\ \A f \in Files : proved[f] # None => \E s \in history : s[f] = proved[f]
    <3>1. CASE plan.inlined # {}
      <4>1. ~Opt.standalone /\ staged.root.version = plan.evidence[Root]
        BY <1>0, <1>k, <3>1 DEF RootBound
      <4>2. \A f \in Files : plan.evidence[f] # None => \E s \in history : s[f] = plan.evidence[f]
        BY <1>0, <1>1 DEF Rechecked
      <4> QED
        BY <1>k, <3>1, <4>1, <4>2
    <3>2. CASE plan.inlined = {}
      <4>1. Opt.standalone
        BY <2>1, <3>2
      <4>2. /\ staged.root.version = target[Root]
            /\ \A h \in Headers : staged.header[h] # NoText => staged.header[h].version = target[h]
        BY <1>0, <1>k, <4>1 DEF RootBound
      <4>3. \A f \in Files : target[f] # None => \E s \in history : s[f] = target[f]
        BY <1>0, <1>1, <4>1 DEF Rechecked
      <4>4. \A f \in Files : used[f] # None => used[f] = target[f]
        BY <1>k, <3>2, <4>2
      <4> QED
        BY <3>2, <4>3, <4>4
    <3> QED
      BY <3>1, <3>2
  <2> HIDE DEF used, proved
  <2> QED
    BY <1>1, <1>2, <1>o, <2>1 DEF InputsRechecked, Opt
<1>4. BoundOnProvedText'
  BY <1>o, <1>v DEF BoundOnProvedText
<1>5. InputsSurvive'
  <2>1. ASSUME NEW f \in Opt.clash, f \in Files, used[f] # None
        PROVE  f = Root /\ Opt.inplace
    <3>1. f \in plan.deps
      <4>1. CASE f = Root
        BY <1>0, <4>1 DEF Sourced
      <4>2. CASE f # Root /\ f \in plan.inlined
        BY <1>0, <2>1, <4>2 DEF Sourced
      <4>3. CASE f # Root /\ f \notin plan.inlined
        <5>1. staged.header[f] # NoText /\ f \in Headers
          BY <1>k, <2>1, <4>3
        <5>2. f \in Selected(plan)
          BY <1>0, <1>k, <5>1 DEF StagedSelected
        <5> QED
          BY <1>0, <5>2 DEF Sourced
      <4> QED
        BY <4>1, <4>2, <4>3
    <3> QED
      BY <1>v, <3>1 DEF ArtifactsIsolated
  <2>2. Opt.clash \subseteq Files
    BY <1>k, ProjectsAssumption DEF Options, Opt
  <2> HIDE DEF used
  <2> QED
    BY <1>1, <1>2, <2>1, <2>2 DEF InputsSurvive, Opt
<1>6. OutputsClosed'
  <2>1. ASSUME NEW f \in Files, used[f] # None, f \notin plan.inlined,
               f = Root \/ Opt.mode = "recursive",
               NEW i \in DOMAIN Text(f, used[f]).incs,
               NEW d, d = Text(f, used[f]).incs[i], d.kind = "local"
        PROVE  \/ d.child \in plan.inlined
               \/ LET text == IF f = Root THEN staged.root ELSE staged.header[f]
                  IN  d.child \in text.redirects /\ staged.header[d.child] # NoText
    <3>1. Covered(f, used[f], <<>>, plan.edges, plan.inlined)
      <4>1. CASE f = Root
        BY <1>0, <1>k, <2>1, <4>1 DEF StagedClosed, Closed
      <4>2. CASE f # Root
        <5>1. f \in Headers /\ used[f] = staged.header[f].version
          BY <1>k, <2>1, <4>2
        <5> QED
          BY <1>0, <1>k, <2>1, <4>2, <5>1 DEF StagedClosed, Closed
      <4> QED
        BY <4>1, <4>2
    <3> HIDE DEF used
    <3>2. d.child \in plan.inlined \/ [from |-> f, child |-> d.child] \in plan.edges
      BY <2>1, <3>1 DEF Covered
    <3>3. ASSUME [from |-> f, child |-> d.child] \in plan.edges
          PROVE  LET text == IF f = Root THEN staged.root ELSE staged.header[f]
                 IN  d.child \in text.redirects /\ staged.header[d.child] # NoText
      BY <1>0, <1>v, <3>3 DEF Sourced
    <3> QED
      BY <3>2, <3>3
  <2> HIDE DEF used
  <2> QED
    BY <1>1, <1>2, <1>o, <2>1 DEF OutputsClosed, Text, Opt
<1>7. ContextKept'
  <2>1. Opt.mode = "recursive" =>
          \A h \in Dependent : h \in plan.inlined /\ staged.root.by = "parseJoint"
    BY <1>0, <1>k DEF DependentKept
  <2> QED
    BY <1>1, <1>o, <2>1 DEF ContextKept, Dependent, Text, Opt
<1> QED
  BY <1>3, <1>4, <1>5, <1>6, <1>7 DEF PublishedAsProved

\* Nothing is out before the end, and what is out is right.
LEMMA OutNext ==
  ASSUME Inv, [Next]_vars
  PROVE  OutInv'
<1>0. TypeOK /\ OutInv
  BY DEF Inv
<1>1. CASE Publish /\ pc' = "published"
  BY <1>1, PublishRight DEF OutInv
<1>2. CASE UNCHANGED vars
  <2>1. UNCHANGED <<pc, out, project, discovery, target, history>>
    BY <1>2 DEF vars
  <2>2. Used' = Used /\ Proved' = Proved /\ Published' = Published /\ Opt' = Opt
    BY <2>1 DEF Used, Proved, Published, Opt
  <2>3. PublishedAsProved'
    BY <1>0, <2>1, <2>2 DEF OutInv, PublishedAsProved, InputsRechecked, BoundOnProvedText,
       InputsSurvive
  <2>4. OutputsClosed'
    BY <1>0, <2>1, <2>2 DEF OutInv, OutputsClosed, Text
  <2>5. ContextKept'
    BY <1>0, <2>1, <2>2 DEF OutInv, ContextKept, Text
  <2> QED
    BY <1>0, <2>1, <2>3, <2>4, <2>5 DEF OutInv
<1>3. ASSUME out' = NoOutput
      PROVE  OutInv'
  BY <1>3 DEF OutInv, PublishedAsProved, InputsRechecked, BoundOnProvedText,
       InputsSurvive, OutputsClosed, ContextKept, Published
<1>4. ASSUME out' = out, pc # "published"
      PROVE  OutInv'
  BY <1>0, <1>3, <1>4 DEF OutInv
<1>5. CASE Directive
  <2>1. out' = out /\ pc \in ParseLabels
    BY <1>0, <1>5, DirectiveEffect
  <2> QED
    BY <1>4, <2>1 DEF ParseLabels
<1>6. CASE UserEdits \/ Prepare \/ StartDiscovery \/ FinishDiscovery \/ StartOriginal
  BY <1>4, <1>6 DEF UserEdits, Prepare, StartDiscovery, FinishDiscovery, StartOriginal
<1>7. CASE FinishOriginal \/ Flatten \/ FinishJoint \/ AdoptJointPlan \/ StartHeader
  BY <1>4, <1>7 DEF FinishOriginal, Flatten, FinishJoint, AdoptJointPlan, StartHeader
<1>8. CASE FinishHeader \/ FinishHeaders \/ Verify \/ Validate
  BY <1>4, <1>8 DEF FinishHeader, FinishHeaders, Verify, Validate
<1>9. CASE Publish /\ pc' # "published"
  BY <1>4, <1>9 DEF Publish, Abandon, Give
<1> QED
  BY <1>1, <1>2, <1>5, <1>6, <1>7, <1>8, <1>9 DEF Next, Done

-----------------------------------------------------------------------------
(* The theorems.                                                           *)

\* The initial states satisfy the invariant.
LEMMA InvInit ==
  ASSUME Init
  PROVE  Inv
<1>1. TypeOK
  <2>1. disk \in [Files -> Versions] /\ edits \in Nat /\ history \subseteq [Files -> Versions]
    BY DEF Init, Versions
  <2>2. /\ pc \in Settling /\ project \in Projects /\ saved \in Known
        /\ plan \in Plans /\ trial \in Plans
        /\ parse \in Parses /\ discovery \in Parses /\ original \in Parses
    BY FreshShape, NoParseType DEF Init, Settling, Known
  <2>3. NoText \in Stagings
    BY DEF NoText, Stagings, Known
  <2>4. staged \in [root : Stagings, header : [Headers -> Stagings]]
    BY <2>3 DEF Init, NothingStaged
  <2>5. target \in [Files -> Known] /\ checking \subseteq Files
    BY DEF Init, Known
  <2>6. out \in [root : Stagings, header : [Headers -> Stagings], inlined : SUBSET Headers,
                 evidence : [Files -> Known], policy : [Headers -> Known]]
    BY <2>3 DEF Init, NoOutput, Known
  <2> QED
    BY <2>1, <2>2, <2>4, <2>5, <2>6 DEF TypeOK
<1>2. pc = "start" /\ plan = FreshPlan /\ trial = FreshPlan /\ staged = NothingStaged
      /\ out = NoOutput /\ disk \in history
  BY DEF Init
<1>3. RootSaved /\ Sourced(plan) /\ Sourced(trial)
  BY <1>2, FreshShape DEF RootSaved, Contextual
<1>4. Unsettled
  BY <1>2 DEF Unsettled, FreshPlan, NothingStaged
<1>5. MainOfParse /\ InParse
  BY <1>2 DEF MainOfParse, InParse, ParseLabels
<1>6. StagedClosed /\ StagedSelected /\ Rechecked /\ Validated
  BY <1>2 DEF StagedClosed, StagedSelected, Rechecked, Validated, Translating
<1>7. PolicySealed
  BY <1>2 DEF PolicySealed, FreshPlan
<1>8. RootBound
  BY <1>2 DEF RootBound, Contextual, Translating
<1>9. DependentKept
  BY <1>2 DEF DependentKept, FreshPlan, Translating
<1>10. OutInv
  BY <1>2 DEF OutInv, PublishedAsProved, InputsRechecked, BoundOnProvedText,
       InputsSurvive, OutputsClosed, ContextKept, Published
<1> QED
  BY <1>1, <1>3, <1>4, <1>5, <1>6, <1>7, <1>8, <1>9, <1>10 DEF Inv

\* The invariant is kept by every step of a translation of a closure.
THEOREM Invariant == Spec => []Inv
<1>1. Init => Inv
  BY InvInit
<1>2. Inv /\ [Next]_vars => Inv'
  <2> SUFFICES ASSUME Inv, [Next]_vars PROVE Inv'
    OBVIOUS
  <2>1. TypeOK' /\ RootSaved' /\ Sourced(plan)' /\ Sourced(trial)' /\ Unsettled'
    BY TypeNext, RootSavedNext, PlanSourcedNext, TrialSourcedNext, UnsettledNext
  <2>2. MainOfParse' /\ InParse' /\ StagedClosed' /\ PolicySealed' /\ StagedSelected'
    BY MainOfParseNext, InParseNext, StagedClosedNext, PolicySealedNext, StagedSelectedNext
  <2>3. RootBound' /\ Rechecked' /\ DependentKept' /\ Validated' /\ OutInv'
    BY RootBoundNext, RecheckedNext, DependentNext, ValidatedNext, OutNext
  <2> QED
    BY <2>1, <2>2, <2>3 DEF Inv
<1> QED
  BY <1>1, <1>2, PTL DEF Spec

\* The state of a translation of a closure is well typed, for any headers, texts
\* and options.
THEOREM TypeCorrect == Spec => []TypeOK
<1>1. Inv => TypeOK
  BY DEF Inv
<1> QED
  BY <1>1, Invariant, PTL

\* However often the user edits the inputs while they are parsed again and again:
\* what is published was rechecked against its evidence after the last
\* translation, carries every thread bound on the text that it was proved for,
\* and overwrites no input.
THEOREM PublishesWhatWasProved == Spec => []PublishedAsProved
<1>1. Inv => PublishedAsProved
  BY DEF Inv, OutInv
<1> QED
  BY <1>1, Invariant, PTL

\* What is published is closed under its eligible local includes.
THEOREM ClosureIsClosed == Spec => []OutputsClosed
<1>1. Inv => OutputsClosed
  BY DEF Inv, OutInv
<1> QED
  BY <1>1, Invariant, PTL

\* A header that the root's parse saw depending on its includer is inlined.
THEOREM ContextsAreKept == Spec => []ContextKept
<1>1. Inv => ContextKept
  BY DEF Inv, OutInv
<1> QED
  BY <1>1, Invariant, PTL

=============================================================================
