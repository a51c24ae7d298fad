-------------------------- MODULE LocalHeaderPlan --------------------------
(***************************************************************************)
(* ascifySourceWithLocalHeaderClosure: the translation of a root source    *)
(* together with the local headers it includes.  A discovery parse selects *)
(* headers (LocalHeaderClosurePlan::observeInclude).  A selected header    *)
(* that depends on its includer is inlined into a virtual root: the        *)
(* original root is parsed again, the flattened root is parsed jointly, and*)
(* the evidence of the three parses must agree.  The other headers are     *)
(* translated one by one as main files, which may select more.  Everything *)
(* is staged, verified and published together (PublishClosure).            *)
(*                                                                         *)
(* The user may edit any file between any two file reads.  A text is       *)
(* abstracted to its include directives, what it needs of its includer,    *)
(* whether it is include-once, its pragmas and whether it holds a kernel   *)
(* that needs an explicit thread bound.  A digest is the version of a text.*)
(***************************************************************************)
EXTENDS Integers, Sequences, FiniteSets

CONSTANTS
    Root,       \* the root source
    Headers,    \* the files that a local include can name
    Projects,   \* the projects considered: texts and options
    MaxEdits    \* bound: how often the user edits a file

ASSUME RootAssumption == Root \notin Headers
ASSUME MaxEditsAssumption == MaxEdits \in Nat

Files == {Root} \cup Headers
None == -1

\* A user edit replaces one of two texts of a file by the other.
Versions == {0, 1}

\* What an include directive can be; only a "local" one names a member of Headers
\* ("inlined" marks the place of an inlined header in the flattened root).
Kinds == {"local", "angled", "macro", "dpp", "missing", "absolute", "root",
          "excluded", "escaping", "external", "inlined"}

\* A text and the options of an invocation.
SourceTexts ==
    [incs : Seq([kind : Kinds \ {"inlined"}, child : Headers]),
     needs : {"none", "helper", "source"}, once : BOOLEAN,
     pragma : {"none", "literal", "opaque"}, bound : BOOLEAN]
Options == [mode : {"direct", "recursive"}, inplace : BOOLEAN, analysisOnly : BOOLEAN,
            standalone : BOOLEAN, standard : BOOLEAN, clash : SUBSET Files]

ASSUME ProjectsAssumption ==
    \A p \in Projects : /\ p.opts \in Options
                        /\ \A f \in Files, v \in Versions : p.text[f][v] \in SourceTexts

VARIABLES
    disk,       \* the version of every source file
    edits,      \* how many edits the user made (for the bound only)
    pc,
    project,    \* the texts and the options of this invocation
    saved,      \* originalInput: the root version read before discovery
    plan,       \* the LocalHeaderClosurePlan that will be published
    trial,      \* originalPlan, then jointPlan
    parse,      \* the running parse and its LocalHeaderInputEvidence
    discovery,  \* discoveryEvidence
    original,   \* originalEvidence
    staged,     \* the staging directory
    target,     \* standalone target: remembered inputs
    checking,   \* verifyContextInputs: files still to compare
    out,        \* the published closure, NoOutput before
    history     \* history: every state of the disk since the last text was staged

vars == <<disk, edits, pc, project, saved, plan, trial, parse, discovery, original,
          staged, target, checking, out, history>>

Text(f, v) == project.text[f][v]
Opt == project.opts

-----------------------------------------------------------------------------
(* LocalHeaderClosurePlan.                                                 *)

FreshPlan == [nodes |-> <<>>, edges |-> {}, deps |-> {Root}, failed |-> FALSE,
              helper |-> {}, source |-> {}, policy |-> [h \in Headers |-> None],
              sealed |-> [h \in Headers |-> None], inlined |-> {},
              evidence |-> [f \in Files |-> None]]

Fail(p) == [p EXCEPT !.failed = TRUE]

Selected(p) == {p.nodes[i].src : i \in DOMAIN p.nodes}

IsSelectedRootHeader(p, h) == \E i \in DOMAIN p.nodes : p.nodes[i].src = h /\ p.nodes[i].depth = 1

\* The lookup of a header among the nodes.
Found(p, h) == h \in Selected(p)

\* observeInclude: one include directive of the file being translated.  The
\* decision redirects the directive exactly when the edge is recorded.
ObserveInclude(p, from, depth, d) ==
    LET known == IF d.kind = "local" THEN [p EXCEPT !.deps = @ \cup {d.child}] ELSE p
        chosen == Found(p, d.child)
    IN  CASE d.kind \in {"angled", "dpp", "excluded", "external"} -> known
          [] d.kind = "macro" -> IF Opt.mode = "recursive" THEN Fail(known) ELSE known
          [] d.kind \in {"missing", "absolute", "root", "escaping"} -> Fail(known)
          [] d.kind = "local" ->
                IF ~chosen /\ depth > 0 /\ Opt.mode # "recursive" THEN known
                ELSE [known EXCEPT
                        !.edges = @ \cup {[from |-> from, child |-> d.child]},
                        !.nodes = IF chosen THEN @
                                  ELSE Append(@, [src |-> d.child, depth |-> depth + 1,
                                                  state |-> "discovered"])]
          [] OTHER -> known

\* Mutant: only the helper context is asked for.
RequireHelperContextOnly(p, helper, source) ==
    IF Opt.mode # "recursive" THEN p
    ELSE [p EXCEPT !.helper = @ \cup {h \in helper : IsSelectedRootHeader(p, h)}]

\* requireInheritedHelperContext and requireInheritedSourceContext.
RequireContext(p, helper, source) ==
    IF Opt.mode # "recursive" THEN p
    ELSE [p EXCEPT !.helper = @ \cup {h \in helper : IsSelectedRootHeader(p, h)},
                   !.source = @ \cup {h \in source : IsSelectedRootHeader(p, h)}]

\* requireKernelThreadBoundPolicy for every kernel in `bound`: a selected direct
\* header, recursive mode, and the file on disk still is the text that was parsed.
RequirePolicy(p, seen, bound) ==
    IF \A h \in bound : /\ Opt.mode = "recursive" /\ ~p.failed
                        /\ IsSelectedRootHeader(p, h) /\ disk[h] = seen[h]
    THEN [p EXCEPT !.policy = [h \in Headers |-> IF h \in bound THEN seen[h] ELSE @[h]]]
    ELSE Fail(p)

\* sealKernelThreadBoundPolicies: the header was translated from the text the
\* policy names, its annotation was applied, and the file did not change since.
SealPolicies(p, h, version, applied) ==
    IF p.policy[h] = None THEN IF applied THEN Fail(p) ELSE p
    ELSE IF applied /\ ~p.failed /\ p.sealed[h] = None /\ disk[h] = p.policy[h]
         THEN [p EXCEPT !.sealed[h] = version]
         ELSE Fail(p)

\* validateKernelThreadBoundPolicies.
PoliciesValid(p) ==
    \A h \in Headers : p.policy[h] # None =>
        /\ p.sealed[h] # None /\ p.sealed[h] = staged.header[h].version
        /\ IsSelectedRootHeader(p, h) /\ disk[h] = p.policy[h]

NextDiscovered(p) == {i \in DOMAIN p.nodes : p.nodes[i].state = "discovered"}

\* markTranslating, markStaged and markFailed.
Mark(p, i, state) == [p EXCEPT !.nodes[i].state = state]

\* retainContextEvidence
RetainContext(p, seen, inlined) ==
    [p EXCEPT !.evidence = seen, !.inlined = inlined,
              !.deps = @ \cup {f \in Files : seen[f] # None}]

HasPublishedBundle(p) == p.nodes # <<>> \/ p.inlined # {}

\* validateArtifactIsolation: Opt.clash names the input files whose path is (or
\* lies in) an output or backup path.
ArtifactsIsolated(p) ==
    \A f \in p.deps \cap Opt.clash : f = Root /\ Opt.inplace

\* No text, and nothing staged or published.
NoText == [version |-> None, by |-> "nothing", redirects |-> {}]
NothingStaged == [root |-> NoText, header |-> [h \in Headers |-> NoText]]
NoOutput == [root |-> NoText, header |-> [h \in Headers |-> NoText], inlined |-> {},
             evidence |-> [f \in Files |-> None], policy |-> [h \in Headers |-> None]]

\* Mutant: the staged text is not searched for the redirected includes.
StagedUnsearched(p) ==
    /\ ~p.failed /\ staged.root # NoText /\ PoliciesValid(p)
    /\ \A i \in DOMAIN p.nodes : p.nodes[i].state = "staged"

\* validateStagedArtifacts
StagedValid(p) ==
    /\ ~p.failed
    /\ staged.root # NoText
    /\ \A i \in DOMAIN p.nodes :
          p.nodes[i].state = "staged" /\ staged.header[p.nodes[i].src] # NoText
    /\ PoliciesValid(p)
    /\ \A e \in p.edges :
          LET text == IF e.from = Root THEN staged.root ELSE staged.header[e.from]
          IN  (e.from = Root \/ e.from \in Selected(p)) /\ e.child \in text.redirects

-----------------------------------------------------------------------------
(* One parse.                                                              *)

Directives(f, v) ==
    [i \in DOMAIN Text(f, v).incs |->
        [from |-> f, kind |-> Text(f, v).incs[i].kind, child |-> Text(f, v).incs[i].child]]

\* The root with the headers in `inlined` replaced by their text: nested quoted
\* includes of an inlined header are blanked.
Flattened(v, inlined) ==
    [i \in DOMAIN Directives(Root, v) |->
        IF Directives(Root, v)[i].child \in inlined
        THEN [Directives(Root, v)[i] EXCEPT !.kind = "inlined"] ELSE Directives(Root, v)[i]]

NewParse(f, depth, v, todo) ==
    [main |-> f, depth |-> depth, todo |-> todo, stream |-> <<<<f, v>>>>,
     seen |-> [g \in Files |-> IF g = f THEN v ELSE None], edges |-> {}, rootOnDisk |-> disk[Root]]

NoParse == [main |-> Root, depth |-> 0, todo |-> <<>>, stream |-> <<>>,
            seen |-> [g \in Files |-> None], edges |-> {}, rootOnDisk |-> None]

\* evidence.fileEntries
Entries(p, f) == Cardinality({i \in DOMAIN p.stream : p.stream[i][1] = f})

ParseLabels == {"parseDiscovery", "parseOriginal", "parseJoint", "parseHeader"}

Active == IF pc \in {"parseOriginal", "parseJoint"} THEN trial ELSE plan

\* InclusionDirective, then FileChanged (the file is entered) or FileSkipped (it
\* is include-once and already was).  An inlined text has the bytes contextualize
\* read; a file is read from disk once and kept by the file manager.
AfterDirective(d) ==
    LET rest == [parse EXCEPT !.todo = Tail(@)]
        again == parse.seen[d.child] # None
        version == IF again THEN parse.seen[d.child] ELSE disk[d.child]
        skipped == again /\ Text(d.child, version).once
        edge == [from |-> d.from, child |-> d.child, skipped |-> skipped]
    IN  CASE d.kind = "inlined" ->
                [rest EXCEPT !.stream = Append(@, <<d.child, original.seen[d.child]>>)]
          [] d.kind = "local" /\ skipped -> [rest EXCEPT !.edges = @ \cup {edge}]
          [] d.kind = "local" /\ ~skipped ->
                [rest EXCEPT !.edges = @ \cup {edge}, !.seen[d.child] = version,
                             !.stream = Append(@, <<d.child, version>>),
                             !.todo = Directives(d.child, version) \o @]
          [] OTHER -> rest

Directive ==
    /\ pc \in ParseLabels
    /\ parse.todo # <<>>
    /\ LET d == Head(parse.todo)
           next == IF d.from = parse.main THEN ObserveInclude(Active, d.from, parse.depth, d)
                   ELSE Active
       IN  /\ parse' = AfterDirective(d)
           /\ IF pc \in {"parseOriginal", "parseJoint"}
              THEN trial' = next /\ UNCHANGED plan
              ELSE plan' = next /\ UNCHANGED trial
    /\ UNCHANGED <<disk, edits, pc, project, saved, discovery, original, staged, target,
                   checking, out, history>>

\* What the AST of the root shows about the selected headers it entered.
Needing(p, need) ==
    {h \in Headers : parse.seen[h] # None /\ IsSelectedRootHeader(p, h)
                        /\ Text(h, parse.seen[h]).needs = need}

Bounded(p) == {h \in Headers : parse.seen[h] # None /\ Text(h, parse.seen[h]).bound}

\* deferredInheritedHelperDiscovery: such a parse gives evidence and no output.
Deferred(p) == p.helper # {} /\ Opt.standard /\ ~p.failed

\* The staged text of a translation: a redirected include may have been lost to
\* an overlapping rewrite (insertSemanticReplacement refuses it).
Translations(p) ==
    LET redirects == {e.child : e \in {f \in p.edges : f.from = parse.main}}
    IN  {[version |-> parse.seen[parse.main], by |-> pc, redirects |-> kept] :
            kept \in {redirects} \cup {redirects \ {h} : h \in redirects}}

-----------------------------------------------------------------------------
Give(label) == pc' = label

\* An early return: the staging directory is removed (a failed standalone build
\* keeps it as evidence).
Abandon ==
    /\ Give("refused")
    /\ staged' = NothingStaged

Init ==
    /\ disk = [f \in Files |-> 0]
    /\ edits = 0
    /\ pc = "start"
    /\ project \in Projects
    /\ saved = None
    /\ plan = FreshPlan /\ trial = FreshPlan
    /\ parse = NoParse /\ discovery = NoParse /\ original = NoParse
    /\ staged = NothingStaged
    /\ target = [f \in Files |-> None]
    /\ checking = {}
    /\ out = NoOutput
    /\ history = {disk}

\* The user edits a file, or puts the old text back.
UserEdits ==
    /\ edits < MaxEdits
    /\ pc \notin {"refused", "published", "analysed"}
    /\ \E f \in Files : disk' = [disk EXCEPT ![f] = 1 - @]
    /\ edits' = edits + 1
    /\ history' = history \cup {disk'}
    /\ UNCHANGED <<pc, project, saved, plan, trial, parse, discovery, original, staged,
                   target, checking, out>>

\* Up to the staging directory: path checks, PrepareStandaloneDeviceTarget, the
\* plan, and the saved root (recursive mode).
Prepare ==
    /\ pc = "start"
    /\ \/ Abandon /\ UNCHANGED <<saved, target>>
       \/ /\ Root \in Opt.clash => Opt.inplace
          /\ Opt.standalone => Opt.mode = "recursive" /\ ~Opt.inplace /\ ~Opt.analysisOnly
          /\ saved' = IF Opt.mode = "recursive" THEN disk[Root] ELSE None
          /\ target' = IF Opt.standalone THEN [target EXCEPT ![Root] = disk[Root]] ELSE target
          /\ Give("discover")
          /\ UNCHANGED staged
    /\ UNCHANGED <<disk, edits, project, plan, trial, parse, discovery, original, checking,
                   out, history>>

\* The discovery parse reads the root from disk.
StartDiscovery ==
    /\ pc = "discover"
    /\ parse' = NewParse(Root, 0, disk[Root], Directives(Root, disk[Root]))
    /\ Give("parseDiscovery")
    /\ UNCHANGED <<disk, edits, project, saved, plan, trial, discovery, original, staged,
                   target, checking, out, history>>

\* BindStandaloneDeviceInputs: the root parse remembers what it parsed, provided
\* the disk still holds it; a header parse may only use what was remembered.
Bound(rootParse) ==
    \A f \in Files : parse.seen[f] # None =>
        /\ disk[f] = parse.seen[f]
        /\ IF rootParse THEN target[f] \in {None, disk[f]} ELSE target[f] = disk[f]

\* Target::matches: everything remembered still is what the disk holds.
TargetMatches == \A f \in Files : target[f] # None => disk[f] = target[f]

\* The end of the discovery parse: EndSourceFileAction asks for inherited
\* contexts, the bound proof for header policies; a deferred parse stages nothing.
FinishDiscovery ==
    /\ pc = "parseDiscovery" /\ parse.todo = <<>>
    /\ LET wanted == RequireContext(plan, Needing(plan, "helper"), Needing(plan, "source"))
           deferred == Deferred(wanted)
           done == IF deferred THEN wanted ELSE RequirePolicy(wanted, parse.seen, Bounded(wanted))
       IN  /\ plan' = done
           /\ discovery' = [parse EXCEPT !.todo = <<>>]
           /\ \/ Abandon /\ UNCHANGED target
              \/ /\ ~done.failed
                 /\ Opt.standalone => Bound(TRUE) /\ TargetMatches
                 /\ target' = IF Opt.standalone /\ ~deferred THEN [f \in Files |->
                                 IF parse.seen[f] # None THEN parse.seen[f] ELSE target[f]] ELSE target
                 /\ IF deferred THEN UNCHANGED staged
                    ELSE \E text \in Translations(done) : staged' = [staged EXCEPT !.root = text]
                 /\ Give(IF Opt.mode = "recursive" /\ (done.helper # {} \/ done.source # {})
                         THEN "context" ELSE "headers")
    /\ parse' = NoParse
    /\ UNCHANGED <<disk, edits, project, saved, trial, original, checking, out, history>>

-----------------------------------------------------------------------------
(* contextualize                                                           *)

\* The checks before the second parse, then the saved root is parsed again.  A
\* standalone root proof cannot be replayed.
StartOriginal ==
    /\ pc = "context"
    /\ \/ Abandon /\ UNCHANGED <<trial, parse>>
       \/ /\ \A h \in Headers : plan.policy[h] = None
          /\ Opt.standard /\ ~Opt.standalone
          /\ disk[Root] = saved
          /\ trial' = FreshPlan
          /\ parse' = NewParse(Root, 0, saved, Directives(Root, saved))
          /\ Give("parseOriginal")
          /\ UNCHANGED staged
    /\ UNCHANGED <<disk, edits, project, saved, plan, discovery, original, target, checking,
                   out, history>>

\* The second parse ends; the two parses must have seen the same root and asked
\* for the same contexts.
FinishOriginal ==
    /\ pc = "parseOriginal" /\ parse.todo = <<>>
    /\ LET done == RequireContext(trial, Needing(trial, "helper"), Needing(trial, "source"))
       IN  /\ trial' = done
           /\ original' = parse
           /\ \/ Abandon
              \/ /\ ~done.failed
                 /\ Deferred(done) = Deferred(plan)
                 /\ parse.rootOnDisk = saved /\ discovery.seen[Root] = saved
                 /\ done.helper = plan.helper /\ done.source = plan.source
                 /\ Give("flatten")
                 /\ UNCHANGED staged
    /\ parse' = NoParse
    /\ UNCHANGED <<disk, edits, project, saved, plan, discovery, target, checking, out, history>>

\* skippedInBothParses
SkippedInBoth(e) == e.skipped /\ Entries(original, e.child) = 1 /\ e \in discovery.edges

\* singleRootEntry and samePhysicalEdge
SingleRootEntry(h) ==
    LET root == [from |-> Root, child |-> h, skipped |-> FALSE]
    IN  \A p \in {original, discovery} :
           /\ root \in p.edges /\ [root EXCEPT !.skipped = TRUE] \notin p.edges
           /\ Entries(p, h) = 1

\* A retained sibling that skipped a header which is now inlined would enter it:
\* it must be inlined too.
Siblings(inlined) ==
    {e.from : e \in {f \in original.edges : f.child \in inlined /\ f.from # Root}} \ inlined

\* The headers to inline: those that need a context and, for a helper
\* transaction, the siblings above, and theirs, until no header is added.
ToInline ==
    IF trial.helper = {} THEN trial.source
    ELSE {h \in Headers : \A closed \in SUBSET Headers :
             (trial.helper \cup trial.source \subseteq closed /\ Siblings(closed) = {})
               => h \in closed}

\* What a sibling must satisfy to be added.
SiblingsProved(inlined) ==
    trial.helper # {} =>
        \A e \in original.edges :
            (e.child \in inlined /\ e.from # Root /\ e.from \notin trial.helper \cup trial.source)
              => /\ SkippedInBoth(e)
                 /\ SingleRootEntry(e.from)
                 /\ IsSelectedRootHeader(trial, e.from) /\ IsSelectedRootHeader(plan, e.from)

\* What every inlined header must satisfy: one direct include by the root, any
\* other include of it skipped, literal pragmas only, unchanged bytes, and no
\* nested quoted include that was really entered.
InlineProved(h, inlined) ==
    /\ \A e \in original.edges : e.child = h /\ e.from # Root => SkippedInBoth(e)
    /\ [from |-> Root, child |-> h, skipped |-> FALSE] \in original.edges
    /\ [from |-> Root, child |-> h, skipped |-> TRUE] \notin original.edges
    /\ [from |-> Root, child |-> h] \in trial.edges
    /\ Entries(original, h) = 1
    /\ Text(h, original.seen[h]).pragma # "opaque"
    /\ disk[h] = original.seen[h] /\ discovery.seen[h] = original.seen[h]
    /\ \A e \in original.edges : e.from = h => trial.helper # {} /\ SkippedInBoth(e)

\* The flattened root is built and parsed jointly.
Flatten ==
    /\ pc = "flatten"
    /\ \/ Abandon /\ UNCHANGED <<trial, parse, checking>>
       \/ /\ ToInline # {}
          /\ SiblingsProved(ToInline)
          /\ \A h \in ToInline : InlineProved(h, ToInline)
          /\ checking' = ToInline
          /\ trial' = FreshPlan
          /\ parse' = NewParse(Root, 0, saved, Flattened(saved, ToInline))
          /\ Give("parseJoint")
          /\ UNCHANGED staged
    /\ UNCHANGED <<disk, edits, project, saved, plan, discovery, original, target, out, history>>

\* The evidence of the joint parse: the same expanded tokens, and no file that
\* the original parse did not read with the same bytes.
JointAgrees ==
    /\ parse.stream = original.stream
    /\ \A f \in Headers : parse.seen[f] # None => parse.seen[f] = original.seen[f]
    /\ parse.rootOnDisk = original.rootOnDisk

\* The joint parse ends: a helper transaction, if one is due, was committed (or
\* the parse fails); the plan is replaced once the inputs are verified.
FinishJoint ==
    /\ pc = "parseJoint" /\ parse.todo = <<>>
    /\ \/ Abandon /\ UNCHANGED <<trial, checking>>
       \/ /\ ~trial.failed /\ Bounded(trial) = {}
          /\ JointAgrees
          /\ LET wanted == RetainContext(trial, original.seen, checking)
             IN  /\ trial' = wanted
                 /\ checking' = {f \in Files : wanted.evidence[f] # None}
          /\ \E text \in Translations(trial) : staged' = [staged EXCEPT !.root = text]
          /\ Give("verifyContext")
    /\ parse' = NoParse
    /\ UNCHANGED <<disk, edits, project, saved, plan, discovery, original, target, out, history>>

-----------------------------------------------------------------------------
(* The headers that remain.                                                *)

\* The next discovered header is read and parsed as a main file.  Its directory
\* may not be creatable; a header with a policy must still be the same text.
StartHeader ==
    /\ pc = "headers"
    /\ NextDiscovered(plan) # {}
    /\ LET i == CHOOSE j \in NextDiscovered(plan) : \A k \in NextDiscovered(plan) : j <= k
           h == plan.nodes[i].src
       IN  \/ /\ plan' = Fail(Mark(plan, i, "failed"))
              /\ Give("closure")
              /\ UNCHANGED parse
           \/ /\ plan.policy[h] # None => disk[h] = plan.policy[h]
              /\ plan' = Mark(plan, i, "translating")
              /\ parse' = NewParse(h, plan.nodes[i].depth, disk[h], Directives(h, disk[h]))
              /\ Give("parseHeader")
    /\ UNCHANGED <<disk, edits, project, saved, trial, discovery, original, staged, target,
                   checking, out, history>>

\* The header is translated, its policies sealed and the node staged, or the node
\* is marked failed and the loop ends.
FinishHeader ==
    /\ pc = "parseHeader" /\ parse.todo = <<>>
    /\ LET h == parse.main
           i == CHOOSE j \in DOMAIN plan.nodes : plan.nodes[j].src = h
           done == SealPolicies(plan, h, parse.seen[h], plan.policy[h] # None)
       IN  \/ /\ plan' = Fail(Mark(plan, i, "failed"))
              /\ Give("closure")
              /\ UNCHANGED staged
           \/ /\ ~done.failed
              /\ Opt.standalone => Bound(FALSE) /\ TargetMatches
              /\ plan' = Mark(done, i, "staged")
              /\ \E text \in Translations(plan) : staged' = [staged EXCEPT !.header[h] = text]
              /\ Give("headers")
    /\ parse' = NoParse
    /\ UNCHANGED <<disk, edits, project, saved, trial, discovery, original, target, checking,
                   out, history>>

\* No header is left, or one failed: ValidateDeviceInlineProjectSnapshot for a
\* standalone target, then verifyContextInputs begins.
FinishHeaders ==
    /\ \/ pc = "headers" /\ NextDiscovered(plan) = {}
       \/ pc = "closure"
    /\ \/ Abandon /\ UNCHANGED checking
       \/ /\ Opt.standalone => TargetMatches
          /\ checking' = {f \in Files : plan.evidence[f] # None}
          /\ Give("verifyClosure")
          /\ UNCHANGED staged
    /\ history' = {disk}
    /\ UNCHANGED <<disk, edits, project, saved, plan, trial, parse, discovery, original,
                   target, out>>

\* Mutant: the inputs are only looked at, not compared.
InputUnchecked(f, p) == TRUE

\* verifyContextInputs: one file is read again and compared with the evidence.
InputVerified(f, p) == disk[f] = p.evidence[f]

Verify ==
    /\ pc \in {"verifyContext", "verifyClosure"}
    /\ \E f \in checking :
          \/ /\ InputVerified(f, IF pc = "verifyContext" THEN trial ELSE plan)
             /\ checking' = checking \ {f}
             /\ UNCHANGED <<pc, staged>>
          \/ /\ ~InputVerified(f, IF pc = "verifyContext" THEN trial ELSE plan)
             /\ Abandon
             /\ UNCHANGED checking
    /\ UNCHANGED <<disk, edits, project, saved, plan, trial, parse, discovery, original,
                   target, out, history>>

\* The joint plan becomes the plan.
AdoptJointPlan ==
    /\ pc = "verifyContext" /\ checking = {}
    /\ plan' = trial
    /\ Give("headers")
    /\ UNCHANGED <<disk, edits, project, saved, trial, parse, discovery, original, staged,
                   target, checking, out, history>>

\* validateArtifactIsolation, validateStagedArtifacts, the standalone build, and
\* the manifest; an analysis ends here and leaves nothing behind.
Validate ==
    /\ pc = "verifyClosure" /\ checking = {}
    /\ \/ Abandon
       \/ /\ ~plan.failed /\ ArtifactsIsolated(plan) /\ StagedValid(plan)
          /\ IF Opt.analysisOnly
             THEN Give("analysed") /\ staged' = NothingStaged
             ELSE /\ Opt.standalone => HasPublishedBundle(plan)
                  /\ Give("publish") /\ UNCHANGED staged
       \/ /\ Opt.standalone /\ ~plan.failed /\ ArtifactsIsolated(plan) /\ StagedValid(plan)
          /\ Give("refused") /\ UNCHANGED staged
    /\ UNCHANGED <<disk, edits, project, saved, plan, trial, parse, discovery, original, target,
                   checking, out, history>>

\* The standalone artifacts are sealed once more; publishClosure moves root and
\* bundle into place, or fails and puts the old ones back.
Publish ==
    /\ pc = "publish"
    /\ \/ Abandon /\ UNCHANGED out
       \/ /\ out' = [root |-> staged.root, header |-> staged.header, inlined |-> plan.inlined,
                     evidence |-> plan.evidence, policy |-> plan.policy]
          /\ Give("published")
          /\ staged' = NothingStaged
    /\ UNCHANGED <<disk, edits, project, saved, plan, trial, parse, discovery, original, target,
                   checking, history>>

Done == pc \in {"refused", "published", "analysed"} /\ UNCHANGED vars

Next ==
    \/ UserEdits \/ Prepare \/ StartDiscovery \/ Directive \/ FinishDiscovery
    \/ StartOriginal \/ FinishOriginal \/ Flatten \/ FinishJoint \/ StartHeader
    \/ FinishHeader \/ FinishHeaders \/ Verify \/ AdoptJointPlan \/ Validate \/ Publish \/ Done

Spec == Init /\ [][Next]_vars

-----------------------------------------------------------------------------
(* Properties.                                                             *)

Known == Versions \cup {None}
NodeStates == {"discovered", "translating", "staged", "failed"}
Nodes == [src : Headers, depth : Nat, state : NodeStates]
Edges == [from : Files, child : Headers]
Plans == [nodes : Seq(Nodes), edges : SUBSET Edges, deps : SUBSET Files, failed : BOOLEAN,
          helper : SUBSET Headers, source : SUBSET Headers, policy : [Headers -> Known],
          sealed : [Headers -> Known], inlined : SUBSET Headers, evidence : [Files -> Known]]
Includes == [from : Files, kind : Kinds, child : Headers]
Entered == [from : Files, child : Headers, skipped : BOOLEAN]
Parses == [main : Files, depth : Nat, todo : Seq(Includes), stream : Seq(Files \X Known),
           seen : [Files -> Known], edges : SUBSET Entered, rootOnDisk : Known]
Stagings == [version : Known, by : ParseLabels \cup {"nothing"}, redirects : SUBSET Headers]

\* The labels while the root is settled, while the headers are translated, and
\* after a run.
Settling == {"start", "discover", "parseDiscovery", "context", "parseOriginal", "flatten",
             "parseJoint", "verifyContext"}
Contextual == {"parseOriginal", "flatten", "parseJoint", "verifyContext"}
Translating == {"headers", "parseHeader", "closure", "verifyClosure", "publish"}
Over == {"refused", "published", "analysed"}

\* The state of one translation of a closure has these types.
TypeOK ==
  /\ disk \in [Files -> Versions] /\ edits \in Nat
  /\ pc \in Settling \cup Translating \cup Over
  /\ project \in Projects /\ saved \in Known
  /\ plan \in Plans /\ trial \in Plans
  /\ parse \in Parses /\ discovery \in Parses /\ original \in Parses
  /\ staged \in [root : Stagings, header : [Headers -> Stagings]]
  /\ target \in [Files -> Known] /\ checking \subseteq Files
  /\ out \in [root : Stagings, header : [Headers -> Stagings], inlined : SUBSET Headers,
              evidence : [Files -> Known], policy : [Headers -> Known]]
  /\ history \subseteq [Files -> Versions]

Published == out # NoOutput

\* The version of every source text that went into what was published.
Used ==
    [f \in Files |->
        IF f = Root THEN out.root.version
        ELSE IF f \in out.inlined THEN out.evidence[f]
        ELSE IF out.header[f] # NoText THEN out.header[f].version
        ELSE None]

\* What the files were when the proof of the closure looked at them: the evidence
\* of the original parse, or the inputs of the standalone target.
Proved == IF out.inlined # {} THEN out.evidence ELSE target

\* "Input bytes ... are bound to the proof and rechecked before atomic publication"
\* (docs/local-header-closure.md): with inlined headers the root, and in a
\* standalone target every text, was translated from the bytes of the proof, and
\* after the last translation each input of the proof still had, or had again,
\* these bytes. A header that is not inlined is read again by its own parse, and
\* these bytes are compared with no evidence.
InputsRechecked ==
    Published /\ (out.inlined # {} \/ Opt.standalone) =>
        /\ \A f \in Files : (f = Root \/ Opt.standalone) /\ Used[f] # None => Used[f] = Proved[f]
        /\ \A f \in Files : Proved[f] # None => \E s \in history : s[f] = Proved[f]

\* What is published is closed: every eligible local include of a published text
\* is redirected to a published header or was inlined, although headers are found
\* while others are translated and a redirection can be lost to another rewrite.
OutputsClosed ==
    Published =>
        \A f \in Files :
            Used[f] # None /\ f \notin out.inlined /\ (f = Root \/ Opt.mode = "recursive") =>
            \A i \in DOMAIN Text(f, Used[f]).incs :
                LET d == Text(f, Used[f]).incs[i]
                IN  d.kind = "local" =>
                      \/ d.child \in out.inlined
                      \/ LET text == IF f = Root THEN out.root ELSE out.header[f]
                         IN  d.child \in text.redirects /\ out.header[d.child] # NoText

\* A thread bound that the root's proof demands of a header is published only in a
\* translation of the very text the root's parse saw.
BoundOnProvedText ==
    Published => \A h \in Headers : out.policy[h] # None =>
        out.header[h].version = out.policy[h]

\* No output or backup path is one of the sources that were translated or inlined
\* (but the root's under --inplace): publishing would destroy an input.
InputsSurvive ==
    Published => \A f \in Opt.clash : Used[f] # None => f = Root /\ Opt.inplace

\* What is published is what the proofs were about, although every input is read
\* several times while the user edits it, and publishing destroys none of them.
PublishedAsProved == InputsRechecked /\ BoundOnProvedText /\ InputsSurvive

\* A directly selected header that the root's parse saw depending on its includer is
\* never translated on its own: it was inlined, and the root is the joint parse's.
ContextKept ==
    Published /\ Opt.mode = "recursive" =>
        \A h \in Headers :
            (/\ discovery.seen[h] # None
             /\ Text(h, discovery.seen[h]).needs # "none"
             /\ [from |-> Root, child |-> h, skipped |-> FALSE] \in discovery.edges)
              => h \in out.inlined /\ out.root.by = "parseJoint"

=============================================================================
