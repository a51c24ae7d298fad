---------------------------- MODULE KernelBounds ----------------------------
(***************************************************************************)
(* The largest block a kernel may be launched with, as published in        *)
(* translated host code (src/KernelThreadBounds.cpp and the attribute      *)
(* calls of src/AscifyAction.cpp).                                         *)
(*                                                                         *)
(* A CUDA program asks the runtime about a kernel through a pointer; the   *)
(* target's runtime cannot answer, so the converter writes the answer into *)
(* the call: cudaOccupancyMaxActiveBlocksPerMultiprocessorMaxThreads<256>. *)
(* It is right when every kernel that can arrive at that call is compiled  *)
(* for the target with that bound.  Three members record it on the way:    *)
(* attribute calls are rewritten while the AST matcher runs, occupancy     *)
(* calls are proved after it, and the annotation itself is written when    *)
(* the tokens are rewritten.                                               *)
(*                                                                         *)
(* A source has                                                            *)
(*   target    "simt" (the pure policy), "recipe" or "other"               *)
(*   kernels   name -> [shape, written, args, onTarget, place]: written is *)
(*             the value of __launch_bounds__ or 0, onTarget its value     *)
(*             under target preprocessing                                  *)
(*   queries   the calls in source order, each [api, in, form, arg, uses]  *)
(*   helper    the static function that takes an erased kernel, parameter  *)
(*             "p", with its callers                                       *)
(***************************************************************************)
EXTENDS Integers, Sequences, FiniteSets

CONSTANTS BoundSources,   \* the sources tried
          DefaultBound,   \* the bound the converter selects: 1024
          LargestBound    \* 2048

ASSUME BoundAssumption == DefaultBound \in 1 .. LargestBound /\ LargestBound \in Nat

BoundKernels == [shape : STRING, written : Nat, args : Nat, onTarget : Nat, place : STRING]
BoundQueries == [api : {"occupancy", "attributes"}, in : STRING, form : STRING, arg : STRING,
                 uses : SUBSET STRING]
BoundCallers == [in : STRING, form : STRING, actual : STRING]

\* "any" is an expression that names no kernel; a bound written as one literal has
\* the same value for every preprocessor.
ASSUME BoundSourcesAssumption ==
    \A s \in BoundSources :
        /\ s.queries \in Seq(BoundQueries) /\ s.helper.callers \in Seq(BoundCallers)
        /\ "any" \notin DOMAIN s.kernels
        /\ \A n \in DOMAIN s.kernels :
             LET k == s.kernels[n]
             IN  /\ k \in BoundKernels
                 /\ k.shape \notin {"expression", "macro", "conditional", "requalified"} /\ k.args = 1 =>
                      k.onTarget = k.written

VARIABLES
    bsource,     \* the source
    bphase,      \* "match", "prove", "tokens", "audit", "published", "refused"
    bnext,       \* the query in hand
    bounded,     \* kernelThreadBoundPlan.kernels: kernel -> bound
    policies,    \* kernels whose __global__ gets the annotation, main file or header
    callees,     \* query -> the bound written into its callee
    objects,     \* provenKernelAttributeObjects, by their query
    annotated,   \* kernels whose annotation has been written
    answer       \* the last answer of the translated program, or <<>>

boundVars == <<bsource, bphase, bnext, bounded, policies, callees, objects, annotated, answer>>

KernelNames == DOMAIN bsource.kernels
Query(i) == bsource.queries[i]
Occupancy(i) == Query(i).api # "attributes"
Put(f, x, v) == [y \in DOMAIN f \cup {x} |-> IF y = x THEN v ELSE f[y]]

\* ---- one kernel ------------------------------------------------------------------
\* Tokens: the signature is spelled without macros other than the two SDK qualifiers,
\* starts at a declaration boundary and its file has no conditional.
StableSignature(k) == k.shape \notin {"macro", "conditional"}

\* trustedKernelBoundQualifier: __global__ and __launch_bounds__ still expand to what
\* the SDK defines, at most sixteen macros deep.
TrustedQualifier(k) == k.shape # "requalified"

\* The bound of a concrete kernel: its one literal argument of __launch_bounds__, or
\* the converter's own choice, which needs an annotation.
ProvePureSimtKernelThreadBound(k) ==
    IF \/ k.shape \in {"template", "redeclared", "nested", "attributed"}
       \/ ~StableSignature(k) \/ ~TrustedQualifier(k)
       \/ (k.written # 0 /\ (k.args # 1 \/ k.shape = "expression" \/ k.written > LargestBound))
    THEN 0
    ELSE IF k.written # 0 THEN k.written ELSE DefaultBound

NeedsPolicy(k) == k.written = 0

\* stageKernelThreadBoundFact: the main file is annotated by this action, a selected
\* root header by the closure that publishes it; no other header has an owner.
StagePolicy(k) == NeedsPolicy(k) => k.place \in {"main", "selected"}

\* addKernel: 0 when the kernel has no bound or its annotation no owner.
AddKernel(n) ==
    LET k == bsource.kernels[n]
    IN IF StagePolicy(k) THEN ProvePureSimtKernelThreadBound(k) ELSE 0

\* directKernel: the name of a kernel, its address, or that cast to void*.
DirectKernel(arg) == arg \in KernelNames

\* closedBoundInvocation: of the macros around a call only checkCudaErrors is known.
ClosedInvocation(form) == form # "macro"

\* literalCall: an unqualified call written out in the main file.
LiteralCall(form) == form # "qualified" /\ ClosedInvocation(form)

\* An ordinary host function.
HostOwner(in) == in \in {"host", "helper"}

\* ---- the helper that takes an erased kernel --------------------------------------
\* closedHelperInputContext and closedHelperFile: no file could hide a caller, no
\* directive but #include, no assembly.
ClosedInput(h) == h.text = "closed"

\* rawNameUses: each raw token with the helper's or the parameter's name is one that
\* the AST accounts for.
RawNameUses(h) == ~h.hidden

\* The one bound of all callers, or 0.
MutClosedHelper(h) ==
    IF \/ ~ClosedInput(h) \/ ~h.static \/ ~RawNameUses(h) \/ h.escapes \/ h.observed
       \/ Len(h.callers) = 0
       \/ \E c \in DOMAIN h.callers :
            \/ h.callers[c].in # "host" \/ ~LiteralCall(h.callers[c].form)
            \/ ~DirectKernel(h.callers[c].actual) \/ AddKernel(h.callers[c].actual) = 0
    THEN 0 ELSE AddKernel(h.callers[Len(h.callers)].actual)
ClosedHelper(h) ==
    IF \/ ~ClosedInput(h) \/ ~h.static \/ ~RawNameUses(h) \/ h.escapes \/ h.observed
       \/ Len(h.callers) = 0
       \/ \E c \in DOMAIN h.callers :
            \/ h.callers[c].in # "host" \/ ~LiteralCall(h.callers[c].form)
            \/ ~DirectKernel(h.callers[c].actual) \/ AddKernel(h.callers[c].actual) = 0
       \/ \E c, d \in DOMAIN h.callers :
            AddKernel(h.callers[c].actual) # AddKernel(h.callers[d].actual)
    THEN 0 ELSE AddKernel(h.callers[1].actual)

\* The kernels a proved query stages.
Staged(arg) == IF DirectKernel(arg) THEN {arg}
               ELSE {bsource.helper.callers[c].actual : c \in DOMAIN bsource.helper.callers}

Record(i, ns, b) ==
    /\ callees' = Put(callees, i, b)
    /\ bounded' = [n \in DOMAIN bounded \cup ns |-> AddKernel(n)]
    /\ policies' = policies \cup {n \in ns : NeedsPolicy(bsource.kernels[n])}

\* ---- attribute calls, while the matcher runs -----------------------------------
\* stablePhysicalRange over the whole call, admitted SDK declarations, host owner.
AttributeCall(q) == q.in = "host" /\ LiteralCall(q.form) /\ bsource.target # "other"

\* A local cudaFuncAttributes declared on its own, without initializer or with {}.
AttributeObject(q) == "initialized" \notin q.uses /\ "shared" \notin q.uses

\* Uses: the object's address goes to this call only; every other use reads the field.
OnlyReads(q) == "read" \in q.uses /\ q.uses \cap {"write", "address", "again", "captured"} = {}

\* The second argument spells the canonical name of the kernel.
AttributeKernel(q) == DirectKernel(q.arg)

RewriteProvenKernelAttributeCall(i) ==
    /\ bphase = "match" /\ i = bnext /\ i <= Len(bsource.queries)
    /\ bnext' = bnext + 1
    /\ LET q == Query(i)
       IN IF ~Occupancy(i) /\ AttributeCall(q) /\ AttributeObject(q) /\ OnlyReads(q)
             /\ AttributeKernel(q) /\ AddKernel(q.arg) # 0
          THEN Record(i, {q.arg}, AddKernel(q.arg)) /\ objects' = objects \cup {i}
          ELSE UNCHANGED <<callees, bounded, policies, objects>>
    /\ UNCHANGED <<bsource, bphase, annotated, answer>>

\* ---- occupancy calls, after the matcher ------------------------------------------
Enabled == bsource.target = "simt"

\* prove: bounds recorded under another policy, or a query in a template, end it.
BeginProof ==
    /\ bphase = "match" /\ bnext > Len(bsource.queries)
    /\ bnext' = 1
    /\ bphase' = IF (~Enabled /\ bounded # <<>>) \/ bsource.unresolved THEN "refused" ELSE "prove"
    /\ UNCHANGED <<bsource, bounded, policies, callees, objects, annotated, answer>>

QueryBound(q) ==
    IF ~Enabled \/ ~HostOwner(q.in) \/ ~LiteralCall(q.form) THEN 0
    ELSE IF DirectKernel(q.arg) THEN AddKernel(q.arg)
    ELSE IF q.arg = "p" THEN ClosedHelper(bsource.helper) ELSE 0

ProveOccupancy(i) ==
    /\ bphase = "prove" /\ i = bnext /\ i <= Len(bsource.queries)
    /\ bnext' = bnext + 1
    /\ IF ~Occupancy(i) THEN UNCHANGED <<bphase, bounded, policies, callees>>
       ELSE IF QueryBound(Query(i)) = 0
            THEN bphase' = "refused" /\ UNCHANGED <<bounded, policies, callees>>
       ELSE Record(i, Staged(Query(i).arg), QueryBound(Query(i))) /\ UNCHANGED bphase
    /\ UNCHANGED <<bsource, objects, annotated, answer>>

\* Any other reference to an occupancy function: its address, an inquiry.
ProveReferences ==
    /\ bphase = "prove" /\ bnext > Len(bsource.queries)
    /\ bphase' = IF bsource.apiEscapes THEN "refused" ELSE "tokens"
    /\ UNCHANGED <<bsource, bnext, bounded, policies, callees, objects, annotated, answer>>

\* RewriteToken: annotates each __global__ the plan names, writes each callee, and
\* refuses an occupancy name the plan does not know (one in a macro body).
RewriteTokens ==
    /\ bphase = "tokens"
    /\ annotated' = policies
    /\ bphase' = IF bsource.rawQuery THEN "refused" ELSE "audit"
    /\ UNCHANGED <<bsource, bnext, bounded, policies, callees, objects, answer>>

\* auditKernelAttributeObservations: maxThreadsPerBlock is named only on proven
\* objects, and never through a pointer to member or offsetof.
Observes(q) == q.uses \cap {"read", "write", "captured"} # {}

AuditKernelAttributeObservations ==
    /\ bphase = "audit"
    /\ bphase' = IF \E i \in DOMAIN bsource.queries :
                       /\ ~Occupancy(i)
                       /\ "layout" \in Query(i).uses \/ (Observes(Query(i)) /\ i \notin objects)
                 THEN "refused" ELSE "published"
    /\ UNCHANGED <<bsource, bnext, bounded, policies, callees, objects, annotated, answer>>

\* ---- the translated program --------------------------------------------------------
\* The bounds a kernel may be compiled with: a written one has the value the target's
\* preprocessor gives it, none at all is the compiler's business (0), and a kernel the
\* converter replaces or selects by another name has no bound it knows of.
TargetBounds(n) ==
    LET k == bsource.kernels[n]
    IN IF bsource.target # "simt"
          \/ k.shape \in {"template", "redeclared", "nested", "attributed", "macro", "conditional",
                          "requalified"} THEN {0, k.written}
       ELSE IF k.written # 0 THEN {k.onTarget}
       ELSE IF n \in annotated THEN {DefaultBound} ELSE {0}

\* The kernels that arrive at a query: through the helper, whatever its callers and
\* anyone who can reach it pass.
Arriving(q) ==
    LET h == bsource.helper
    IN IF DirectKernel(q.arg) THEN {q.arg}
       ELSE IF q.arg # "p" \/ h.escapes \/ h.observed \/ h.hidden \/ ~h.static \/ h.text # "closed"
            THEN KernelNames
       ELSE {n \in KernelNames : \E c \in DOMAIN h.callers : h.callers[c].actual \in {n, "any"}}

\* A call of the program and the value it goes on with; an attribute record that is
\* written, aliased or never filled holds another one.
AskBound(i, n) ==
    /\ bphase = "published" /\ n \in Arriving(Query(i))
    /\ Occupancy(i) \/ Observes(Query(i))
    /\ \E b \in TargetBounds(n), held \in {TRUE, ~Occupancy(i) => OnlyReads(Query(i))} :
         answer' = <<[bound |-> IF i \in DOMAIN callees /\ held THEN callees[i] ELSE 0, compiled |-> b]>>
    /\ UNCHANGED <<bsource, bphase, bnext, bounded, policies, callees, objects, annotated>>

BoundInit ==
    /\ bsource \in BoundSources /\ bphase = "match" /\ bnext = 1 /\ bounded = <<>> /\ policies = {}
    /\ callees = <<>> /\ objects = {} /\ annotated = {} /\ answer = <<>>

BoundNext ==
    \/ \E i \in DOMAIN bsource.queries :
         RewriteProvenKernelAttributeCall(i) \/ ProveOccupancy(i) \/ \E n \in KernelNames : AskBound(i, n)
    \/ BeginProof \/ ProveReferences \/ RewriteTokens
    \/ AuditKernelAttributeObservations

BoundSpec == BoundInit /\ [][BoundNext]_boundVars

(***************************************************************************)
(* Whatever kernel a published program asks about, the bound written into  *)
(* the call is the one that kernel is compiled with for the target: over   *)
(* all callers of a helper, attribute and occupancy calls of the same      *)
(* kernel, annotations in the main file and in headers                     *)
(* (OccupancyProof::prove, rewriteProvenKernelAttributeCall,               *)
(* auditKernelAttributeObservations).                                      *)
(***************************************************************************)
PublishedBoundTrue == \A a \in {answer[j] : j \in DOMAIN answer} : a.bound = a.compiled /\ a.bound > 0
=============================================================================
