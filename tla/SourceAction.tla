---------------------------- MODULE SourceAction ----------------------------
(***************************************************************************)
(* AscifyAction: the translation of one translation unit.  ClangTool calls *)
(* BeginInvocation, ExecuteAction (parse with AST matchers, then an        *)
(* ordered chain of proofs and rewrites, then a raw token pass to the end  *)
(* of the file) and EndSourceFileAction (late seals, the sample-helper     *)
(* transaction, the header insertions).                                    *)
(*                                                                         *)
(* A Spot is a piece of main-file text that one rewrite covers.  An edit   *)
(* [by, at] is a member of *replacements; a claim [by, at] is a member of  *)
(* SemanticRewriteRanges.  What a proof (ProveXxx) concludes about the     *)
(* program text is data: it is a choice of the spots the lowering wants to *)
(* edit, or of refusal.  What happens with that answer is control and is   *)
(* modelled step by step.                                                  *)
(***************************************************************************)
EXTENDS Integers, FiniteSets

CONSTANTS
    NumSpots,       \* the main file has the spots 1 .. NumSpots, lexed in that order
    Inputs,         \* the inputs considered: what the preprocessor callbacks record
    MaxWork         \* bound: lowerings, AST matches and helper calls together find at
                    \* most so many spots to edit (the raw pass is not bounded)

ASSUME NumSpotsAssumption == NumSpots \in Nat \ {0}
ASSUME MaxWorkAssumption == MaxWork \in Nat

Spots == 1 .. NumSpots

\* The lowerings whose proof leaves a plan of edits behind.
Lowerings == {"scalar64", "fullwarp", "nttp", "swap", "vec3", "uniform", "tails",
              "bounds", "texture", "recipe", "inline", "aggregate", "guards", "packed"}

\* Who edits text: the lowerings, the AST matchers and include callbacks ("plain"
\* when the new text needs no compat header, "semantic" when it does, "callee" for
\* a bound-proven callee), the raw token pass and the helper transaction ("helper"
\* for its calls, "branch" for its #error guards of inactive branches).
Authors == (Lowerings \ {"bounds", "texture"})
              \cup {"plain", "semantic", "callee", "raw", "helper", "branch"}

\* Authors whose edit replaces text; the others insert text next to it.
Replacing == {"plain", "semantic", "callee", "scalar64", "vec3", "raw", "guards"}

\* Authors that append to SemanticRewriteRanges when they commit.
Claiming == {"plain", "semantic", "callee", "scalar64", "vec3", "uniform", "tails",
             "nttp", "swap", "helper", "branch", "guards"}

\* Authors whose replacement text names something of ascify_cuda_compat.hpp.
UsesCompat == {"semantic", "callee", "scalar64", "fullwarp", "vec3", "uniform", "helper"}

Headers == {"compat", "vec3", "texture", "groups", "target"}

\* How the input can collide with the compat header it would have to include:
\* nvidiaSampleHelperOutputMacroEverDefined, ascifyCudaCompatIncludeConflict,
\* ascifyCudaCompatActiveMacroConflict, ascifyCudaCompatDeclarationConflict.
Conflicts == {"none", "reserved", "include", "macro", "name"}

\* An input: whether there is a LocalHeaderContext and at which depth, whether it
\* demands the helper transaction (the joint parse), how often helper_cuda.h is
\* included, where the compat header already is (relative to that include).
InputRecords ==
    {i \in [depth : 0 .. 1, ctx : BOOLEAN, mustCommit : BOOLEAN, includes : 0 .. 2,
            compat : {"no", "before", "after"}, conflict : Conflicts] :
        /\ ~i.ctx => i.depth = 0
        /\ i.mustCommit => i.ctx /\ i.depth = 0
        /\ i.compat = "after" => i.includes > 0}

ASSUME InputsAssumption == Inputs \subseteq InputRecords

VARIABLES
    pc,         \* the stage that runs next; "done" after EndSourceFileAction
    input,      \* what the preprocessor callbacks recorded of this input
    plan,       \* per lowering: the spots its proof wants to edit
    edits,      \* *replacements
    claims,     \* SemanticRewriteRanges
    errors,     \* an error diagnostic was reported
    failed,     \* cudaRuntimeApiBoundaryFailed
    needs,      \* headers some committed rewrite needs
    headers,    \* headers the output includes
    lexed,      \* per spot: what the raw helper audit saw there
    tx,         \* the NVIDIA sample-helper transaction
    discovery   \* deferredInheritedHelperDiscovery

vars == <<pc, input, plan, edits, claims, errors, failed, needs, headers, lexed, tx, discovery>>

-----------------------------------------------------------------------------
Init ==
    /\ pc = "begin"
    /\ input \in Inputs
    /\ plan = [l \in Lowerings |-> {}]
    /\ edits = {} /\ claims = {}
    /\ errors = FALSE /\ failed = FALSE
    /\ needs = {}
    /\ headers = IF input.compat = "no" THEN {} ELSE {"compat"}
    /\ lexed = [s \in Spots |-> "unseen"]
    /\ tx = [calls |-> {}, required |-> {}, ready |-> FALSE,
             unsupported |-> (input.conflict = "include"),
             rawDone |-> FALSE, committed |-> FALSE]
    /\ discovery = FALSE

-----------------------------------------------------------------------------
(* Bookkeeping shared by the stages.                                       *)

\* A stage reports an error and ExecuteAction (or EndSourceFileAction) returns.
\* Most stages also set cudaRuntimeApiBoundaryFailed, which disarms
\* EndSourceFileAction; some only report.
Refuse(exit, marks) ==
    /\ errors' = TRUE
    /\ failed' = (failed \/ marks)
    /\ pc' = exit
    /\ UNCHANGED <<input, plan, edits, claims, needs, headers, lexed, tx, discovery>>

Goto(next) ==
    /\ pc' = next
    /\ UNCHANGED <<input, plan, edits, claims, errors, failed, needs, headers, lexed, tx, discovery>>

\* Mutant: a transaction is checked against its own ranges only.
OverlapsOwnOnly(author, at) == \E c \in claims : c.at = at /\ c.by = author

\* The range check every staged transaction makes against SemanticRewriteRanges.
\* Only the helper transaction tolerates one kind of claim inside its own range:
\* the callee of a certified status macro (exactProvenMaxCallee).
Overlaps(author, at) ==
    \E c \in claims : c.at = at /\ ~(author = "helper" /\ c.by = "callee")

\* ct::Replacements::add: two replaced texts conflict; an insertion may or may
\* not conflict with an edit next to it.
AddOutcomes(author, at) ==
    LET there == {e.by : e \in {f \in edits : f.at = at}}
    IN  IF there = {} THEN {TRUE}
        ELSE IF author \in Replacing /\ there \cap Replacing # {} THEN {FALSE}
        ELSE BOOLEAN

\* Whether the whole set of edits can be staged on a copy of *replacements.
StageOutcomes(author, spots) ==
    IF \E s \in spots : Overlaps(author, s) \/ AddOutcomes(author, s) = {FALSE} THEN {FALSE}
    ELSE IF \A s \in spots : AddOutcomes(author, s) = {TRUE} THEN {TRUE}
    ELSE BOOLEAN

EditsOf(author, spots) == {[by |-> author, at |-> s] : s \in spots}

ClaimsOf(author, spots) == IF author \in Claiming THEN EditsOf(author, spots) ELSE {}

\* *replacements = std::move(staged), the ranges and the header needs with it.
Commit(author, spots, required, next) ==
    /\ edits' = edits \cup EditsOf(author, spots)
    /\ claims' = claims \cup ClaimsOf(author, spots)
    /\ needs' = needs \cup required
    /\ pc' = next
    /\ UNCHANGED <<input, plan, errors, failed, headers, lexed, tx, discovery>>

\* How many spots the proofs and matchers found so far (for the bound only).
Work ==
    Cardinality({w \in Lowerings \X Spots : w[2] \in plan[w[1]]})
      + Cardinality({e \in edits : e.by \in {"plain", "semantic", "callee"}})
      + Cardinality(tx.calls)

\* A lowering finds work in this input.
Plan(lowering, required, next) ==
    \E spots \in SUBSET Spots \ {{}} :
        /\ Work + Cardinality(spots) <= MaxWork
        /\ plan' = [plan EXCEPT ![lowering] = spots]
        /\ needs' = needs \cup required
        /\ pc' = next
        /\ UNCHANGED <<input, edits, claims, errors, failed, headers, lexed, tx, discovery>>

\* A proof stage: refuse, find nothing to do, or leave a plan.
Prove(lowering, next, marks) ==
    \/ Refuse("end", marks)
    \/ Goto(next)
    \/ Plan(lowering, {}, next)

\* A stage that edits nothing itself but whose output needs these headers.
Need(required, next) ==
    /\ needs' = needs \cup required
    /\ pc' = next
    /\ UNCHANGED <<input, plan, edits, claims, errors, failed, headers, lexed, tx, discovery>>

\* A staged transaction: every edit fits and all are committed, or an error is
\* reported and none is.
Transact(lowering, required, next, marks) ==
    IF plan[lowering] = {} THEN Goto(next)
    ELSE \E fits \in StageOutcomes(lowering, plan[lowering]) :
            IF fits THEN Commit(lowering, plan[lowering], required, next)
            ELSE Refuse("end", marks)

\* A proof stage that only accepts or refuses.
Gate(next) == Refuse("end", TRUE) \/ Goto(next)

-----------------------------------------------------------------------------
(* Before and during the parse.                                            *)

\* BeginInvocation: option values and VFS overlays are checked; a refused
\* invocation never executes the action.
BeginInvocation == pc = "begin" /\ (Refuse("done", FALSE) \/ Goto("parse"))

\* run: one AST match is rewritten through insertSemanticReplacement.  An
\* overlap with an earlier rewrite is only a warning and the match is skipped;
\* a conflict in *replacements is an error.
SemanticRewrite ==
    /\ pc = "parse"
    /\ \E s \in Spots, author \in {"plain", "semantic", "callee"} :
          /\ Work < MaxWork
          /\ ~Overlaps(author, s)
          /\ \E fits \in AddOutcomes(author, s) :
                IF fits
                THEN Commit(author, {s}, IF author = "plain" THEN {} ELSE {"compat"}, "parse")
                ELSE Refuse("parse", FALSE)

\* The parse ends.  ExecuteAction returns at once if any error occurred, with
\* cudaRuntimeApiBoundaryFailed only if an include callback set it.
\* Otherwise the attribute guards and literal texture names are known.
FinishParse ==
    /\ pc = "parse"
    /\ IF errors THEN Goto("end")
       ELSE \/ \E marks \in BOOLEAN : Refuse("end", marks)
            \/ Goto("seal")
            \/ \E l \in {"guards", "texture", "packed"} : Plan(l, {}, "seal")

-----------------------------------------------------------------------------
(* ExecuteAction after the parse, in source order.                         *)

\* Captured projection name, ProjectionScopeAudit, sealOriginalCgProviders and
\* sealProfilerAvailabilityProof.
SealParse == pc = "seal" /\ Gate("discover")

\* A discovery parse of a root whose helper comes from an inherited header: all
\* edits are dropped and nothing more is done; only evidence is collected.
DeferToDiscovery ==
    /\ pc = "discover"
    /\ input.ctx /\ input.depth = 0 /\ ~input.mustCommit
    /\ discovery' = TRUE
    /\ edits' = {}
    /\ pc' = "end"
    /\ UNCHANGED <<input, plan, claims, errors, failed, needs, headers, lexed, tx>>

\* No discovery: the CUDA runtime API surface is audited when its header was admitted.
AuditRuntimeSurface == pc = "discover" /\ Gate("scalar64Proof")

Scalar64Proof == pc = "scalar64Proof" /\ Prove("scalar64", "groups", TRUE)

\* Dynamic warp groups: proof, input seals, joint-context requirement.
DynamicWarpGroups ==
    /\ pc = "groups"
    /\ Gate("fullwarpProof") \/ Need({"compat", "groups"}, "fullwarpProof")

FullWarpProof == pc = "fullwarpProof" /\ Prove("fullwarp", "fullwarpCommit", TRUE)

\* Both halves of the prelaunch wrapper are staged together; no range is claimed,
\* so that tokens inside the launch are still mapped by the raw pass.
FullWarpCommit == pc = "fullwarpCommit" /\ Transact("fullwarp", {"compat"}, "nttpProof", TRUE)

NttpProof == pc = "nttpProof" /\ Prove("nttp", "shared", TRUE)

\* Shared-word alignment: the raw pass will merge the alignment into the
\* qualifier's own token replacement; also the provenance checks of NTTP calls.
SharedWordAlignment ==
    /\ pc = "shared"
    /\ Gate("swapProof") \/ Need({"compat"}, "swapProof")

HostPointerSwapProof == pc = "swapProof" /\ Prove("swap", "records", TRUE)

\* auditCudaRuntimeApiRecords and auditCudaProfilerApiSurface.
AuditRecords == pc = "records" /\ Gate("scalar64Commit")

Scalar64Commit == pc = "scalar64Commit" /\ Transact("scalar64", {"compat"}, "vec3Proof", TRUE)

\* The vec3 and uniform-reduction stages return without setting
\* cudaRuntimeApiBoundaryFailed: EndSourceFileAction still runs.
Vec3Proof == pc = "vec3Proof" /\ Prove("vec3", "vec3Commit", FALSE)

\* Mutant: edits that do not fit are skipped without an error.
Vec3CommitOptional ==
    /\ pc = "vec3Commit"
    /\ \/ Goto("uniformProof")
       \/ Transact("vec3", {"compat", "vec3"}, "uniformProof", FALSE)

Vec3Commit == pc = "vec3Commit" /\ Transact("vec3", {"compat", "vec3"}, "uniformProof", FALSE)

UniformProof == pc = "uniformProof" /\ Prove("uniform", "uniformCommit", FALSE)

UniformCommit == pc = "uniformCommit" /\ Transact("uniform", {"compat"}, "helper", FALSE)

\* Mutant: the input's own top-level name ascify is not considered.
HelperConflictMacroOnly(calls) == calls # {} /\ input.conflict = "macro"

\* The helper proof (hasUnsupportedNvidiaSampleHelperDeclarationUse and
\* rewriteProvenNvidiaSampleHelperMacros).  A helper that needs the compat header
\* is unsupported when that header collides with the input.  An unproved status
\* domain or SM table is an error, but ExecuteAction goes on.
HelperConflict(calls) ==
    calls # {} /\ (input.conflict = "macro" \/ (input.conflict = "name" /\ input.compat # "before"))

ProveHelper ==
    /\ pc = "helper"
    /\ IF input.includes = 0 THEN Goto("bounds")
       ELSE \E calls \in SUBSET Spots, unproved \in BOOLEAN, residual \in BOOLEAN :
               /\ Work + Cardinality(calls) <= MaxWork
               /\ LET unsupported == \/ tx.unsupported \/ unproved \/ residual
                                  \/ HelperConflict(calls) \/ input.includes # 1
                  IN  /\ tx' = [tx EXCEPT !.calls = calls,
                                       !.unsupported = unsupported,
                                       !.ready = ~unsupported /\ input.conflict # "reserved"]
                   /\ errors' = (errors \/ unproved)
                   /\ failed' = (failed \/ unproved)
                   /\ pc' = "bounds"
                   /\ UNCHANGED <<input, plan, edits, claims, needs, headers, lexed, discovery>>

\* prepareKernelThreadBoundHeaderPolicies and ProveOccupancyKernelThreadBounds.
KernelBounds ==
    /\ pc = "bounds"
    /\ Gate("tailsProof") \/ Plan("bounds", {"compat"}, "tailsProof")

\* The padding parameter of a dynamic-group kernel.
AbiTailProof ==
    /\ pc = "tailsProof"
    /\ IF "groups" \in needs THEN Prove("tails", "tailsCommit", TRUE) ELSE Gate("tailsCommit")

AbiTailCommit == pc = "tailsCommit" /\ Transact("tails", {}, "texture", TRUE)

\* ValidateCudaTextureBoundary.  A texture call inside a certified status macro
\* is admitted only on condition that the helper transaction commits.
TextureBoundary ==
    /\ pc = "texture"
    /\ \/ Refuse("end", TRUE)
       \/ /\ tx' = [tx EXCEPT !.required = plan["texture"] \cap tx.calls]
          /\ pc' = "nttpCommit"
          /\ UNCHANGED <<input, plan, edits, claims, errors, failed, needs, headers, lexed, discovery>>

NttpCommit == pc = "nttpCommit" /\ Transact("nttp", {}, "swapCommit", TRUE)

HostPointerSwapCommit == pc = "swapCommit" /\ Transact("swap", {}, "recipeProof", TRUE)

\* Reserved-name conflicts of the SIMD recipe return without marking the
\* boundary; finalize() then yields the adapter edits.
RecipeProof == pc = "recipeProof" /\ Prove("recipe", "recipeCommit", FALSE)

\* The recipe's edits go straight into *replacements: each one that conflicts
\* reports an error and the others stay; the target header is needed if any went in.
RecipeCommit ==
    /\ pc = "recipeCommit"
    /\ \E some \in SUBSET plan["recipe"] :
          /\ \A s \in plan["recipe"] : (s \in some) \in AddOutcomes("recipe", s)
          /\ edits' = edits \cup EditsOf("recipe", some)
          /\ needs' = IF some = {} THEN needs ELSE needs \cup {"target"}
          /\ errors' = (errors \/ some # plan["recipe"])
          /\ pc' = "lex"
          /\ UNCHANGED <<input, plan, claims, failed, headers, lexed, tx, discovery>>

-----------------------------------------------------------------------------
(* The raw token pass.                                                     *)

\* The lexer goes through the file from its start to its end.
NextSpot(s) == lexed[s] = "unseen" /\ \A r \in 1 .. (s - 1) : lexed[r] # "unseen"

\* auditRawNvidiaSampleHelperToken: what a helper name at this spot means.  A
\* call the AST proof recorded is normal; any other use is either inside a
\* proven inactive branch, which then needs its #error guard, or residual.
HelperAudit(s) ==
    IF input.includes = 0 \/ s \in tx.calls THEN {"clean"} ELSE {"clean", "inactive", "residual"}

\* The token stays as it is.
Ignore == UNCHANGED <<edits, claims, errors, failed, needs>>

\* insertReplacement or, for a bound-proven callee, insertSemanticReplacement; the
\* headers are needed whether or not the replacement went in.
RawEdit(s, author, required) ==
    \E fits \in AddOutcomes(author, s) :
        /\ edits' = IF fits THEN edits \cup EditsOf(author, {s}) ELSE edits
        /\ claims' = IF fits THEN claims \cup ClaimsOf(author, {s}) ELSE claims
        /\ errors' = (errors \/ ~fits)
        /\ failed' = (failed \/ (~fits /\ author = "callee"))
        /\ needs' = needs \cup required

\* RewriteToken on one spot.  The helper audit comes first; a token inside a
\* semantic range is then left alone.  A proven occupancy callee and a literal
\* texture name get their exact rewrite; any other token has no mapping, or an
\* ordinary one (which may need the compat header), or is an occupancy or
\* texture name without proof, which is an error.
RewriteToken ==
    /\ pc = "lex"
    /\ \E s \in Spots :
          /\ NextSpot(s)
          /\ \E audit \in HelperAudit(s) :
                /\ lexed' = [lexed EXCEPT ![s] = audit]
                /\ tx' = [tx EXCEPT !.unsupported = @ \/ audit = "residual"]
          /\ IF Overlaps("raw", s) THEN Ignore
             ELSE IF s \in plan["bounds"] THEN RawEdit(s, "callee", {"compat"})
             ELSE IF s \in plan["texture"] THEN RawEdit(s, "raw", {"compat", "texture"})
             ELSE \/ Ignore
                  \/ \E required \in {{}, {"compat"}} : RawEdit(s, "raw", required)
                  \/ errors' = TRUE /\ failed' = TRUE /\ UNCHANGED <<edits, claims, needs>>
          /\ UNCHANGED <<pc, input, plan, headers, discovery>>

\* End of file: retained headers are audited for names the compat header publishes.
FinishLexing ==
    /\ pc = "lex"
    /\ \A s \in Spots : lexed[s] # "unseen"
    /\ \E residual \in BOOLEAN :
          /\ tx' = [tx EXCEPT !.unsupported = @ \/ (residual /\ input.includes > 0 /\ input.compat # "before")]
          /\ pc' = "inline"
          /\ UNCHANGED <<input, plan, edits, claims, errors, failed, needs, headers, lexed, discovery>>

\* Bounded device-template inlining is optional: if any of its insertions does
\* not fit, none is made and nothing is reported.
BoundedInlining ==
    /\ pc = "inline"
    /\ \/ Goto("aggregateProof")
       \/ input.depth = 0 /\ Plan("inline", {}, "inlineCommit")

InliningCommit ==
    /\ pc = "inlineCommit"
    /\ \E fits \in StageOutcomes("inline", plan["inline"]) :
          IF fits THEN Commit("inline", plan["inline"], {}, "aggregateProof")
          ELSE Goto("aggregateProof")

\* StandaloneDeviceExecutable: aggregate inlining.  A __FILE__ or __LINE__ of a
\* certified status macro is admitted on condition that the helper commits.
AggregateProof ==
    /\ pc = "aggregateProof"
    /\ \/ Refuse("end", TRUE)
       \/ Goto("rawEnd")
       \/ /\ input.ctx
          /\ \E spots \in SUBSET Spots \ {{}}, relied \in SUBSET tx.calls :
                /\ Work + Cardinality(spots) <= MaxWork
                /\ plan' = [plan EXCEPT !["aggregate"] = spots]
                /\ tx' = [tx EXCEPT !.required = @ \cup relied]
          /\ pc' = "aggregateCommit"
          /\ UNCHANGED <<input, edits, claims, errors, failed, needs, headers, lexed, discovery>>

AggregateCommit == pc = "aggregateCommit" /\ Transact("aggregate", {}, "rawEnd", TRUE)

\* nvidiaSampleHelperRawAuditCompleted = true is the last statement.
RawAuditCompleted ==
    /\ pc = "rawEnd"
    /\ tx' = [tx EXCEPT !.rawDone = TRUE]
    /\ pc' = "end"
    /\ UNCHANGED <<input, plan, edits, claims, errors, failed, needs, headers, lexed, discovery>>

-----------------------------------------------------------------------------
(* EndSourceFileAction.                                                    *)

\* Nothing happens after a boundary failure; otherwise the seals are repeated.
EndSeals ==
    /\ pc = "end"
    /\ IF failed THEN Goto("done")
       ELSE Refuse("done", TRUE) \/ Goto(IF discovery THEN "done" ELSE "endGuards")

\* finalizeCudaAttributeGuards: all proven guards, or silently none.
FinalizeGuards ==
    /\ pc = "endGuards"
    /\ \/ Goto("endAudits")
       \/ /\ plan["guards"] # {}
          /\ TRUE \in StageOutcomes("guards", plan["guards"])
          /\ Commit("guards", plan["guards"], {}, "endAudits")

\* Unregistered device symbols, generated-name conflicts, kernel attribute
\* observations and packed records refuse; so does every way in which the input
\* collides with a compat header that is needed.
CompatCollision ==
    /\ "compat" \in needs
    /\ \/ input.conflict \in {"reserved", "include", "macro"}
       \/ input.conflict = "name" /\ input.compat # "before"

EndAudits ==
    /\ pc = "endAudits"
    /\ \/ Refuse("done", FALSE)
       \/ ~CompatCollision /\ Goto("endClosure")

\* Mutant: nvidiaSampleHelperRawAuditCompleted is not asked for.
SafeToRemoveUnaudited ==
    input.includes = 1 /\ tx.ready /\ ~tx.unsupported /\ input.conflict # "reserved"

\* finalizeNvidiaSampleHelperClosure: include, macro calls and inactive-branch
\* guards change together, and only if the whole file was audited.
SafeToRemove ==
    /\ input.includes = 1
    /\ tx.ready
    /\ tx.rawDone
    /\ ~tx.unsupported
    /\ input.conflict # "reserved"

NeededBranches == {s \in Spots : lexed[s] = "inactive"}

HelperEdits == EditsOf("helper", tx.calls) \cup EditsOf("branch", NeededBranches)

HelperClosure ==
    /\ pc = "endClosure"
    /\ IF ~SafeToRemove THEN Goto("endRequired")
       ELSE \E calls \in StageOutcomes("helper", tx.calls),
               branches \in StageOutcomes("branch", NeededBranches) :
              IF ~(calls /\ branches) THEN Goto("endRequired")
              ELSE LET compat == "compat" \in needs \/ tx.calls # {}
                   IN  /\ edits' = edits \cup HelperEdits
                       /\ claims' = claims \cup HelperEdits
                       /\ tx' = [tx EXCEPT !.committed = TRUE]
                       /\ needs' = IF tx.calls # {} THEN needs \cup {"compat"} ELSE needs
                       /\ headers' = IF compat THEN headers \cup {"compat"} ELSE headers
                       /\ pc' = "endRequired"
                       /\ UNCHANGED <<input, plan, errors, failed, lexed, discovery>>

\* Mutant: conditional admissions are not settled.
HelperOwedByContextOnly ==
    \/ "groups" \in needs /\ input.includes > 0 /\ ~(input.ctx /\ tx.committed)
    \/ input.mustCommit /\ ~tx.committed

\* Whoever was admitted on condition of the helper transaction now checks it.
HelperOwed ==
    LET told == input.ctx /\ tx.committed   \* localHeaderContext->helperTransactionCommitted
    IN  \/ tx.required # {} /\ ~tx.committed
        \/ "groups" \in needs /\ input.includes > 0 /\ ~told
        \/ input.mustCommit /\ ~told

RequireHelper ==
    /\ pc = "endRequired"
    /\ IF HelperOwed THEN Refuse("done", FALSE) ELSE Goto("endHeaders")

\* The includes are inserted in one replacement; a conflict is an error.
InsertHeaders ==
    /\ pc = "endHeaders"
    /\ \/ needs \subseteq headers /\ Goto("endPacked")
       \/ /\ ~(needs \subseteq headers)
          /\ \/ /\ headers' = headers \cup needs
                /\ UNCHANGED errors
             \/ /\ errors' = TRUE
                /\ UNCHANGED headers
          /\ pc' = "endPacked"
          /\ UNCHANGED <<input, plan, edits, claims, failed, needs, lexed, tx, discovery>>

\* finalizePackedRecordEdits: audited, staged, audited again, committed.
FinalizePacked ==
    /\ pc = "endPacked"
    /\ IF plan["packed"] = {} THEN Goto("done")
       ELSE \/ Refuse("done", FALSE)
            \/ /\ \A s \in plan["packed"] : TRUE \in AddOutcomes("packed", s)
               /\ Commit("packed", plan["packed"], {}, "done")

-----------------------------------------------------------------------------
ExecuteAction ==
    \/ SealParse \/ DeferToDiscovery \/ AuditRuntimeSurface \/ Scalar64Proof
    \/ DynamicWarpGroups \/ FullWarpProof \/ FullWarpCommit \/ NttpProof
    \/ SharedWordAlignment \/ HostPointerSwapProof \/ AuditRecords \/ Scalar64Commit
    \/ Vec3Proof \/ Vec3Commit \/ UniformProof \/ UniformCommit \/ ProveHelper
    \/ KernelBounds \/ AbiTailProof \/ AbiTailCommit \/ TextureBoundary \/ NttpCommit
    \/ HostPointerSwapCommit \/ RecipeProof \/ RecipeCommit \/ RewriteToken
    \/ FinishLexing \/ BoundedInlining \/ InliningCommit \/ AggregateProof \/ AggregateCommit
    \/ RawAuditCompleted

EndSourceFileAction ==
    \/ EndSeals \/ FinalizeGuards \/ EndAudits \/ HelperClosure \/ RequireHelper
    \/ InsertHeaders \/ FinalizePacked

\* The action object is not used again: a run ends when both calls returned.
Terminated == pc = "done" /\ UNCHANGED vars

Next ==
    \/ BeginInvocation \/ SemanticRewrite \/ FinishParse
    \/ ExecuteAction
    \/ EndSourceFileAction
    \/ Terminated

Spec == Init /\ [][Next]_vars

-----------------------------------------------------------------------------
(* Properties.                                                             *)

\* ClangTool::run reports success and the driver takes *replacements over.
Published == pc = "done" /\ ~errors /\ ~discovery

\* The state of one AscifyAction object has these types.
TypeOK ==
    /\ input \in Inputs
    /\ plan \in [Lowerings -> SUBSET Spots]
    /\ edits \subseteq [by : Authors, at : Spots]
    /\ claims \subseteq [by : Claiming, at : Spots]
    /\ errors \in BOOLEAN /\ failed \in BOOLEAN /\ discovery \in BOOLEAN
    /\ needs \subseteq Headers /\ headers \subseteq Headers
    /\ lexed \in [Spots -> {"unseen", "clean", "inactive", "residual"}]
    /\ tx \in [calls : SUBSET Spots, required : SUBSET Spots, ready : BOOLEAN,
               unsupported : BOOLEAN, rawDone : BOOLEAN, committed : BOOLEAN]

\* Published output carries every lowering that was proved, completely: a stage
\* that stops the pipeline is never silent (docs/architecture.md: a failed proof
\* must not publish a partial replacement), and the two optional rewrites
\* (attribute guards, template inlining) are all or nothing.
LoweringsWhole ==
    Published =>
        /\ tx.rawDone /\ \A s \in Spots : lexed[s] # "unseen"
        /\ \A l \in Lowerings \ {"bounds", "texture", "guards", "inline"} : EditsOf(l, plan[l]) \subseteq edits
        /\ \A l \in {"guards", "inline"} :
              EditsOf(l, plan[l]) \cap edits \in {{}, EditsOf(l, plan[l])}

\* No text has two semantic owners: plans proved early and committed late are
\* checked against everything claimed in between.  The one exception is the
\* certified callee inside a status macro of the helper transaction.
ClaimsExclusive ==
    \A c, d \in claims : c.at = d.at => c.by = d.by \/ {c.by, d.by} = {"helper", "callee"}

\* The helper include is removed only after the raw pass saw the whole file and
\* found no residual use, however ExecuteAction returned: several stages return
\* without marking the boundary, and EndSourceFileAction then still runs.
ClosureAudited ==
    tx.committed => \A s \in Spots : lexed[s] \in {"clean", "inactive"}

\* The helper include, its calls and the #error guards of inactive branches
\* change together or not at all.
HelperWhole ==
    Published =>
        {e \in edits : e.by \in {"helper", "branch"}} =
            IF tx.committed
            THEN EditsOf("helper", tx.calls)
                   \cup EditsOf("branch", {s \in Spots : lexed[s] = "inactive"})
            ELSE {}

\* The raw token pass never edits inside a range that an AST transformation
\* owned when the token was lexed; only the helper transaction, committed after
\* the pass, spans text that the pass may have mapped.
RawKeepsOut ==
    \A e \in edits : e.by = "raw" => \A c \in claims : c.at = e.at => c.by \in {"helper", "branch"}

\* Published output includes every header that a committed rewrite relies on.
HeadersPresent ==
    Published =>
        /\ needs \subseteq headers
        /\ (\E e \in edits : e.by \in UsesCompat) => "compat" \in headers

\* Nothing is published in part, neither a lowering with the headers it needs nor
\* the helper transaction, wherever ExecuteAction returned early, and the raw pass
\* has spoilt none of it (docs/architecture.md).
PublishedWhole == LoweringsWhole /\ HelperWhole /\ HeadersPresent /\ RawKeepsOut

\* The helper is left in place in published output only if no other proof was
\* admitted on condition that it goes.
HelperKeptOnlyIfFree ==
    Published /\ ~tx.committed =>
        tx.required = {} /\ ~input.mustCommit /\ ~("groups" \in needs /\ input.includes > 0)

\* Published output that needs the compat header has no input that collides with
\* it, also when the helper transaction is the first to need it: that happens
\* after EndSourceFileAction made its collision checks.
NoCompatCollision ==
    Published /\ "compat" \in needs =>
        input.conflict = "none" \/ (input.conflict = "name" /\ input.compat = "before")

\* A discovery parse hands no edit to the driver, whatever EndSourceFileAction does.
DiscoveryEditsNothing == discovery => edits = {}
=============================================================================
