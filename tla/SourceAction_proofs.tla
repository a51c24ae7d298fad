------------------------- MODULE SourceAction_proofs -------------------------
(***************************************************************************)
(* Proofs about the translation of one unit, for every number of spots,    *)
(* every set of inputs and every amount of work: the type invariant, that  *)
(* the helper include goes only after a complete audit, that no text gets  *)
(* two owners, that conditional admissions are settled, that a discovery   *)
(* parse hands over no edit, that nothing is published in part, and that   *)
(* needed headers meet no collision.                                       *)
(*                                                                         *)
(* Most of the forty stages only refuse, go on, plan or commit: the lemmas *)
(* OpXxx say once what these do (Summary), and StageSteps that each stage  *)
(* is such a step between the right labels.  The invariants then look at   *)
(* Stage and at the few actions that do more.                              *)
(*                                                                         *)
(* For what is published as a whole the labels get ranks.  Advance says    *)
(* what a step may do to plans and edits relative to the ranks: only the   *)
(* stage of a lowering plans it, only its commit edits for it, and none is *)
(* passed by without its edits unless an error was reported.  Advance      *)
(* holds of every step but the one that drops the edits (AdvanceNext), and *)
(* the parts of WholeInv follow from it one by one.                        *)
(***************************************************************************)
EXTENDS SourceAction, TLAPS

BeforeLex ==
  {"begin", "parse", "seal", "discover", "scalar64Proof", "groups", "fullwarpProof",
   "fullwarpCommit", "nttpProof", "shared", "swapProof", "records", "scalar64Commit",
   "vec3Proof", "vec3Commit", "uniformProof", "uniformCommit", "helper", "bounds",
   "tailsProof", "tailsCommit", "texture", "nttpCommit", "swapCommit",
   "recipeProof", "recipeCommit"}
AfterLex == {"inline", "inlineCommit", "aggregateProof", "aggregateCommit", "rawEnd"}
Closing == {"endGuards", "endAudits", "endClosure"}
AfterClosure == {"endRequired", "endHeaders", "endPacked", "done"}

\* New claims meet no other owner, except a callee inside a helper call.
ClaimsStep ==
  \A c \in claims' : \A d \in claims' :
    c \notin claims /\ c.at = d.at => c.by = d.by \/ {c.by, d.by} = {"helper", "callee"}

\* What refusing, going on, planning and committing have in common.
Summary ==
  /\ TypeOK'
  /\ UNCHANGED <<input, lexed, tx, discovery>>
  /\ errors => errors'
  /\ failed' => failed \/ errors'
  /\ ClaimsStep

\* A stage before the closure of the helper: its label and the next one are in
\* the same part of the action, or it ends the part.
Stage ==
  /\ Summary
  /\ pc \in BeforeLex \cup AfterLex \cup Closing
  /\ pc' \notin AfterClosure
  /\ pc' \in BeforeLex => pc \in BeforeLex
  /\ pc' \in AfterLex => pc \in AfterLex

-----------------------------------------------------------------------------
\* Editing records the author and the spots.
LEMMA EditsType ==
  ASSUME NEW A, NEW author \in A, NEW spots \in SUBSET Spots
  PROVE  EditsOf(author, spots) \subseteq [by : A, at : Spots]
BY DEF EditsOf

\* A set of edits that can be staged meets no claim.
LEMMA StageFits ==
  ASSUME NEW author, NEW spots, NEW fits \in StageOutcomes(author, spots), fits
  PROVE  \A s \in spots : ~Overlaps(author, s)
BY DEF StageOutcomes

\* Refusing changes only the diagnostics.
LEMMA OpRefuse ==
  ASSUME TypeOK, NEW exit, NEW marks \in BOOLEAN, Refuse(exit, marks)
  PROVE  Summary /\ pc' = exit /\ errors'
<1>1. TypeOK'
  BY DEF TypeOK, Refuse
<1> QED
  BY <1>1 DEF Refuse, Summary, ClaimsStep

\* Going on changes nothing.
LEMMA OpGoto ==
  ASSUME TypeOK, NEW next, Goto(next)
  PROVE  Summary /\ pc' = next
<1>1. TypeOK'
  BY DEF TypeOK, Goto
<1> QED
  BY <1>1 DEF Goto, Summary, ClaimsStep

\* A plan edits nothing yet.
LEMMA OpPlan ==
  ASSUME TypeOK, NEW lowering \in Lowerings, NEW required \in SUBSET Headers, NEW next,
         Plan(lowering, required, next)
  PROVE  Summary /\ pc' = next
<1>1. PICK spots \in SUBSET Spots : plan' = [plan EXCEPT ![lowering] = spots]
  BY DEF Plan
<1>2. plan' \in [Lowerings -> SUBSET Spots]
  BY <1>1 DEF TypeOK
<1>3. needs' \subseteq Headers
  BY DEF Plan, TypeOK
<1>4. TypeOK'
  BY <1>2, <1>3 DEF Plan, TypeOK
<1> QED
  BY <1>4 DEF Plan, Summary, ClaimsStep

\* A need edits nothing.
LEMMA OpNeed ==
  ASSUME TypeOK, NEW required \in SUBSET Headers, NEW next, Need(required, next)
  PROVE  Summary /\ pc' = next
<1>1. needs' \subseteq Headers
  BY DEF Need, TypeOK
<1>2. TypeOK'
  BY <1>1 DEF Need, TypeOK
<1> QED
  BY <1>2 DEF Need, Summary, ClaimsStep

\* A commit of edits that meet no claim claims text without another owner.
LEMMA OpCommit ==
  ASSUME TypeOK, NEW author \in Authors, NEW spots \in SUBSET Spots,
         NEW required \in SUBSET Headers, NEW next, Commit(author, spots, required, next),
         author \in Claiming => \A s \in spots : ~Overlaps(author, s)
  PROVE  Summary /\ pc' = next
<1>1. edits' \subseteq [by : Authors, at : Spots]
  BY EditsType DEF Commit, TypeOK
<1>2. claims' \subseteq [by : Claiming, at : Spots]
  BY EditsType DEF Commit, TypeOK, ClaimsOf
<1>3. needs' \subseteq Headers
  BY DEF Commit, TypeOK
<1>4. TypeOK'
  BY <1>1, <1>2, <1>3 DEF Commit, TypeOK
<1>5. ClaimsStep
  <2> SUFFICES ASSUME NEW c \in claims', NEW d \in claims', c \notin claims, c.at = d.at
               PROVE  c.by = d.by \/ {c.by, d.by} = {"helper", "callee"}
    BY DEF ClaimsStep
  <2>1. author \in Claiming /\ c \in EditsOf(author, spots)
    BY DEF Commit, ClaimsOf
  <2>2. c.by = author /\ c.at \in spots
    BY <2>1 DEF EditsOf
  <2>3. CASE d \in claims
    BY <2>1, <2>2, <2>3 DEF Overlaps
  <2>4. CASE d \notin claims
    BY <2>1, <2>2, <2>4 DEF Commit, ClaimsOf, EditsOf
  <2> QED
    BY <2>3, <2>4
<1> QED
  BY <1>4, <1>5 DEF Commit, Summary

-----------------------------------------------------------------------------
\* The three forms of a stage.
LEMMA OpGate ==
  ASSUME TypeOK, NEW next, Gate(next)
  PROVE  Summary /\ pc' \in {"end", next}
BY OpRefuse, OpGoto DEF Gate

\* A proof stage refuses, goes on or plans.
LEMMA OpProve ==
  ASSUME TypeOK, NEW lowering \in Lowerings, NEW next, NEW marks \in BOOLEAN,
         Prove(lowering, next, marks)
  PROVE  Summary /\ pc' \in {"end", next}
<1>1. CASE Refuse("end", marks)
  BY <1>1, OpRefuse
<1>2. CASE Goto(next)
  BY <1>2, OpGoto
<1>3. CASE Plan(lowering, {}, next)
  BY <1>3, OpPlan
<1> QED
  BY <1>1, <1>2, <1>3 DEF Prove

\* A transaction commits all of its plan or refuses.
LEMMA OpTransact ==
  ASSUME TypeOK, NEW lowering \in Lowerings \cap Authors, NEW required \in SUBSET Headers,
         NEW next, NEW marks \in BOOLEAN, Transact(lowering, required, next, marks)
  PROVE  Summary /\ pc' \in {"end", next}
<1>0. plan[lowering] \in SUBSET Spots
  BY DEF TypeOK
<1>1. CASE Goto(next)
  BY <1>1, OpGoto
<1>2. CASE Refuse("end", marks)
  BY <1>2, OpRefuse
<1>3. CASE \E fits \in StageOutcomes(lowering, plan[lowering]) :
               fits /\ Commit(lowering, plan[lowering], required, next)
  <2>1. \A s \in plan[lowering] : ~Overlaps(lowering, s)
    BY <1>3, StageFits
  <2> QED
    BY <1>0, <1>3, <2>1, OpCommit
<1> QED
  BY <1>1, <1>2, <1>3 DEF Transact

-----------------------------------------------------------------------------
\* The stages that only refuse, go on, plan or commit.
StageStep ==
  \/ SemanticRewrite \/ FinishParse \/ SealParse \/ AuditRuntimeSurface \/ Scalar64Proof
  \/ DynamicWarpGroups \/ FullWarpProof \/ FullWarpCommit \/ NttpProof
  \/ SharedWordAlignment \/ HostPointerSwapProof \/ AuditRecords \/ Scalar64Commit
  \/ Vec3Proof \/ Vec3Commit \/ UniformProof \/ UniformCommit \/ KernelBounds
  \/ AbiTailProof \/ AbiTailCommit \/ NttpCommit \/ HostPointerSwapCommit \/ RecipeProof
  \/ RecipeCommit \/ BoundedInlining \/ InliningCommit \/ AggregateCommit \/ FinalizeGuards

\* An AST match is rewritten where no earlier rewrite is.
LEMMA SemanticRewriteStage == TypeOK /\ SemanticRewrite => Stage
<1> SUFFICES ASSUME TypeOK, SemanticRewrite PROVE Stage
  OBVIOUS
<1>1. PICK s \in Spots : \E author \in {"plain", "semantic", "callee"} :
         /\ ~Overlaps(author, s)
         /\ \/ Commit(author, {s}, IF author = "plain" THEN {} ELSE {"compat"}, "parse")
            \/ Refuse("parse", FALSE)
  BY DEF SemanticRewrite
<1>2. PICK author \in {"plain", "semantic", "callee"} :
         /\ ~Overlaps(author, s)
         /\ \/ Commit(author, {s}, IF author = "plain" THEN {} ELSE {"compat"}, "parse")
            \/ Refuse("parse", FALSE)
  BY <1>1
<1>3. author \in Authors /\ {s} \in SUBSET Spots
      /\ (IF author = "plain" THEN {} ELSE {"compat"}) \in SUBSET Headers
  BY DEF Authors, Headers
<1>4. CASE Commit(author, {s}, IF author = "plain" THEN {} ELSE {"compat"}, "parse")
  <2>1. Summary /\ pc' = "parse"
    BY <1>2, <1>3, <1>4, OpCommit
  <2> QED
    BY <2>1 DEF SemanticRewrite, Stage, BeforeLex, AfterLex, AfterClosure
<1>5. CASE Refuse("parse", FALSE)
  <2>1. Summary /\ pc' = "parse"
    BY <1>5, OpRefuse
  <2> QED
    BY <2>1 DEF SemanticRewrite, Stage, BeforeLex, AfterLex, AfterClosure
<1> QED
  BY <1>2, <1>4, <1>5

\* The recipe's edits go in one by one; none claims text.
LEMMA RecipeCommitStage == TypeOK /\ RecipeCommit => Stage
<1> SUFFICES ASSUME TypeOK, RecipeCommit PROVE Stage
  OBVIOUS
<1>1. PICK some \in SUBSET plan["recipe"] :
         /\ edits' = edits \cup EditsOf("recipe", some)
         /\ needs' = IF some = {} THEN needs ELSE needs \cup {"target"}
         /\ errors' = (errors \/ some # plan["recipe"])
  BY DEF RecipeCommit
<1>2. some \in SUBSET Spots /\ "recipe" \in Authors
  BY DEF TypeOK, Lowerings, Authors
<1>3. edits' \subseteq [by : Authors, at : Spots]
  BY <1>1, <1>2, EditsType DEF TypeOK
<1>4. needs' \subseteq Headers
  BY <1>1 DEF TypeOK, Headers
<1>5. errors' \in BOOLEAN /\ (errors => errors')
  BY <1>1 DEF TypeOK
<1>6. UNCHANGED <<input, plan, claims, failed, headers, lexed, tx, discovery>>
      /\ pc = "recipeCommit" /\ pc' = "lex"
  BY DEF RecipeCommit
<1>7. TypeOK'
  BY <1>3, <1>4, <1>5, <1>6 DEF TypeOK
<1> QED
  BY <1>5, <1>6, <1>7 DEF Summary, ClaimsStep, Stage, BeforeLex, AfterLex, AfterClosure

\* The optional rewrites commit what fits or go on.
LEMMA OptionalStages == TypeOK /\ (InliningCommit \/ FinalizeGuards) => Stage
<1> SUFFICES ASSUME TypeOK, InliningCommit \/ FinalizeGuards PROVE Stage
  OBVIOUS
<1>0. /\ "inline" \in Lowerings \cap Authors /\ "guards" \in Lowerings \cap Authors
      /\ plan["inline"] \in SUBSET Spots /\ plan["guards"] \in SUBSET Spots
  BY DEF TypeOK, Lowerings, Authors
<1>1. CASE InliningCommit
  <2>1. CASE Goto("aggregateProof")
    <3>1. Summary /\ pc' = "aggregateProof"
      BY <2>1, OpGoto
    <3> QED
      BY <1>1, <3>1 DEF InliningCommit, Stage, BeforeLex, AfterLex, AfterClosure
  <2>2. CASE Commit("inline", plan["inline"], {}, "aggregateProof")
    <3>1. Summary /\ pc' = "aggregateProof"
      BY <1>0, <2>2, OpCommit DEF Claiming
    <3> QED
      BY <1>1, <3>1 DEF InliningCommit, Stage, BeforeLex, AfterLex, AfterClosure
  <2> QED
    BY <1>1, <2>1, <2>2 DEF InliningCommit
<1>2. CASE FinalizeGuards
  <2>1. CASE Goto("endAudits")
    <3>1. Summary /\ pc' = "endAudits"
      BY <2>1, OpGoto
    <3> QED
      BY <1>2, <3>1 DEF FinalizeGuards, Stage, BeforeLex, AfterLex, Closing, AfterClosure
  <2>2. CASE TRUE \in StageOutcomes("guards", plan["guards"])
             /\ Commit("guards", plan["guards"], {}, "endAudits")
    <3>1. \A s \in plan["guards"] : ~Overlaps("guards", s)
      BY <2>2, StageFits
    <3>2. Summary /\ pc' = "endAudits"
      BY <1>0, <2>2, <3>1, OpCommit
    <3> QED
      BY <1>2, <3>2 DEF FinalizeGuards, Stage, BeforeLex, AfterLex, Closing, AfterClosure
  <2> QED
    BY <1>2, <2>1, <2>2 DEF FinalizeGuards
<1> QED
  BY <1>1, <1>2

\* Every stage of the list is a Stage.
LEMMA StageSteps == TypeOK /\ StageStep => Stage
<1> SUFFICES ASSUME TypeOK, StageStep PROVE Stage
  OBVIOUS
<1>1. CASE SealParse
  <2>1. Summary /\ pc = "seal" /\ pc' \in {"end", "discover"}
    BY <1>1, OpGate DEF SealParse
  <2> QED
    BY <2>1 DEF Stage, BeforeLex, AfterLex, AfterClosure
<1>2. CASE AuditRuntimeSurface
  <2>1. Summary /\ pc = "discover" /\ pc' \in {"end", "scalar64Proof"}
    BY <1>2, OpGate DEF AuditRuntimeSurface
  <2> QED
    BY <2>1 DEF Stage, BeforeLex, AfterLex, AfterClosure
<1>3. CASE AuditRecords
  <2>1. Summary /\ pc = "records" /\ pc' \in {"end", "scalar64Commit"}
    BY <1>3, OpGate DEF AuditRecords
  <2> QED
    BY <2>1 DEF Stage, BeforeLex, AfterLex, AfterClosure
<1>4. CASE Scalar64Proof
  <2>1. Summary /\ pc = "scalar64Proof" /\ pc' \in {"end", "groups"}
    BY <1>4, OpProve DEF Scalar64Proof, Lowerings
  <2> QED
    BY <2>1 DEF Stage, BeforeLex, AfterLex, AfterClosure
<1>5. CASE FullWarpProof
  <2>1. Summary /\ pc = "fullwarpProof" /\ pc' \in {"end", "fullwarpCommit"}
    BY <1>5, OpProve DEF FullWarpProof, Lowerings
  <2> QED
    BY <2>1 DEF Stage, BeforeLex, AfterLex, AfterClosure
<1>6. CASE NttpProof
  <2>1. Summary /\ pc = "nttpProof" /\ pc' \in {"end", "shared"}
    BY <1>6, OpProve DEF NttpProof, Lowerings
  <2> QED
    BY <2>1 DEF Stage, BeforeLex, AfterLex, AfterClosure
<1>7. CASE HostPointerSwapProof
  <2>1. Summary /\ pc = "swapProof" /\ pc' \in {"end", "records"}
    BY <1>7, OpProve DEF HostPointerSwapProof, Lowerings
  <2> QED
    BY <2>1 DEF Stage, BeforeLex, AfterLex, AfterClosure
<1>8. CASE Vec3Proof
  <2>1. Summary /\ pc = "vec3Proof" /\ pc' \in {"end", "vec3Commit"}
    BY <1>8, OpProve DEF Vec3Proof, Lowerings
  <2> QED
    BY <2>1 DEF Stage, BeforeLex, AfterLex, AfterClosure
<1>9. CASE UniformProof
  <2>1. Summary /\ pc = "uniformProof" /\ pc' \in {"end", "uniformCommit"}
    BY <1>9, OpProve DEF UniformProof, Lowerings
  <2> QED
    BY <2>1 DEF Stage, BeforeLex, AfterLex, AfterClosure
<1>10. CASE RecipeProof
  <2>1. Summary /\ pc = "recipeProof" /\ pc' \in {"end", "recipeCommit"}
    BY <1>10, OpProve DEF RecipeProof, Lowerings
  <2> QED
    BY <2>1 DEF Stage, BeforeLex, AfterLex, AfterClosure
<1>11. CASE AbiTailProof
  <2>1. Summary /\ pc = "tailsProof" /\ pc' \in {"end", "tailsCommit"}
    BY <1>11, OpProve, OpGate DEF AbiTailProof, Lowerings
  <2> QED
    BY <2>1 DEF Stage, BeforeLex, AfterLex, AfterClosure
<1>12. CASE FullWarpCommit
  <2>1. Summary /\ pc = "fullwarpCommit" /\ pc' \in {"end", "nttpProof"}
    BY <1>12, OpTransact DEF FullWarpCommit, Lowerings, Authors, Headers
  <2> QED
    BY <2>1 DEF Stage, BeforeLex, AfterLex, AfterClosure
<1>13. CASE Scalar64Commit
  <2>1. Summary /\ pc = "scalar64Commit" /\ pc' \in {"end", "vec3Proof"}
    BY <1>13, OpTransact DEF Scalar64Commit, Lowerings, Authors, Headers
  <2> QED
    BY <2>1 DEF Stage, BeforeLex, AfterLex, AfterClosure
<1>14. CASE Vec3Commit
  <2>1. Summary /\ pc = "vec3Commit" /\ pc' \in {"end", "uniformProof"}
    BY <1>14, OpTransact DEF Vec3Commit, Lowerings, Authors, Headers
  <2> QED
    BY <2>1 DEF Stage, BeforeLex, AfterLex, AfterClosure
<1>15. CASE UniformCommit
  <2>1. Summary /\ pc = "uniformCommit" /\ pc' \in {"end", "helper"}
    BY <1>15, OpTransact DEF UniformCommit, Lowerings, Authors, Headers
  <2> QED
    BY <2>1 DEF Stage, BeforeLex, AfterLex, AfterClosure
<1>16. CASE AbiTailCommit
  <2>1. Summary /\ pc = "tailsCommit" /\ pc' \in {"end", "texture"}
    BY <1>16, OpTransact DEF AbiTailCommit, Lowerings, Authors, Headers
  <2> QED
    BY <2>1 DEF Stage, BeforeLex, AfterLex, AfterClosure
<1>17. CASE NttpCommit
  <2>1. Summary /\ pc = "nttpCommit" /\ pc' \in {"end", "swapCommit"}
    BY <1>17, OpTransact DEF NttpCommit, Lowerings, Authors, Headers
  <2> QED
    BY <2>1 DEF Stage, BeforeLex, AfterLex, AfterClosure
<1>18. CASE HostPointerSwapCommit
  <2>1. Summary /\ pc = "swapCommit" /\ pc' \in {"end", "recipeProof"}
    BY <1>18, OpTransact DEF HostPointerSwapCommit, Lowerings, Authors, Headers
  <2> QED
    BY <2>1 DEF Stage, BeforeLex, AfterLex, AfterClosure
<1>19. CASE DynamicWarpGroups
  <2>1. Summary /\ pc = "groups" /\ pc' \in {"end", "fullwarpProof"}
    BY <1>19, OpGate, OpNeed DEF DynamicWarpGroups, Headers
  <2> QED
    BY <2>1 DEF Stage, BeforeLex, AfterLex, AfterClosure
<1>20. CASE SharedWordAlignment
  <2>1. Summary /\ pc = "shared" /\ pc' \in {"end", "swapProof"}
    BY <1>20, OpGate, OpNeed DEF SharedWordAlignment, Headers
  <2> QED
    BY <2>1 DEF Stage, BeforeLex, AfterLex, AfterClosure
<1>21. CASE KernelBounds
  <2>1. Summary /\ pc = "bounds" /\ pc' \in {"end", "tailsProof"}
    BY <1>21, OpGate, OpPlan DEF KernelBounds, Lowerings, Headers
  <2> QED
    BY <2>1 DEF Stage, BeforeLex, AfterLex, AfterClosure
<1>22. CASE FinishParse
  <2>1. Summary /\ pc = "parse" /\ pc' \in {"end", "seal"}
    BY <1>22, OpGoto, OpRefuse, OpPlan DEF FinishParse, Lowerings
  <2> QED
    BY <2>1 DEF Stage, BeforeLex, AfterLex, AfterClosure
<1>23. CASE AggregateCommit
  <2>1. Summary /\ pc = "aggregateCommit" /\ pc' \in {"end", "rawEnd"}
    BY <1>23, OpTransact DEF AggregateCommit, Lowerings, Authors, Headers
  <2> QED
    BY <2>1 DEF Stage, BeforeLex, AfterLex, AfterClosure
<1>24. CASE BoundedInlining
  <2>1. Summary /\ pc = "inline" /\ pc' \in {"aggregateProof", "inlineCommit"}
    BY <1>24, OpGoto, OpPlan DEF BoundedInlining, Lowerings
  <2> QED
    BY <2>1 DEF Stage, BeforeLex, AfterLex, AfterClosure
<1> QED
  BY <1>1, <1>2, <1>3, <1>4, <1>5, <1>6, <1>7, <1>8, <1>9, <1>10, <1>11, <1>12,
     <1>13, <1>14, <1>15, <1>16, <1>17, <1>18, <1>19, <1>20, <1>21, <1>22,
     <1>23, <1>24, SemanticRewriteStage, RecipeCommitStage,
     OptionalStages DEF StageStep

-----------------------------------------------------------------------------
(* The actions around the stages: the first call, and EndSourceFileAction. *)

\* BeginInvocation and the checks of EndSourceFileAction only refuse or go on.
LEMMA EdgeSteps ==
  ASSUME TypeOK
  PROVE  /\ BeginInvocation => Summary /\ pc = "begin" /\ pc' \in {"done", "parse"}
                               /\ (pc' = "done" => errors')
         /\ EndSeals => Summary /\ pc = "end" /\ pc' \in {"done", "endGuards"}
                        /\ UNCHANGED edits /\ (discovery => pc' = "done")
                        /\ (pc' = "done" => errors' \/ failed \/ discovery)
         /\ EndAudits => Summary /\ pc = "endAudits" /\ pc' \in {"done", "endClosure"}
                         /\ (pc' = "done" => errors')
         /\ RequireHelper => Summary /\ pc = "endRequired"
                             /\ pc' \in {"done", "endHeaders"} /\ UNCHANGED needs
                             /\ IF HelperOwed THEN pc' = "done" /\ errors' ELSE pc' = "endHeaders"
<1>1. BeginInvocation => Summary /\ pc = "begin" /\ pc' \in {"done", "parse"}
                         /\ (pc' = "done" => errors')
  <2>1. Refuse("done", FALSE) => Summary /\ pc' = "done" /\ errors'
    BY OpRefuse
  <2>2. Goto("parse") => Summary /\ pc' = "parse"
    BY OpGoto
  <2> QED
    BY <2>1, <2>2 DEF BeginInvocation
<1>2. ASSUME EndSeals
      PROVE  /\ Summary /\ pc = "end" /\ pc' \in {"done", "endGuards"}
             /\ UNCHANGED edits /\ (discovery => pc' = "done")
             /\ (pc' = "done" => errors' \/ failed \/ discovery)
  <2>1. CASE failed
    BY <1>2, <2>1, OpGoto DEF EndSeals, Goto
  <2>2. CASE ~failed /\ Refuse("done", TRUE)
    BY <1>2, <2>2, OpRefuse DEF EndSeals, Refuse
  <2>3. CASE ~failed /\ discovery /\ Goto("done")
    BY <1>2, <2>3, OpGoto DEF EndSeals, Goto
  <2>4. CASE ~failed /\ ~discovery /\ Goto("endGuards")
    BY <1>2, <2>4, OpGoto DEF EndSeals, Goto
  <2> QED
    BY <1>2, <2>1, <2>2, <2>3, <2>4 DEF EndSeals
<1>3. EndAudits => Summary /\ pc = "endAudits" /\ pc' \in {"done", "endClosure"}
                   /\ (pc' = "done" => errors')
  <2>1. Refuse("done", FALSE) => Summary /\ pc' = "done" /\ errors'
    BY OpRefuse
  <2>2. Goto("endClosure") => Summary /\ pc' = "endClosure"
    BY OpGoto
  <2> QED
    BY <2>1, <2>2 DEF EndAudits
<1>4. RequireHelper => Summary /\ pc = "endRequired"
                       /\ pc' \in {"done", "endHeaders"} /\ UNCHANGED needs
                       /\ IF HelperOwed THEN pc' = "done" /\ errors' ELSE pc' = "endHeaders"
  BY OpRefuse, OpGoto DEF RequireHelper, Refuse, Goto
<1> QED
  BY <1>1, <1>2, <1>3, <1>4

\* The packed records are the last edits; they claim no text.
LEMMA PackedStep ==
  TypeOK /\ FinalizePacked => Summary /\ pc = "endPacked" /\ pc' = "done" /\ UNCHANGED needs
<1> SUFFICES ASSUME TypeOK, FinalizePacked
             PROVE  Summary /\ pc = "endPacked" /\ pc' = "done" /\ UNCHANGED needs
  OBVIOUS
<1>0. plan["packed"] \in SUBSET Spots /\ "packed" \in Authors
  BY DEF TypeOK, Lowerings, Authors
<1>1. CASE Goto("done")
  BY <1>1, OpGoto DEF FinalizePacked, Goto
<1>2. CASE Refuse("done", FALSE)
  BY <1>2, OpRefuse DEF FinalizePacked, Refuse
<1>3. CASE Commit("packed", plan["packed"], {}, "done")
  <2>1. Summary /\ pc' = "done"
    BY <1>0, <1>3, OpCommit DEF Claiming
  <2> QED
    BY <1>3, <2>1 DEF FinalizePacked, Commit
<1> QED
  BY <1>1, <1>2, <1>3 DEF FinalizePacked

-----------------------------------------------------------------------------
(* The type invariant. *)

Tx == [calls : SUBSET Spots, required : SUBSET Spots, ready : BOOLEAN,
       unsupported : BOOLEAN, rawDone : BOOLEAN, committed : BOOLEAN]

\* The actions that change the helper transaction or the lexer's record, with
\* what they do to them.
LEMMA ProveHelperTx ==
  ASSUME TypeOK, ProveHelper
  PROVE  /\ tx' \in Tx /\ tx'.required = tx.required /\ tx'.rawDone = tx.rawDone
         /\ tx'.committed = tx.committed /\ (tx.unsupported => tx'.unsupported)
<1>1. CASE UNCHANGED tx
  BY <1>1 DEF TypeOK, Tx
<1>2. CASE \E calls \in SUBSET Spots, u \in BOOLEAN, r \in BOOLEAN :
             tx' = [tx EXCEPT !.calls = calls, !.unsupported = tx.unsupported \/ u, !.ready = r]
  <2>1. PICK calls \in SUBSET Spots, u \in BOOLEAN, r \in BOOLEAN :
             tx' = [tx EXCEPT !.calls = calls, !.unsupported = tx.unsupported \/ u, !.ready = r]
    BY <1>2
  <2>2. tx.unsupported \/ u \in BOOLEAN
    BY DEF TypeOK
  <2> QED
    BY <2>1, <2>2 DEF TypeOK, Tx
<1> QED
  BY <1>1, <1>2 DEF ProveHelper, Goto

\* Texture calls and aggregate diagnostics add to what is required of the helper.
LEMMA RequiredTx ==
  ASSUME TypeOK, TextureBoundary \/ AggregateProof
  PROVE  /\ tx' \in Tx /\ tx'.calls = tx.calls /\ tx'.rawDone = tx.rawDone
         /\ tx'.committed = tx.committed /\ tx'.unsupported = tx.unsupported
<1>1. CASE UNCHANGED tx
  BY <1>1 DEF TypeOK, Tx
<1>2. CASE \E r \in SUBSET Spots : tx' = [tx EXCEPT !.required = r]
  BY <1>2 DEF TypeOK, Tx
<1>3. tx.calls \in SUBSET Spots /\ tx.required \in SUBSET Spots
  BY DEF TypeOK
<1>4. TextureBoundary => UNCHANGED tx \/ \E r \in SUBSET Spots : tx' = [tx EXCEPT !.required = r]
  BY <1>3 DEF TextureBoundary, Refuse
<1>5. AggregateProof => UNCHANGED tx \/ \E r \in SUBSET Spots : tx' = [tx EXCEPT !.required = r]
  BY <1>3 DEF AggregateProof, Refuse, Goto
<1> QED
  BY <1>1, <1>2, <1>4, <1>5

\* The lexer records one spot and may find a residual use.
LEMMA RewriteTokenTx ==
  ASSUME TypeOK, RewriteToken
  PROVE  \E s \in Spots, audit \in {"clean", "inactive", "residual"} :
           /\ NextSpot(s)
           /\ s \in tx.calls => audit = "clean"
           /\ lexed' = [lexed EXCEPT ![s] = audit]
           /\ tx' \in Tx /\ tx'.calls = tx.calls /\ tx'.required = tx.required
           /\ tx'.rawDone = tx.rawDone /\ tx'.committed = tx.committed
           /\ tx'.unsupported = (tx.unsupported \/ audit = "residual")
<1>1. PICK s \in Spots : \E audit \in HelperAudit(s) :
         /\ NextSpot(s)
         /\ lexed' = [lexed EXCEPT ![s] = audit]
         /\ tx' = [tx EXCEPT !.unsupported = @ \/ audit = "residual"]
  BY DEF RewriteToken
<1>2. PICK audit \in HelperAudit(s) :
         /\ NextSpot(s)
         /\ lexed' = [lexed EXCEPT ![s] = audit]
         /\ tx' = [tx EXCEPT !.unsupported = @ \/ audit = "residual"]
  BY <1>1
<1>3. audit \in {"clean", "inactive", "residual"} /\ (s \in tx.calls => audit = "clean")
  BY DEF HelperAudit
<1>4. /\ tx' \in Tx /\ tx'.calls = tx.calls /\ tx'.required = tx.required
      /\ tx'.rawDone = tx.rawDone /\ tx'.committed = tx.committed
      /\ tx'.unsupported = (tx.unsupported \/ audit = "residual")
  BY <1>2 DEF TypeOK, Tx
<1> QED
  BY <1>2, <1>3, <1>4

\* What the end of the raw pass, of the chain and of the transaction record.
LEMMA MarkTx ==
  ASSUME TypeOK
  PROVE  /\ FinishLexing =>
              /\ tx' \in Tx /\ tx'.calls = tx.calls /\ tx'.required = tx.required
              /\ tx'.rawDone = tx.rawDone /\ tx'.committed = tx.committed
              /\ tx.unsupported => tx'.unsupported
         /\ RawAuditCompleted =>
              /\ tx' \in Tx /\ tx'.calls = tx.calls /\ tx'.required = tx.required
              /\ tx'.rawDone /\ tx'.committed = tx.committed
              /\ tx'.unsupported = tx.unsupported
         /\ HelperClosure =>
              \/ UNCHANGED tx
              \/ /\ SafeToRemove
                 /\ tx' \in Tx /\ tx'.calls = tx.calls /\ tx'.required = tx.required
                 /\ tx'.rawDone = tx.rawDone /\ tx'.committed
                 /\ tx'.unsupported = tx.unsupported
<1>1. ASSUME FinishLexing
      PROVE  /\ tx' \in Tx /\ tx'.calls = tx.calls /\ tx'.required = tx.required
             /\ tx'.rawDone = tx.rawDone /\ tx'.committed = tx.committed
             /\ tx.unsupported => tx'.unsupported
  <2>1. PICK b \in BOOLEAN : tx' = [tx EXCEPT !.unsupported = tx.unsupported \/ b]
    BY <1>1 DEF FinishLexing
  <2>2. tx.unsupported \/ b \in BOOLEAN
    BY DEF TypeOK
  <2> QED
    BY <2>1, <2>2 DEF TypeOK, Tx
<1>2. ASSUME RawAuditCompleted
      PROVE  /\ tx' \in Tx /\ tx'.calls = tx.calls /\ tx'.required = tx.required
             /\ tx'.rawDone /\ tx'.committed = tx.committed
             /\ tx'.unsupported = tx.unsupported
  BY <1>2 DEF RawAuditCompleted, TypeOK, Tx
<1>3. ASSUME HelperClosure, ~UNCHANGED tx
      PROVE  /\ SafeToRemove
             /\ tx' \in Tx /\ tx'.calls = tx.calls /\ tx'.required = tx.required
             /\ tx'.rawDone = tx.rawDone /\ tx'.committed
             /\ tx'.unsupported = tx.unsupported
  <2>1. SafeToRemove /\ tx' = [tx EXCEPT !.committed = TRUE]
    BY <1>3 DEF HelperClosure, Goto
  <2> QED
    BY <2>1 DEF TypeOK, Tx
<1> QED
  BY <1>1, <1>2, <1>3

\* The state before BeginInvocation has the types.
LEMMA TypeInit == Init => TypeOK
<1> SUFFICES ASSUME Init PROVE TypeOK
  OBVIOUS
<1>1. tx \in Tx
  <2>1. (input.conflict = "include") \in BOOLEAN
    OBVIOUS
  <2> QED
    BY <2>1 DEF Init, Tx
<1>2. plan \in [Lowerings -> SUBSET Spots]
  BY DEF Init
<1>3. lexed \in [Spots -> {"unseen", "clean", "inactive", "residual"}]
  BY DEF Init
<1>4. headers \subseteq Headers
  BY DEF Init, Headers
<1> QED
  BY <1>1, <1>2, <1>3, <1>4 DEF Init, TypeOK, Tx

\* The raw pass keeps the types: what it edits is a spot.
LEMMA RewriteTokenType == TypeOK /\ RewriteToken => TypeOK'
<1> SUFFICES ASSUME TypeOK, RewriteToken PROVE TypeOK'
  OBVIOUS
<1>1. tx' \in Tx /\ lexed' \in [Spots -> {"unseen", "clean", "inactive", "residual"}]
  <2>1. PICK s \in Spots, audit \in {"clean", "inactive", "residual"} :
           tx' \in Tx /\ lexed' = [lexed EXCEPT ![s] = audit]
    BY RewriteTokenTx
  <2> QED
    BY <2>1 DEF TypeOK
<1>2. UNCHANGED <<input, plan, headers, discovery>>
  BY DEF RewriteToken
<1>3. PICK s \in Spots :
        \/ Ignore
        \/ RawEdit(s, "callee", {"compat"})
        \/ \E required \in SUBSET {"compat", "texture"} : RawEdit(s, "raw", required)
        \/ errors' = TRUE /\ failed' = TRUE /\ UNCHANGED <<edits, claims, needs>>
  BY DEF RewriteToken
<1>4. ASSUME NEW author \in {"raw", "callee"}, NEW required \in SUBSET {"compat", "texture"},
             RawEdit(s, author, required)
      PROVE  /\ edits' \subseteq [by : Authors, at : Spots]
             /\ claims' \subseteq [by : Claiming, at : Spots]
             /\ errors' \in BOOLEAN /\ failed' \in BOOLEAN /\ needs' \subseteq Headers
  <2>0. author \in Authors /\ {s} \in SUBSET Spots
    BY DEF Authors
  <2>1. edits' \subseteq [by : Authors, at : Spots]
    BY <1>4, <2>0, EditsType DEF RawEdit, TypeOK
  <2>2. claims' \subseteq [by : Claiming, at : Spots]
    BY <1>4, <2>0, EditsType DEF RawEdit, TypeOK, ClaimsOf
  <2>3. errors' \in BOOLEAN /\ failed' \in BOOLEAN
    BY <1>4 DEF RawEdit, TypeOK
  <2>4. needs' \subseteq Headers
    BY <1>4 DEF RawEdit, TypeOK, Headers
  <2> QED
    BY <2>1, <2>2, <2>3, <2>4
<1>5. /\ edits' \subseteq [by : Authors, at : Spots]
      /\ claims' \subseteq [by : Claiming, at : Spots]
      /\ errors' \in BOOLEAN /\ failed' \in BOOLEAN /\ needs' \subseteq Headers
  BY <1>3, <1>4 DEF Ignore, TypeOK
<1> QED
  BY <1>1, <1>2, <1>5 DEF TypeOK, Tx

\* The closure of the helper keeps the types.
LEMMA HelperClosureType == TypeOK /\ HelperClosure => TypeOK'
<1> SUFFICES ASSUME TypeOK, HelperClosure PROVE TypeOK'
  OBVIOUS
<1>1. CASE Goto("endRequired")
  BY <1>1, OpGoto DEF Summary
<1>2. CASE ~Goto("endRequired")
  <2>1. tx' \in Tx
    BY MarkTx DEF TypeOK, Tx
  <2>2. /\ edits' = edits \cup HelperEdits /\ claims' = claims \cup HelperEdits
        /\ needs' \subseteq needs \cup {"compat"} /\ headers' \subseteq headers \cup {"compat"}
        /\ UNCHANGED <<input, plan, errors, failed, lexed, discovery>>
    BY <1>2 DEF HelperClosure
  <2>3. tx.calls \in SUBSET Spots /\ NeededBranches \in SUBSET Spots
    BY DEF TypeOK, NeededBranches
  <2>4. HelperEdits \subseteq [by : Authors, at : Spots]
    BY <2>3, EditsType DEF HelperEdits, Authors
  <2>5. HelperEdits \subseteq [by : Claiming, at : Spots]
    BY <2>3, EditsType DEF HelperEdits, Claiming
  <2> QED
    BY <2>1, <2>2, <2>4, <2>5 DEF TypeOK, Tx, Headers
<1> QED
  BY <1>1, <1>2

\* The aggregate proof keeps the types.
LEMMA AggregateProofType == TypeOK /\ AggregateProof => TypeOK'
<1> SUFFICES ASSUME TypeOK, AggregateProof PROVE TypeOK'
  OBVIOUS
<1>1. CASE Refuse("end", TRUE) \/ Goto("rawEnd")
  BY <1>1, OpRefuse, OpGoto DEF Summary
<1>2. CASE ~(Refuse("end", TRUE) \/ Goto("rawEnd"))
  <2>1. tx' \in Tx
    BY RequiredTx
  <2>2. PICK spots \in SUBSET Spots : plan' = [plan EXCEPT !["aggregate"] = spots]
    BY <1>2 DEF AggregateProof
  <2>3. plan' \in [Lowerings -> SUBSET Spots]
    BY <2>2 DEF TypeOK
  <2>4. UNCHANGED <<input, edits, claims, needs, headers, errors, failed, discovery, lexed>>
    BY <1>2 DEF AggregateProof
  <2> QED
    BY <2>1, <2>3, <2>4 DEF TypeOK, Tx
<1> QED
  BY <1>1, <1>2

\* Every step keeps the types.
LEMMA TypeNext == TypeOK /\ [Next]_vars => TypeOK'
<1> SUFFICES ASSUME TypeOK, [Next]_vars PROVE TypeOK'
  OBVIOUS
<1>1. CASE StageStep
  BY <1>1, StageSteps DEF Stage, Summary
<1>2. CASE BeginInvocation \/ EndSeals \/ EndAudits \/ RequireHelper
  BY <1>2, EdgeSteps DEF Summary
<1>3. CASE FinalizePacked
  BY <1>3, PackedStep DEF Summary
<1>4. CASE DeferToDiscovery
  BY <1>4 DEF DeferToDiscovery, TypeOK
<1>5. CASE ProveHelper
  <2>1. tx' \in Tx
    BY <1>5, ProveHelperTx
  <2>2. errors' \in BOOLEAN /\ failed' \in BOOLEAN
    BY <1>5 DEF ProveHelper, Goto, TypeOK
  <2> QED
    BY <1>5, <2>1, <2>2 DEF ProveHelper, Goto, TypeOK, Tx
<1>6. CASE TextureBoundary
  <2>1. tx' \in Tx
    BY <1>6, RequiredTx
  <2>2. errors' \in BOOLEAN /\ failed' \in BOOLEAN
    BY <1>6 DEF TextureBoundary, Refuse, TypeOK
  <2> QED
    BY <1>6, <2>1, <2>2 DEF TextureBoundary, Refuse, TypeOK, Tx
<1>7. CASE FinishLexing \/ RawAuditCompleted
  <2>1. tx' \in Tx
    BY <1>7, MarkTx
  <2> QED
    BY <1>7, <2>1 DEF FinishLexing, RawAuditCompleted, TypeOK, Tx
<1>8. CASE InsertHeaders
  <2>1. headers' \subseteq Headers /\ errors' \in BOOLEAN
    BY <1>8 DEF InsertHeaders, Goto, TypeOK
  <2> QED
    BY <1>8, <2>1 DEF InsertHeaders, Goto, TypeOK
<1>9. CASE Terminated \/ UNCHANGED vars
  BY <1>9 DEF Terminated, vars, TypeOK
<1> QED
  BY <1>1, <1>2, <1>3, <1>4, <1>5, <1>6, <1>7, <1>8, <1>9, RewriteTokenType,
     HelperClosureType, AggregateProofType
     DEF Next, ExecuteAction, EndSourceFileAction, StageStep

\* The state of an AscifyAction object keeps its types, however many spots the
\* file has and whatever the proofs answer.
THEOREM TypeCorrect == Spec => []TypeOK
BY TypeInit, TypeNext, PTL DEF Spec

-----------------------------------------------------------------------------
(* The helper goes only after a complete audit. *)

\* Nothing is lexed before the raw pass.
Fresh == pc \in BeforeLex => \A s \in Spots : lexed[s] = "unseen"

\* All is lexed after it; in particular whenever the chain was run to its end.
Swept == pc \in AfterLex \/ tx.rawDone => \A s \in Spots : lexed[s] # "unseen"

\* A residual use marks the transaction, for good.
Flagged == ~tx.unsupported => \A s \in Spots : lexed[s] # "residual"

\* A recorded call is no use in an inactive branch.
CallsActive == \A s \in tx.calls : lexed[s] # "inactive"

\* The transaction commits in its own stage and no earlier.
CommittedLate == tx.committed => pc \in AfterClosure

AuditInv == Fresh /\ Swept /\ Flagged /\ CallsActive /\ CommittedLate /\ ClosureAudited

\* A step that leaves the lexer's record and the transaction alone and moves
\* between the parts of the action in order keeps the invariant.
LEMMA AuditFrame ==
  ASSUME AuditInv, UNCHANGED <<lexed, tx>>,
         pc' \in BeforeLex => pc \in BeforeLex,
         pc' \in AfterLex => pc \in AfterLex,
         pc \in AfterClosure => pc' \in AfterClosure
  PROVE  AuditInv'
BY DEF AuditInv, Fresh, Swept, Flagged, CallsActive, CommittedLate, ClosureAudited

\* Initially nothing is lexed and nothing committed.
LEMMA AuditInit == Init => AuditInv
<1> SUFFICES ASSUME Init PROVE AuditInv
  OBVIOUS
<1>1. /\ \A s \in Spots : lexed[s] = "unseen"
      /\ ~tx.rawDone /\ ~tx.committed /\ tx.calls = {} /\ pc = "begin"
  BY DEF Init
<1> QED
  BY <1>1 DEF AuditInv, Fresh, Swept, Flagged, CallsActive, CommittedLate, ClosureAudited,
     AfterLex

\* Each token is audited before the raw pass goes on.
LEMMA AuditToken == TypeOK /\ AuditInv /\ RewriteToken => AuditInv'
<1> SUFFICES ASSUME TypeOK, AuditInv, RewriteToken PROVE AuditInv'
  OBVIOUS
<1>1. pc = "lex" /\ pc' = "lex"
  BY DEF RewriteToken
<1>2. PICK s \in Spots, audit \in {"clean", "inactive", "residual"} :
        /\ NextSpot(s)
        /\ s \in tx.calls => audit = "clean"
        /\ lexed' = [lexed EXCEPT ![s] = audit]
        /\ tx'.calls = tx.calls /\ tx'.rawDone = tx.rawDone /\ tx'.committed = tx.committed
        /\ tx'.unsupported = (tx.unsupported \/ audit = "residual")
  BY RewriteTokenTx
<1>3. \A r \in Spots : lexed'[r] = IF r = s THEN audit ELSE lexed[r]
  BY <1>2 DEF TypeOK
<1>4. ~tx.committed
  BY <1>1 DEF AuditInv, CommittedLate, AfterClosure
<1>5. ~tx.rawDone
  BY <1>2 DEF AuditInv, Swept, NextSpot
<1>6. Fresh' /\ Swept'
  BY <1>1, <1>2, <1>5 DEF Fresh, Swept, BeforeLex, AfterLex
<1>7. Flagged'
  BY <1>2, <1>3 DEF AuditInv, Flagged
<1>8. CallsActive'
  BY <1>2, <1>3 DEF AuditInv, CallsActive, TypeOK
<1>9. CommittedLate' /\ ClosureAudited'
  BY <1>2, <1>4 DEF CommittedLate, ClosureAudited
<1> QED
  BY <1>6, <1>7, <1>8, <1>9 DEF AuditInv

\* Every step keeps the invariant.
LEMMA AuditNext == TypeOK /\ AuditInv /\ [Next]_vars => AuditInv'
<1> SUFFICES ASSUME TypeOK, AuditInv, [Next]_vars PROVE AuditInv'
  OBVIOUS
<1>1. CASE StageStep
  <2>1. Stage
    BY <1>1, StageSteps
  <2>2. pc \notin AfterClosure
    BY <2>1 DEF Stage, BeforeLex, AfterLex, Closing, AfterClosure
  <2> QED
    BY <2>1, <2>2, AuditFrame DEF Stage, Summary
<1>2. CASE BeginInvocation \/ EndSeals \/ EndAudits \/ RequireHelper \/ FinalizePacked
  <2>1. /\ UNCHANGED <<lexed, tx>>
        /\ \/ pc = "begin"
           \/ pc \in {"end", "endAudits"} /\ pc' \in {"done", "endGuards", "endClosure"}
           \/ pc \in {"endRequired", "endPacked"} /\ pc' \in {"done", "endHeaders"}
        /\ pc = "begin" => pc' \in {"done", "parse"}
    BY <1>2, EdgeSteps, PackedStep DEF Summary
  <2> QED
    BY <2>1, AuditFrame DEF BeforeLex, AfterLex, AfterClosure
<1>3. CASE DeferToDiscovery
  BY <1>3, AuditFrame DEF DeferToDiscovery, BeforeLex, AfterLex, AfterClosure
<1>4. CASE InsertHeaders
  BY <1>4, AuditFrame DEF InsertHeaders, Goto, BeforeLex, AfterLex, AfterClosure
<1>5. CASE Terminated \/ UNCHANGED vars
  BY <1>5, AuditFrame DEF Terminated, vars
<1>6. CASE ProveHelper
  <2>1. /\ pc = "helper" /\ pc' = "bounds" /\ UNCHANGED lexed
        /\ tx'.calls \in SUBSET Spots
        /\ tx'.rawDone = tx.rawDone /\ tx'.committed = tx.committed
        /\ tx.unsupported => tx'.unsupported
    BY <1>6, ProveHelperTx DEF ProveHelper, Goto, Tx
  <2>2. \A s \in Spots : lexed[s] = "unseen"
    BY <2>1 DEF AuditInv, Fresh, BeforeLex
  <2>3. ~tx.committed
    BY <2>1 DEF AuditInv, CommittedLate, AfterClosure
  <2> QED
    BY <2>1, <2>2, <2>3 DEF AuditInv, Fresh, Swept, Flagged, CallsActive, CommittedLate,
       ClosureAudited, BeforeLex, AfterLex
<1>7. CASE TextureBoundary \/ AggregateProof
  <2>1. /\ UNCHANGED lexed /\ tx'.calls = tx.calls /\ tx'.rawDone = tx.rawDone
        /\ tx'.committed = tx.committed /\ tx'.unsupported = tx.unsupported
    BY <1>7, RequiredTx DEF TextureBoundary, AggregateProof, Refuse, Goto
  <2>2. \/ pc = "texture" /\ pc' \in {"end", "nttpCommit"}
        \/ pc = "aggregateProof" /\ pc' \in {"end", "rawEnd", "aggregateCommit"}
    BY <1>7 DEF TextureBoundary, AggregateProof, Refuse, Goto
  <2> QED
    BY <2>1, <2>2 DEF AuditInv, Fresh, Swept, Flagged, CallsActive, CommittedLate,
       ClosureAudited, BeforeLex, AfterLex, AfterClosure
<1>8. CASE FinishLexing
  <2>1. /\ pc = "lex" /\ pc' = "inline" /\ UNCHANGED lexed
        /\ \A s \in Spots : lexed[s] # "unseen"
    BY <1>8 DEF FinishLexing
  <2>2. /\ tx'.calls = tx.calls /\ tx'.committed = tx.committed
        /\ tx.unsupported => tx'.unsupported
    BY <1>8, MarkTx
  <2> QED
    BY <2>1, <2>2 DEF AuditInv, Fresh, Swept, Flagged, CallsActive, CommittedLate,
       ClosureAudited, BeforeLex, AfterLex, AfterClosure
<1>9. CASE RawAuditCompleted
  <2>1. pc = "rawEnd" /\ pc' = "end" /\ UNCHANGED lexed
    BY <1>9 DEF RawAuditCompleted
  <2>2. /\ tx'.calls = tx.calls /\ tx'.committed = tx.committed
        /\ tx'.unsupported = tx.unsupported
    BY <1>9, MarkTx
  <2> QED
    BY <2>1, <2>2 DEF AuditInv, Fresh, Swept, Flagged, CallsActive, CommittedLate,
       ClosureAudited, BeforeLex, AfterLex, AfterClosure
<1>10. CASE HelperClosure
  <2>1. pc = "endClosure" /\ pc' = "endRequired" /\ UNCHANGED lexed
    BY <1>10 DEF HelperClosure, Goto
  <2>2. CASE UNCHANGED tx
    BY <2>1, <2>2, AuditFrame DEF BeforeLex, AfterLex, AfterClosure
  <2>3. CASE ~UNCHANGED tx
    <3>1. /\ SafeToRemove /\ tx'.calls = tx.calls /\ tx'.rawDone = tx.rawDone
          /\ tx'.unsupported = tx.unsupported
      BY <1>10, <2>3, MarkTx
    <3>2. \A s \in Spots : lexed[s] \in {"clean", "inactive"}
      BY <3>1 DEF SafeToRemove, AuditInv, Swept, Flagged, TypeOK
    <3> QED
      BY <2>1, <3>1, <3>2 DEF AuditInv, Fresh, Swept, Flagged, CallsActive, CommittedLate,
         ClosureAudited, BeforeLex, AfterLex, AfterClosure
  <2> QED
    BY <2>2, <2>3
<1> QED
  BY <1>1, <1>2, <1>3, <1>4, <1>5, <1>6, <1>7, <1>8, <1>9, <1>10, AuditToken
     DEF Next, ExecuteAction, EndSourceFileAction, StageStep

\* The helper include is never removed from a file that the raw pass did not see
\* to its end without a residual use, however ExecuteAction returned.
THEOREM HelperRemovedOnlyAudited == Spec => []ClosureAudited
<1>1. AuditInv => ClosureAudited
  BY DEF AuditInv
<1> QED
  BY <1>1, TypeInit, TypeNext, AuditInit, AuditNext, PTL DEF Spec

-----------------------------------------------------------------------------
(* No text has two owners. *)

\* New claims that meet no other owner keep claims exclusive.
LEMMA ClaimsFrame ==
  ASSUME ClaimsExclusive, ClaimsStep
  PROVE  ClaimsExclusive'
BY DEF ClaimsExclusive, ClaimsStep

\* The raw pass claims a callee only where nobody has a claim.
LEMMA RewriteTokenClaims == TypeOK /\ RewriteToken => ClaimsStep
<1> SUFFICES ASSUME TypeOK, RewriteToken, ~UNCHANGED claims,
                    NEW c \in claims', NEW d \in claims', c \notin claims, c.at = d.at
             PROVE  c.by = d.by \/ {c.by, d.by} = {"helper", "callee"}
  BY DEF ClaimsStep
<1>1. PICK s \in Spots :
        /\ ~Overlaps("raw", s)
        /\ \/ RawEdit(s, "callee", {"compat"})
           \/ \E required \in SUBSET {"compat", "texture"} : RawEdit(s, "raw", required)
  BY DEF RewriteToken, Ignore
<1>2. claims' = claims \cup EditsOf("callee", {s})
  BY <1>1 DEF RawEdit, ClaimsOf, Claiming
<1>3. c.by = "callee" /\ c.at = s
  BY <1>2 DEF EditsOf
<1>4. d \notin claims
  BY <1>1, <1>3 DEF Overlaps
<1> QED
  BY <1>2, <1>3, <1>4 DEF EditsOf

\* The closure claims calls and inactive branches, which are apart.
LEMMA HelperClosureClaims == TypeOK /\ AuditInv /\ HelperClosure => ClaimsStep
<1> SUFFICES ASSUME TypeOK, AuditInv, HelperClosure, ~UNCHANGED claims,
                    NEW c \in claims', NEW d \in claims', c \notin claims, c.at = d.at
             PROVE  c.by = d.by \/ {c.by, d.by} = {"helper", "callee"}
  BY DEF ClaimsStep
<1>1. /\ claims' = claims \cup HelperEdits
      /\ \E calls \in StageOutcomes("helper", tx.calls) : calls
      /\ \E branches \in StageOutcomes("branch", NeededBranches) : branches
  BY DEF HelperClosure, Goto
<1>2. /\ \A s \in tx.calls : ~Overlaps("helper", s)
      /\ \A s \in NeededBranches : ~Overlaps("branch", s)
  BY <1>1, StageFits
<1>3. \A s \in tx.calls : s \notin NeededBranches
  BY DEF AuditInv, CallsActive, NeededBranches
<1>4. \/ c.by = "helper" /\ c.at \in tx.calls
      \/ c.by = "branch" /\ c.at \in NeededBranches
  BY <1>1 DEF HelperEdits, EditsOf
<1>5. CASE d \in claims
  BY <1>2, <1>4, <1>5 DEF Overlaps
<1>6. CASE d \notin claims
  <2>1. \/ d.by = "helper" /\ d.at \in tx.calls
        \/ d.by = "branch" /\ d.at \in NeededBranches
    BY <1>1, <1>6 DEF HelperEdits, EditsOf
  <2> QED
    BY <1>3, <1>4, <2>1
<1> QED
  BY <1>5, <1>6

\* Every step only claims text without another owner.
LEMMA ClaimsNext == TypeOK /\ AuditInv /\ [Next]_vars => ClaimsStep
<1> SUFFICES ASSUME TypeOK, AuditInv, [Next]_vars PROVE ClaimsStep
  OBVIOUS
<1>1. CASE StageStep
  BY <1>1, StageSteps DEF Stage, Summary
<1>2. CASE BeginInvocation \/ EndSeals \/ EndAudits \/ RequireHelper \/ FinalizePacked
  BY <1>2, EdgeSteps, PackedStep DEF Summary
<1>3. CASE \/ DeferToDiscovery \/ InsertHeaders \/ Terminated \/ UNCHANGED vars
           \/ ProveHelper \/ TextureBoundary \/ AggregateProof \/ FinishLexing
           \/ RawAuditCompleted
  <2>1. UNCHANGED claims
    BY <1>3 DEF DeferToDiscovery, InsertHeaders, Terminated, vars, ProveHelper,
       TextureBoundary, AggregateProof, FinishLexing, RawAuditCompleted, Refuse, Goto
  <2> QED
    BY <2>1 DEF ClaimsStep
<1> QED
  BY <1>1, <1>2, <1>3, RewriteTokenClaims, HelperClosureClaims
     DEF Next, ExecuteAction, EndSourceFileAction, StageStep

\* No text gets two semantic owners, however late a plan is committed after its
\* proof; only a certified callee may lie inside a helper call.
THEOREM OneOwner == Spec => []ClaimsExclusive
<1>1. Init => ClaimsExclusive
  BY DEF Init, ClaimsExclusive
<1>2. TypeOK /\ AuditInv /\ ClaimsExclusive /\ [Next]_vars => ClaimsExclusive'
  BY ClaimsNext, ClaimsFrame
<1> QED
  BY <1>1, <1>2, TypeInit, TypeNext, AuditInit, AuditNext, PTL DEF Spec

-----------------------------------------------------------------------------
(* A discovery parse edits nothing. *)

\* After the edits were dropped only the early return of EndSourceFileAction
\* is left.
DiscoveryInv == discovery => edits = {} /\ pc \in {"end", "done"}

\* Every step keeps it.
LEMMA DiscoveryNext == TypeOK /\ DiscoveryInv /\ [Next]_vars => DiscoveryInv'
<1> SUFFICES ASSUME TypeOK, DiscoveryInv, [Next]_vars PROVE DiscoveryInv'
  OBVIOUS
<1>1. CASE StageStep
  <2>1. UNCHANGED discovery /\ pc \notin {"end", "done"}
    BY <1>1, StageSteps DEF Stage, Summary, BeforeLex, AfterLex, Closing
  <2> QED
    BY <2>1 DEF DiscoveryInv
<1>2. CASE BeginInvocation \/ EndAudits \/ RequireHelper \/ FinalizePacked
  <2>1. UNCHANGED discovery /\ pc \notin {"end", "done"}
    BY <1>2, EdgeSteps, PackedStep DEF Summary
  <2> QED
    BY <2>1 DEF DiscoveryInv
<1>3. CASE EndSeals
  BY <1>3, EdgeSteps DEF Summary, DiscoveryInv
<1>4. CASE DeferToDiscovery
  BY <1>4 DEF DeferToDiscovery, DiscoveryInv
<1>5. CASE \/ ProveHelper \/ TextureBoundary \/ RewriteToken \/ FinishLexing
           \/ AggregateProof \/ RawAuditCompleted \/ HelperClosure \/ InsertHeaders
  <2>1. UNCHANGED discovery
    BY <1>5 DEF ProveHelper, TextureBoundary, RewriteToken, FinishLexing, AggregateProof,
       RawAuditCompleted, HelperClosure, InsertHeaders, Refuse, Goto
  <2>2. pc \notin {"end", "done"}
    BY <1>5 DEF ProveHelper, TextureBoundary, RewriteToken, FinishLexing, AggregateProof,
       RawAuditCompleted, HelperClosure, InsertHeaders
  <2> QED
    BY <2>1, <2>2 DEF DiscoveryInv
<1>6. CASE Terminated \/ UNCHANGED vars
  BY <1>6 DEF Terminated, vars, DiscoveryInv
<1> QED
  BY <1>1, <1>2, <1>3, <1>4, <1>5, <1>6
     DEF Next, ExecuteAction, EndSourceFileAction, StageStep

\* Whatever EndSourceFileAction does after a discovery parse, the driver gets no
\* edit from it.
THEOREM DiscoveryIsEvidenceOnly == Spec => []DiscoveryEditsNothing
<1>1. Init => DiscoveryInv
  BY DEF Init, DiscoveryInv
<1>2. DiscoveryInv => DiscoveryEditsNothing
  BY DEF DiscoveryInv, DiscoveryEditsNothing
<1> QED
  BY <1>1, <1>2, TypeInit, TypeNext, DiscoveryNext, PTL DEF Spec

-----------------------------------------------------------------------------
(* Conditional admissions are settled. *)

\* A boundary failure was reported, and past its check nothing is owed to the
\* helper transaction.
SettleInv ==
  /\ failed => errors
  /\ pc \in {"endHeaders", "endPacked"} => ~HelperOwed
  /\ pc = "done" => errors \/ discovery \/ ~HelperOwed

\* What is owed depends on the transaction, the needs and the input alone.
LEMMA OwedFrame ==
  ASSUME UNCHANGED <<tx, needs, input>>
  PROVE  HelperOwed' <=> HelperOwed
BY DEF HelperOwed

\* Every step keeps it.
LEMMA SettleNext == TypeOK /\ SettleInv /\ [Next]_vars => SettleInv'
<1> SUFFICES ASSUME TypeOK, SettleInv, [Next]_vars PROVE SettleInv'
  OBVIOUS
<1>1. CASE StageStep
  <2>1. Stage
    BY <1>1, StageSteps
  <2>2. pc' \notin {"endHeaders", "endPacked", "done"}
    BY <2>1 DEF Stage, AfterClosure
  <2> QED
    BY <2>1, <2>2 DEF Stage, Summary, SettleInv
<1>2. CASE BeginInvocation \/ EndSeals \/ EndAudits
  <2>1. /\ Summary /\ pc' \notin {"endHeaders", "endPacked"}
        /\ pc' = "done" => errors' \/ failed \/ discovery
    BY <1>2, EdgeSteps
  <2> QED
    BY <2>1 DEF Summary, SettleInv
<1>3. CASE RequireHelper
  <2>1. /\ Summary /\ UNCHANGED needs
        /\ IF HelperOwed THEN pc' = "done" /\ errors' ELSE pc' = "endHeaders"
    BY <1>3, EdgeSteps
  <2>2. HelperOwed' <=> HelperOwed
    BY <2>1, OwedFrame DEF Summary
  <2> QED
    BY <2>1, <2>2 DEF Summary, SettleInv
<1>4. CASE FinalizePacked
  <2>1. Summary /\ pc = "endPacked" /\ pc' = "done" /\ UNCHANGED needs
    BY <1>4, PackedStep
  <2>2. HelperOwed' <=> HelperOwed
    BY <2>1, OwedFrame DEF Summary
  <2> QED
    BY <2>1, <2>2 DEF Summary, SettleInv
<1>5. CASE InsertHeaders
  <2>1. pc = "endHeaders" /\ pc' = "endPacked" /\ UNCHANGED <<tx, needs, input, failed>>
    BY <1>5 DEF InsertHeaders, Goto
  <2>2. errors => errors'
    BY <1>5 DEF InsertHeaders, Goto
  <2>3. HelperOwed' <=> HelperOwed
    BY <2>1, OwedFrame
  <2> QED
    BY <2>1, <2>2, <2>3 DEF SettleInv
<1>6. CASE RewriteToken
  <2>1. pc' = "lex"
    BY <1>6 DEF RewriteToken
  <2>2. failed' => failed \/ errors'
    BY <1>6 DEF RewriteToken, Ignore, RawEdit
  <2>3. errors => errors'
    BY <1>6 DEF RewriteToken, Ignore, RawEdit
  <2> QED
    BY <2>1, <2>2, <2>3 DEF SettleInv
<1>7. CASE \/ DeferToDiscovery \/ ProveHelper \/ TextureBoundary \/ FinishLexing
           \/ AggregateProof \/ RawAuditCompleted \/ HelperClosure
  <2>1. pc' \notin {"endHeaders", "endPacked", "done"}
    BY <1>7 DEF DeferToDiscovery, ProveHelper, TextureBoundary, FinishLexing,
       AggregateProof, RawAuditCompleted, HelperClosure, Refuse, Goto
  <2>2. (failed' => failed \/ errors') /\ (errors => errors')
    BY <1>7 DEF DeferToDiscovery, ProveHelper, TextureBoundary, FinishLexing,
       AggregateProof, RawAuditCompleted, HelperClosure, Refuse, Goto
  <2> QED
    BY <2>1, <2>2 DEF SettleInv
<1>8. CASE Terminated \/ UNCHANGED vars
  <2>1. HelperOwed' <=> HelperOwed
    BY <1>8, OwedFrame DEF Terminated, vars
  <2>2. UNCHANGED <<pc, errors, failed, discovery>>
    BY <1>8 DEF Terminated, vars
  <2> QED
    BY <2>1, <2>2 DEF SettleInv
<1> QED
  BY <1>1, <1>2, <1>3, <1>4, <1>5, <1>6, <1>7, <1>8
     DEF Next, ExecuteAction, EndSourceFileAction, StageStep

\* Output that keeps the helper include is published only if no texture call, no
\* aggregate diagnostic, no dynamic group and no caller relied on its removal.
THEOREM HelperDebtSettled == Spec => []HelperKeptOnlyIfFree
<1>1. Init => SettleInv
  BY DEF Init, SettleInv
<1>2. SettleInv => HelperKeptOnlyIfFree
  BY DEF SettleInv, HelperKeptOnlyIfFree, Published, HelperOwed
<1> QED
  BY <1>1, <1>2, TypeInit, TypeNext, SettleNext, PTL DEF Spec

-----------------------------------------------------------------------------
(* Nothing is published in part. *)

\* The labels in the order of the stages.
Rank(label) ==
  CASE label = "begin" -> 0 [] label = "parse" -> 1 [] label = "seal" -> 2
    [] label = "discover" -> 3 [] label = "scalar64Proof" -> 4 [] label = "groups" -> 5
    [] label = "fullwarpProof" -> 6 [] label = "fullwarpCommit" -> 7
    [] label = "nttpProof" -> 8 [] label = "shared" -> 9 [] label = "swapProof" -> 10
    [] label = "records" -> 11 [] label = "scalar64Commit" -> 12
    [] label = "vec3Proof" -> 13 [] label = "vec3Commit" -> 14
    [] label = "uniformProof" -> 15 [] label = "uniformCommit" -> 16
    [] label = "helper" -> 17 [] label = "bounds" -> 18 [] label = "tailsProof" -> 19
    [] label = "tailsCommit" -> 20 [] label = "texture" -> 21 [] label = "nttpCommit" -> 22
    [] label = "swapCommit" -> 23 [] label = "recipeProof" -> 24
    [] label = "recipeCommit" -> 25 [] label = "lex" -> 26 [] label = "inline" -> 27
    [] label = "inlineCommit" -> 28 [] label = "aggregateProof" -> 29
    [] label = "aggregateCommit" -> 30 [] label = "rawEnd" -> 31 [] label = "end" -> 32
    [] label = "endGuards" -> 33 [] label = "endAudits" -> 34 [] label = "endClosure" -> 35
    [] label = "endRequired" -> 36 [] label = "endHeaders" -> 37
    [] label = "endPacked" -> 38 [] label = "done" -> 39

\* The rank of the stage that plans a lowering, and of the one that commits it.
PlanRank(l) ==
  CASE l \in {"guards", "texture", "packed"} -> 1 [] l = "scalar64" -> 4
    [] l = "fullwarp" -> 6 [] l = "nttp" -> 8 [] l = "swap" -> 10 [] l = "vec3" -> 13
    [] l = "uniform" -> 15 [] l = "bounds" -> 18 [] l = "tails" -> 19
    [] l = "recipe" -> 24 [] l = "inline" -> 27 [] l = "aggregate" -> 29
CommitRank(l) ==
  CASE l = "fullwarp" -> 7 [] l = "scalar64" -> 12 [] l = "vec3" -> 14 [] l = "uniform" -> 16
    [] l = "tails" -> 20 [] l = "nttp" -> 22 [] l = "swap" -> 23 [] l = "recipe" -> 25
    [] l = "inline" -> 28 [] l = "aggregate" -> 30 [] l = "guards" -> 33
    [] l = "packed" -> 38

Optional == {"guards", "inline"}
Mandatory == Lowerings \ (Optional \cup {"bounds", "texture"})

\* A stage that was passed has left its whole plan in the edits.
Kept ==
  ~errors /\ ~discovery =>
    \A l \in Mandatory : Rank(pc) > CommitRank(l) => EditsOf(l, plan[l]) \subseteq edits

\* A stage that is still ahead has no plan.
Unplanned == \A l \in Lowerings : Rank(pc) <= PlanRank(l) => plan[l] = {}

\* An optional rewrite is all there or not at all.
AllOrNone ==
  \A l \in Optional :
    \/ \A e \in edits : e.by # l
    \/ Rank(pc) > CommitRank(l) /\ EditsOf(l, plan[l]) \subseteq edits

\* The edits of the helper transaction are there when it is committed.
HelperThere ==
  ~discovery =>
    {e \in edits : e.by \in {"helper", "branch"}} = IF tx.committed THEN HelperEdits ELSE {}

\* What text relies on is needed, and past the insertion it is included.
CompatNeeded == \A e \in edits : e.by \in UsesCompat => "compat" \in needs
HeadersIn == pc \in {"endPacked", "done"} /\ ~errors /\ ~discovery => needs \subseteq headers

\* The raw pass came to its end unless an error was reported.
RawDone == Rank(pc) > Rank("rawEnd") /\ ~errors /\ ~discovery => tx.rawDone

\* Text the raw pass edited was seen by it and is claimed by the helper only.
RawApart ==
  \A e \in edits :
    e.by = "raw" =>
      /\ lexed[e.at] # "unseen"
      /\ \A c \in claims : c.at = e.at => c.by \in {"helper", "branch"}

\* A helper that is ready to be replaced by compat calls does not collide with
\* them, and past the collision check nothing does.
NoConflict == input.conflict = "none" \/ (input.conflict = "name" /\ input.compat = "before")
ReadyFits ==
  /\ input.conflict = "include" => tx.unsupported
  /\ tx.ready /\ ~tx.unsupported /\ tx.calls # {} => NoConflict
Collides ==
  /\ pc \in {"endClosure", "endRequired", "endHeaders", "endPacked"} \/ Published =>
       ("compat" \in needs => NoConflict)

WholeInv ==
  /\ Kept /\ Unplanned /\ AllOrNone /\ HelperThere /\ CompatNeeded /\ HeadersIn
  /\ RawDone /\ RawApart

\* The lowerings that are committed.
Committed == Mandatory \cup Optional

\* Going from this label to the next one passes the stage that commits l.
Passing(l) == Rank(pc) <= CommitRank(l) /\ CommitRank(l) < Rank(pc')

\* The next label is no earlier one.
Onward == Rank(pc) \in 0..39 /\ Rank(pc') \in 0..39 /\ Rank(pc) <= Rank(pc')

\* The end of the chain is only passed with the raw pass done.
Through == Rank(pc) <= 31 /\ Rank(pc') > 31 => tx'.rawDone

\* It passes no commit, or only such that leave their plans in the edits.
PassesNone == Through /\ \A l \in Mandatory : ~Passing(l)
PassesKept == Through /\ \A l \in Mandatory : Passing(l) => EditsOf(l, plan'[l]) \subseteq edits'

\* What a step may do to plans and edits.
Advance ==
  /\ edits \subseteq edits' /\ needs \subseteq needs' /\ (errors => errors')
  /\ Onward
  /\ \A l \in Lowerings : plan'[l] # plan[l] => Rank(pc) = PlanRank(l) /\ Rank(pc) < Rank(pc')
  /\ \A e \in edits' \ edits :
       /\ e.by \in Lowerings => Rank(pc) = CommitRank(e.by)
       /\ e.by \in {"helper", "branch"} => pc = "endClosure"
       /\ e.by = "raw" => pc = "lex"
       /\ e.by \in UsesCompat => "compat" \in needs'
  /\ \A l \in Optional :
       Rank(pc) = CommitRank(l) =>
         \/ UNCHANGED edits
         \/ EditsOf(l, plan'[l]) \subseteq edits' /\ Rank(pc) < Rank(pc')
  /\ \A c \in claims' \ claims :
       \/ pc \in BeforeLex \cup {"lex"} \/ c.by \in {"helper", "branch"}
       \/ \A e \in edits : e.by = "raw" => e.at # c.at
  /\ errors' \/ discovery' \/ PassesKept

\* Every lowering is committed by a stage of its own, after it was planned.
LEMMA CommitRanks ==
  /\ \A l \in Committed : CommitRank(l) \in {7, 12, 14, 16, 20, 22, 23, 25, 28, 30, 33, 38}
  /\ \A l, m \in Committed : CommitRank(l) = CommitRank(m) => l = m
  /\ \A l \in Lowerings : PlanRank(l) \in {1, 4, 6, 8, 10, 13, 15, 18, 19, 24, 27, 29}
  /\ \A l \in Committed : PlanRank(l) < CommitRank(l)
<1>1. \A l \in Committed : CommitRank(l) \in {7, 12, 14, 16, 20, 22, 23, 25, 28, 30, 33, 38}
  BY DEF Committed, Mandatory, Optional, Lowerings, CommitRank
<1>2. \A l, m \in Committed : CommitRank(l) = CommitRank(m) => l = m
  BY DEF Committed, Mandatory, Optional, Lowerings, CommitRank
<1>3. \A l \in Lowerings : PlanRank(l) \in {1, 4, 6, 8, 10, 13, 15, 18, 19, 24, 27, 29}
  BY DEF Lowerings, PlanRank
<1>4. \A l \in Committed : PlanRank(l) < CommitRank(l)
  BY DEF Committed, Mandatory, Optional, Lowerings, PlanRank, CommitRank
<1> QED
  BY <1>1, <1>2, <1>3, <1>4

\* A step that passes no commit passes none with its plan missing.
LEMMA NoneKept == PassesNone => PassesKept
BY DEF PassesNone, PassesKept

\* A step that edits and plans nothing.
LEMMA AdvanceStill ==
  ASSUME UNCHANGED <<plan, edits, claims>>, needs \subseteq needs', errors => errors',
         Onward,
         errors' \/ discovery' \/ PassesNone
  PROVE  Advance
BY NoneKept DEF Advance

\* A label after which the next one follows, and where this one commits nothing
\* passes no lowering.
LEMMA PassNothing ==
  ASSUME NEW n \in 0..30, Rank(pc) = n, Rank(pc') = n + 1, \A l \in Committed : CommitRank(l) # n
  PROVE  PassesNone
BY CommitRanks DEF Passing, PassesNone, PassesKept, Through, Committed

\* A gate or a proof stage.
LEMMA AdvanceProve ==
  ASSUME TypeOK, NEW n \in 0..30, NEW next, NEW lowering \in Lowerings,
         NEW marks \in BOOLEAN, NEW required \in SUBSET Headers,
         Rank(pc) = n, Rank(next) = n + 1,
         n \notin {7, 12, 14, 16, 20, 22, 23, 25, 28, 30},
         \/ Refuse("end", marks) \/ Goto(next) \/ Need(required, next)
         \/ Plan(lowering, required, next) /\ PlanRank(lowering) = n
  PROVE  Advance
<1>1. \A l \in Committed : CommitRank(l) # n
  BY CommitRanks
<1>2. CASE Refuse("end", marks)
  <2>1. UNCHANGED <<plan, edits, claims, needs>> /\ errors' /\ pc' = "end"
    BY <1>2 DEF Refuse
  <2>2. Rank("end") = 32
    BY DEF Rank
  <2>3. needs \subseteq needs' /\ Onward
    BY <2>1, <2>2 DEF Onward
  <2> QED
    BY <2>1, <2>3, AdvanceStill
<1>3. CASE Goto(next) \/ Need(required, next)
  <2>1. PassesNone
    BY <1>1, <1>3, PassNothing DEF Goto, Need, PassesNone, PassesKept, Through
  <2> QED
    <3>1. Onward
      BY <1>3 DEF Goto, Need, Onward
    <3> QED
      BY <1>3, <2>1, <3>1, AdvanceStill DEF Goto, Need
<1>4. CASE Plan(lowering, required, next) /\ PlanRank(lowering) = n
  <2>1. PICK spots \in SUBSET Spots : plan' = [plan EXCEPT ![lowering] = spots]
    BY <1>4 DEF Plan
  <2>2. \A l \in Lowerings : plan'[l] # plan[l] => l = lowering
    BY <2>1 DEF TypeOK
  <2>3. PassesNone
    BY <1>1, <1>4, PassNothing DEF Plan, PassesNone, PassesKept, Through
  <2> QED
    <3>1. Onward /\ Rank(pc) < Rank(pc')
      BY <1>4 DEF Plan, Onward
    <3>2. \A l \in Optional : Rank(pc) # CommitRank(l)
      BY <1>1 DEF Committed
    <3> QED
      BY <1>4, <2>2, <2>3, <3>1, <3>2, NoneKept DEF Plan, Advance
<1> QED
  BY <1>2, <1>3, <1>4

\* A staged transaction commits its plan or reports an error.
LEMMA AdvanceTransact ==
  ASSUME TypeOK, NEW n \in 0..30, NEW next, NEW lowering \in Mandatory,
         NEW marks \in BOOLEAN, NEW required \in SUBSET Headers,
         Rank(pc) = n, Rank(next) = n + 1, CommitRank(lowering) = n,
         lowering \in UsesCompat => "compat" \in required,
         pc \in BeforeLex \/ lowering \notin Claiming,
         Transact(lowering, required, next, marks)
  PROVE  Advance
<1>1. \A l \in Committed : CommitRank(l) = n => l = lowering
  BY CommitRanks DEF Committed
<1>2. lowering \in Lowerings /\ lowering \notin {"helper", "branch", "raw"} \cup Optional
  BY DEF Mandatory, Lowerings, Optional
<1>3. CASE Refuse("end", marks)
  <2>1. Rank("end") = 32
    BY DEF Rank
  <2> QED
    <3>1. Onward
      BY <1>3, <2>1 DEF Refuse, Onward
    <3> QED
      BY <1>3, <3>1, AdvanceStill DEF Refuse
<1>4. CASE plan[lowering] = {} /\ Goto(next)
  <2>1. PassesKept
    BY <1>1, <1>4, CommitRanks
       DEF Goto, EditsOf, Passing, Committed, PassesNone, PassesKept, Through
  <2> QED
    <3>1. Onward
      BY <1>4 DEF Goto, Onward
    <3> QED
      BY <1>4, <2>1, <3>1 DEF Goto, Advance
<1>5. CASE Commit(lowering, plan[lowering], required, next)
  <2>1. PassesKept
    BY <1>1, <1>5, CommitRanks DEF Commit, Passing, Committed, PassesNone, PassesKept, Through
  <2>2. \A e \in edits' \ edits : e.by = lowering
    BY <1>5 DEF Commit, EditsOf
  <2>3. \A l \in Optional : Rank(pc) # CommitRank(l)
    BY <1>1, <1>2 DEF Committed
  <2>4. lowering \notin Claiming => UNCHANGED claims
    BY <1>5 DEF Commit, ClaimsOf
  <2>5. needs \subseteq needs' /\ required \subseteq needs'
    BY <1>5 DEF Commit
  <2> QED
    <3>1. Onward
      BY <1>5 DEF Commit, Onward
    <3>2. edits \subseteq edits' /\ UNCHANGED <<plan, errors>>
      BY <1>5 DEF Commit
    <3> QED
      BY <1>2, <2>1, <2>2, <2>3, <2>4, <2>5, <3>1, <3>2 DEF Advance
<1> QED
  BY <1>3, <1>4, <1>5 DEF Transact

\* The ranks, one by one.
LEMMA Ranks ==
  /\ Rank("begin") = 0 /\ Rank("parse") = 1 /\ Rank("seal") = 2 /\ Rank("discover") = 3
  /\ Rank("scalar64Proof") = 4 /\ Rank("groups") = 5
  /\ Rank("fullwarpProof") = 6 /\ Rank("fullwarpCommit") = 7
  /\ Rank("nttpProof") = 8 /\ Rank("shared") = 9 /\ Rank("swapProof") = 10 /\ Rank("records") = 11
  /\ Rank("scalar64Commit") = 12 /\ Rank("vec3Proof") = 13
  /\ Rank("vec3Commit") = 14 /\ Rank("uniformProof") = 15
  /\ Rank("uniformCommit") = 16 /\ Rank("helper") = 17
  /\ Rank("bounds") = 18 /\ Rank("tailsProof") = 19
  /\ Rank("tailsCommit") = 20 /\ Rank("texture") = 21
  /\ Rank("nttpCommit") = 22 /\ Rank("swapCommit") = 23
  /\ Rank("recipeProof") = 24 /\ Rank("recipeCommit") = 25
  /\ Rank("lex") = 26 /\ Rank("inline") = 27
  /\ Rank("inlineCommit") = 28 /\ Rank("aggregateProof") = 29
  /\ Rank("aggregateCommit") = 30 /\ Rank("rawEnd") = 31
  /\ Rank("end") = 32 /\ Rank("endGuards") = 33 /\ Rank("endAudits") = 34 /\ Rank("endClosure") = 35
  /\ Rank("endRequired") = 36 /\ Rank("endHeaders") = 37
  /\ Rank("endPacked") = 38 /\ Rank("done") = 39
BY DEF Rank

\* The stages that only refuse, go on, plan or commit their own lowering.
LEMMA StagesAdvance ==
  ASSUME TypeOK, StageStep,
         ~SemanticRewrite, ~RecipeCommit, ~InliningCommit, ~FinalizeGuards
  PROVE  Advance
<1>1. CASE SealParse
  <2>1. /\ pc = "seal"
        /\ \E marks \in BOOLEAN, required \in SUBSET Headers :
             \/ Refuse("end", marks) \/ Goto("discover") \/ Need(required, "discover")
             \/ Plan("guards", required, "discover") /\ PlanRank("guards") = 2
    BY <1>1 DEF SealParse, Gate, Prove, PlanRank, Headers
  <2>2. Rank(pc) = 2 /\ Rank("discover") = 2 + 1
    BY <2>1, Ranks
  <2>3. "guards" \in Lowerings
    BY DEF Lowerings
  <2> QED
    BY <2>1, <2>2, <2>3, AdvanceProve
<1>2. CASE AuditRuntimeSurface
  <2>1. /\ pc = "discover"
        /\ \E marks \in BOOLEAN, required \in SUBSET Headers :
             \/ Refuse("end", marks) \/ Goto("scalar64Proof") \/ Need(required, "scalar64Proof")
             \/ Plan("guards", required, "scalar64Proof") /\ PlanRank("guards") = 3
    BY <1>2 DEF AuditRuntimeSurface, Gate, Prove, PlanRank, Headers
  <2>2. Rank(pc) = 3 /\ Rank("scalar64Proof") = 3 + 1
    BY <2>1, Ranks
  <2>3. "guards" \in Lowerings
    BY DEF Lowerings
  <2> QED
    BY <2>1, <2>2, <2>3, AdvanceProve
<1>3. CASE AuditRecords
  <2>1. /\ pc = "records"
        /\ \E marks \in BOOLEAN, required \in SUBSET Headers :
             \/ Refuse("end", marks) \/ Goto("scalar64Commit") \/ Need(required, "scalar64Commit")
             \/ Plan("guards", required, "scalar64Commit") /\ PlanRank("guards") = 11
    BY <1>3 DEF AuditRecords, Gate, Prove, PlanRank, Headers
  <2>2. Rank(pc) = 11 /\ Rank("scalar64Commit") = 11 + 1
    BY <2>1, Ranks
  <2>3. "guards" \in Lowerings
    BY DEF Lowerings
  <2> QED
    BY <2>1, <2>2, <2>3, AdvanceProve
<1>4. CASE Scalar64Proof
  <2>1. /\ pc = "scalar64Proof"
        /\ \E marks \in BOOLEAN, required \in SUBSET Headers :
             \/ Refuse("end", marks) \/ Goto("groups") \/ Need(required, "groups")
             \/ Plan("scalar64", required, "groups") /\ PlanRank("scalar64") = 4
    BY <1>4 DEF Scalar64Proof, Gate, Prove, PlanRank, Headers
  <2>2. Rank(pc) = 4 /\ Rank("groups") = 4 + 1
    BY <2>1, Ranks
  <2>3. "scalar64" \in Lowerings
    BY DEF Lowerings
  <2> QED
    BY <2>1, <2>2, <2>3, AdvanceProve
<1>5. CASE FullWarpProof
  <2>1. /\ pc = "fullwarpProof"
        /\ \E marks \in BOOLEAN, required \in SUBSET Headers :
             \/ Refuse("end", marks) \/ Goto("fullwarpCommit") \/ Need(required, "fullwarpCommit")
             \/ Plan("fullwarp", required, "fullwarpCommit") /\ PlanRank("fullwarp") = 6
    BY <1>5 DEF FullWarpProof, Gate, Prove, PlanRank, Headers
  <2>2. Rank(pc) = 6 /\ Rank("fullwarpCommit") = 6 + 1
    BY <2>1, Ranks
  <2>3. "fullwarp" \in Lowerings
    BY DEF Lowerings
  <2> QED
    BY <2>1, <2>2, <2>3, AdvanceProve
<1>6. CASE NttpProof
  <2>1. /\ pc = "nttpProof"
        /\ \E marks \in BOOLEAN, required \in SUBSET Headers :
             \/ Refuse("end", marks) \/ Goto("shared") \/ Need(required, "shared")
             \/ Plan("nttp", required, "shared") /\ PlanRank("nttp") = 8
    BY <1>6 DEF NttpProof, Gate, Prove, PlanRank, Headers
  <2>2. Rank(pc) = 8 /\ Rank("shared") = 8 + 1
    BY <2>1, Ranks
  <2>3. "nttp" \in Lowerings
    BY DEF Lowerings
  <2> QED
    BY <2>1, <2>2, <2>3, AdvanceProve
<1>7. CASE HostPointerSwapProof
  <2>1. /\ pc = "swapProof"
        /\ \E marks \in BOOLEAN, required \in SUBSET Headers :
             \/ Refuse("end", marks) \/ Goto("records") \/ Need(required, "records")
             \/ Plan("swap", required, "records") /\ PlanRank("swap") = 10
    BY <1>7 DEF HostPointerSwapProof, Gate, Prove, PlanRank, Headers
  <2>2. Rank(pc) = 10 /\ Rank("records") = 10 + 1
    BY <2>1, Ranks
  <2>3. "swap" \in Lowerings
    BY DEF Lowerings
  <2> QED
    BY <2>1, <2>2, <2>3, AdvanceProve
<1>8. CASE Vec3Proof
  <2>1. /\ pc = "vec3Proof"
        /\ \E marks \in BOOLEAN, required \in SUBSET Headers :
             \/ Refuse("end", marks) \/ Goto("vec3Commit") \/ Need(required, "vec3Commit")
             \/ Plan("vec3", required, "vec3Commit") /\ PlanRank("vec3") = 13
    BY <1>8 DEF Vec3Proof, Gate, Prove, PlanRank, Headers
  <2>2. Rank(pc) = 13 /\ Rank("vec3Commit") = 13 + 1
    BY <2>1, Ranks
  <2>3. "vec3" \in Lowerings
    BY DEF Lowerings
  <2> QED
    BY <2>1, <2>2, <2>3, AdvanceProve
<1>9. CASE UniformProof
  <2>1. /\ pc = "uniformProof"
        /\ \E marks \in BOOLEAN, required \in SUBSET Headers :
             \/ Refuse("end", marks) \/ Goto("uniformCommit") \/ Need(required, "uniformCommit")
             \/ Plan("uniform", required, "uniformCommit") /\ PlanRank("uniform") = 15
    BY <1>9 DEF UniformProof, Gate, Prove, PlanRank, Headers
  <2>2. Rank(pc) = 15 /\ Rank("uniformCommit") = 15 + 1
    BY <2>1, Ranks
  <2>3. "uniform" \in Lowerings
    BY DEF Lowerings
  <2> QED
    BY <2>1, <2>2, <2>3, AdvanceProve
<1>10. CASE RecipeProof
  <2>1. /\ pc = "recipeProof"
        /\ \E marks \in BOOLEAN, required \in SUBSET Headers :
             \/ Refuse("end", marks) \/ Goto("recipeCommit") \/ Need(required, "recipeCommit")
             \/ Plan("recipe", required, "recipeCommit") /\ PlanRank("recipe") = 24
    BY <1>10 DEF RecipeProof, Gate, Prove, PlanRank, Headers
  <2>2. Rank(pc) = 24 /\ Rank("recipeCommit") = 24 + 1
    BY <2>1, Ranks
  <2>3. "recipe" \in Lowerings
    BY DEF Lowerings
  <2> QED
    BY <2>1, <2>2, <2>3, AdvanceProve
<1>11. CASE AbiTailProof
  <2>1. /\ pc = "tailsProof"
        /\ \E marks \in BOOLEAN, required \in SUBSET Headers :
             \/ Refuse("end", marks) \/ Goto("tailsCommit") \/ Need(required, "tailsCommit")
             \/ Plan("tails", required, "tailsCommit") /\ PlanRank("tails") = 19
    BY <1>11 DEF AbiTailProof, Gate, Prove, PlanRank, Headers
  <2>2. Rank(pc) = 19 /\ Rank("tailsCommit") = 19 + 1
    BY <2>1, Ranks
  <2>3. "tails" \in Lowerings
    BY DEF Lowerings
  <2> QED
    BY <2>1, <2>2, <2>3, AdvanceProve
<1>12. CASE DynamicWarpGroups
  <2>1. /\ pc = "groups"
        /\ \E marks \in BOOLEAN, required \in SUBSET Headers :
             \/ Refuse("end", marks) \/ Goto("fullwarpProof") \/ Need(required, "fullwarpProof")
             \/ Plan("guards", required, "fullwarpProof") /\ PlanRank("guards") = 5
    BY <1>12 DEF DynamicWarpGroups, Gate, Prove, PlanRank, Headers
  <2>2. Rank(pc) = 5 /\ Rank("fullwarpProof") = 5 + 1
    BY <2>1, Ranks
  <2>3. "guards" \in Lowerings
    BY DEF Lowerings
  <2> QED
    BY <2>1, <2>2, <2>3, AdvanceProve
<1>13. CASE SharedWordAlignment
  <2>1. /\ pc = "shared"
        /\ \E marks \in BOOLEAN, required \in SUBSET Headers :
             \/ Refuse("end", marks) \/ Goto("swapProof") \/ Need(required, "swapProof")
             \/ Plan("guards", required, "swapProof") /\ PlanRank("guards") = 9
    BY <1>13 DEF SharedWordAlignment, Gate, Prove, PlanRank, Headers
  <2>2. Rank(pc) = 9 /\ Rank("swapProof") = 9 + 1
    BY <2>1, Ranks
  <2>3. "guards" \in Lowerings
    BY DEF Lowerings
  <2> QED
    BY <2>1, <2>2, <2>3, AdvanceProve
<1>14. CASE KernelBounds
  <2>1. /\ pc = "bounds"
        /\ \E marks \in BOOLEAN, required \in SUBSET Headers :
             \/ Refuse("end", marks) \/ Goto("tailsProof") \/ Need(required, "tailsProof")
             \/ Plan("bounds", required, "tailsProof") /\ PlanRank("bounds") = 18
    BY <1>14 DEF KernelBounds, Gate, Prove, PlanRank, Headers
  <2>2. Rank(pc) = 18 /\ Rank("tailsProof") = 18 + 1
    BY <2>1, Ranks
  <2>3. "bounds" \in Lowerings
    BY DEF Lowerings
  <2> QED
    BY <2>1, <2>2, <2>3, AdvanceProve
<1>15. CASE FullWarpCommit
  <2>1. /\ pc = "fullwarpCommit"
        /\ \E marks \in BOOLEAN, required \in SUBSET Headers :
             /\ "fullwarp" \in UsesCompat => "compat" \in required
             /\ Transact("fullwarp", required, "nttpProof", marks)
    BY <1>15 DEF FullWarpCommit, Headers, UsesCompat
  <2>2. /\ "fullwarp" \in Mandatory /\ CommitRank("fullwarp") = 7
        /\ pc \in BeforeLex \/ "fullwarp" \notin Claiming
    BY <2>1 DEF Mandatory, Lowerings, Optional, CommitRank, BeforeLex, Claiming
  <2> QED
    BY <2>1, <2>2, Ranks, AdvanceTransact
<1>16. CASE Scalar64Commit
  <2>1. /\ pc = "scalar64Commit"
        /\ \E marks \in BOOLEAN, required \in SUBSET Headers :
             /\ "scalar64" \in UsesCompat => "compat" \in required
             /\ Transact("scalar64", required, "vec3Proof", marks)
    BY <1>16 DEF Scalar64Commit, Headers, UsesCompat
  <2>2. /\ "scalar64" \in Mandatory /\ CommitRank("scalar64") = 12
        /\ pc \in BeforeLex \/ "scalar64" \notin Claiming
    BY <2>1 DEF Mandatory, Lowerings, Optional, CommitRank, BeforeLex, Claiming
  <2> QED
    BY <2>1, <2>2, Ranks, AdvanceTransact
<1>17. CASE Vec3Commit
  <2>1. /\ pc = "vec3Commit"
        /\ \E marks \in BOOLEAN, required \in SUBSET Headers :
             /\ "vec3" \in UsesCompat => "compat" \in required
             /\ Transact("vec3", required, "uniformProof", marks)
    BY <1>17 DEF Vec3Commit, Headers, UsesCompat
  <2>2. /\ "vec3" \in Mandatory /\ CommitRank("vec3") = 14
        /\ pc \in BeforeLex \/ "vec3" \notin Claiming
    BY <2>1 DEF Mandatory, Lowerings, Optional, CommitRank, BeforeLex, Claiming
  <2> QED
    BY <2>1, <2>2, Ranks, AdvanceTransact
<1>18. CASE UniformCommit
  <2>1. /\ pc = "uniformCommit"
        /\ \E marks \in BOOLEAN, required \in SUBSET Headers :
             /\ "uniform" \in UsesCompat => "compat" \in required
             /\ Transact("uniform", required, "helper", marks)
    BY <1>18 DEF UniformCommit, Headers, UsesCompat
  <2>2. /\ "uniform" \in Mandatory /\ CommitRank("uniform") = 16
        /\ pc \in BeforeLex \/ "uniform" \notin Claiming
    BY <2>1 DEF Mandatory, Lowerings, Optional, CommitRank, BeforeLex, Claiming
  <2> QED
    BY <2>1, <2>2, Ranks, AdvanceTransact
<1>19. CASE AbiTailCommit
  <2>1. /\ pc = "tailsCommit"
        /\ \E marks \in BOOLEAN, required \in SUBSET Headers :
             /\ "tails" \in UsesCompat => "compat" \in required
             /\ Transact("tails", required, "texture", marks)
    BY <1>19 DEF AbiTailCommit, Headers, UsesCompat
  <2>2. /\ "tails" \in Mandatory /\ CommitRank("tails") = 20
        /\ pc \in BeforeLex \/ "tails" \notin Claiming
    BY <2>1 DEF Mandatory, Lowerings, Optional, CommitRank, BeforeLex, Claiming
  <2> QED
    BY <2>1, <2>2, Ranks, AdvanceTransact
<1>20. CASE NttpCommit
  <2>1. /\ pc = "nttpCommit"
        /\ \E marks \in BOOLEAN, required \in SUBSET Headers :
             /\ "nttp" \in UsesCompat => "compat" \in required
             /\ Transact("nttp", required, "swapCommit", marks)
    BY <1>20 DEF NttpCommit, Headers, UsesCompat
  <2>2. /\ "nttp" \in Mandatory /\ CommitRank("nttp") = 22
        /\ pc \in BeforeLex \/ "nttp" \notin Claiming
    BY <2>1 DEF Mandatory, Lowerings, Optional, CommitRank, BeforeLex, Claiming
  <2> QED
    BY <2>1, <2>2, Ranks, AdvanceTransact
<1>21. CASE HostPointerSwapCommit
  <2>1. /\ pc = "swapCommit"
        /\ \E marks \in BOOLEAN, required \in SUBSET Headers :
             /\ "swap" \in UsesCompat => "compat" \in required
             /\ Transact("swap", required, "recipeProof", marks)
    BY <1>21 DEF HostPointerSwapCommit, Headers, UsesCompat
  <2>2. /\ "swap" \in Mandatory /\ CommitRank("swap") = 23
        /\ pc \in BeforeLex \/ "swap" \notin Claiming
    BY <2>1 DEF Mandatory, Lowerings, Optional, CommitRank, BeforeLex, Claiming
  <2> QED
    BY <2>1, <2>2, Ranks, AdvanceTransact
<1>22. CASE AggregateCommit
  <2>1. /\ pc = "aggregateCommit"
        /\ \E marks \in BOOLEAN, required \in SUBSET Headers :
             /\ "aggregate" \in UsesCompat => "compat" \in required
             /\ Transact("aggregate", required, "rawEnd", marks)
    BY <1>22 DEF AggregateCommit, Headers, UsesCompat
  <2>2. /\ "aggregate" \in Mandatory /\ CommitRank("aggregate") = 30
        /\ pc \in BeforeLex \/ "aggregate" \notin Claiming
    BY <2>1 DEF Mandatory, Lowerings, Optional, CommitRank, BeforeLex, Claiming
  <2> QED
    BY <2>1, <2>2, Ranks, AdvanceTransact
<1>23. CASE FinishParse
  <2>1. \/ errors' /\ pc' = "end" /\ UNCHANGED <<plan, edits, claims, needs>>
        \/ Goto("seal")
        \/ \E l \in {"guards", "texture", "packed"} : Plan(l, {}, "seal") /\ PlanRank(l) = 1
    BY <1>23 DEF FinishParse, Refuse, Goto, PlanRank
  <2>2. pc = "parse"
    BY <1>23 DEF FinishParse
  <2>3. CASE errors' /\ pc' = "end" /\ UNCHANGED <<plan, edits, claims, needs>>
    <3>1. needs \subseteq needs' /\ Onward
      BY <2>2, <2>3, Ranks DEF Onward
    <3> QED
      BY <2>3, <3>1, AdvanceStill
  <2>4. CASE Goto("seal")
    <3>1. \E marks \in BOOLEAN, required \in SUBSET Headers :
             \/ Refuse("end", marks) \/ Goto("seal") \/ Need(required, "seal")
             \/ Plan("guards", required, "seal") /\ PlanRank("guards") = 1
      BY <2>4
    <3>2. Rank(pc) = 1 /\ Rank("seal") = 2 /\ "guards" \in Lowerings
      BY <2>2, Ranks DEF Lowerings
    <3> QED
      BY <3>1, <3>2, AdvanceProve
  <2>5. CASE \E l \in {"guards", "texture", "packed"} : Plan(l, {}, "seal") /\ PlanRank(l) = 1
    <3>1. PICK l \in {"guards", "texture", "packed"} :
             Plan(l, {}, "seal") /\ PlanRank(l) = 1
      BY <2>5
    <3>2. \E marks \in BOOLEAN, required \in SUBSET Headers :
             \/ Refuse("end", marks) \/ Goto("seal") \/ Need(required, "seal")
             \/ Plan(l, required, "seal") /\ PlanRank(l) = 1
      BY <3>1
    <3>3. Rank(pc) = 1 /\ Rank("seal") = 2 /\ l \in Lowerings
      BY <2>2, Ranks DEF Lowerings
    <3> QED
      BY <3>2, <3>3, AdvanceProve
  <2> QED
    BY <2>1, <2>3, <2>4, <2>5
<1>24. CASE BoundedInlining
  <2>1. pc = "inline" /\ PlanRank("inline") = 27 /\ CommitRank("inline") = 28
    BY <1>24 DEF BoundedInlining, PlanRank, CommitRank
  <2>2. CASE Goto("aggregateProof")
    <3>1. \A l \in Mandatory : CommitRank(l) # 28 /\ CommitRank(l) # 27
      BY <2>1, CommitRanks DEF Committed, Mandatory, Optional
    <3>2. PassesNone
      BY <2>1, <2>2, <3>1, Ranks, CommitRanks
         DEF Goto, Passing, Committed, PassesNone, PassesKept, Through
    <3>3. /\ UNCHANGED <<plan, edits, claims, needs, errors>>
          /\ Onward
      BY <2>1, <2>2, Ranks DEF Goto, Onward
    <3> QED
      BY <3>2, <3>3, AdvanceStill
  <2>3. CASE Plan("inline", {}, "inlineCommit")
    <3>1. \E marks \in BOOLEAN, required \in SUBSET Headers :
             \/ Refuse("end", marks) \/ Goto("inlineCommit") \/ Need(required, "inlineCommit")
             \/ Plan("inline", required, "inlineCommit") /\ PlanRank("inline") = 27
      BY <2>1, <2>3
    <3>2. Rank(pc) = 27 /\ Rank("inlineCommit") = 27 + 1
      BY <2>1, Ranks
    <3> QED
      BY <3>1, <3>2, AdvanceProve DEF Lowerings
  <2> QED
    BY <1>24, <2>2, <2>3 DEF BoundedInlining
<1> QED
  BY <1>1, <1>2, <1>3, <1>4, <1>5, <1>6, <1>7, <1>8, <1>9, <1>10, <1>11, <1>12,
     <1>13, <1>14, <1>15, <1>16, <1>17, <1>18, <1>19, <1>20, <1>21, <1>22, <1>23, <1>24
        DEF StageStep

\* A rewritten AST match needs the compat header unless its text does not.
LEMMA SemanticRewriteAdvance == TypeOK /\ SemanticRewrite => Advance
<1> SUFFICES ASSUME TypeOK, SemanticRewrite PROVE Advance
  OBVIOUS
<1>1. pc = "parse" /\ Rank(pc) = 1
  BY Ranks DEF SemanticRewrite
<1>2. PICK s \in Spots : \E author \in {"plain", "semantic", "callee"} :
         \/ Commit(author, {s}, IF author = "plain" THEN {} ELSE {"compat"}, "parse")
         \/ Refuse("parse", FALSE)
  BY DEF SemanticRewrite
<1>3. PICK author \in {"plain", "semantic", "callee"} :
         \/ Commit(author, {s}, IF author = "plain" THEN {} ELSE {"compat"}, "parse")
         \/ Refuse("parse", FALSE)
  BY <1>2
<1>4. CASE Refuse("parse", FALSE)
  <2>1. UNCHANGED <<plan, edits, claims, needs>> /\ errors' /\ pc' = "parse"
    BY <1>4 DEF Refuse
  <2>2. needs \subseteq needs' /\ Onward
    BY <1>1, <2>1 DEF Onward
  <2> QED
    BY <2>1, <2>2, AdvanceStill
<1>5. CASE Commit(author, {s}, IF author = "plain" THEN {} ELSE {"compat"}, "parse")
  <2>1. /\ edits \subseteq edits' /\ needs \subseteq needs'
        /\ author # "plain" => "compat" \in needs'
        /\ pc' = "parse" /\ UNCHANGED <<plan, errors>>
    BY <1>5 DEF Commit
  <2>2. \A e \in edits' \ edits : e.by = author
    BY <1>5 DEF Commit, EditsOf
  <2>3. author \notin Lowerings \cup {"helper", "branch", "raw"} /\ "plain" \notin UsesCompat
    BY DEF Lowerings, UsesCompat
  <2>4. \A l \in Committed : CommitRank(l) \in Nat /\ CommitRank(l) > 1
    BY CommitRanks
  <2>5. PassesNone
    BY <1>1, <2>1, <2>4 DEF Passing, Committed, PassesNone, PassesKept, Through
  <2>6. \A l \in Optional : Rank(pc) # CommitRank(l)
    BY <1>1, <2>4 DEF Committed
  <2>7. pc \in BeforeLex
    BY <1>1 DEF BeforeLex
  <2> QED
    <3>1. Onward
      BY <1>1, <2>1 DEF Onward
    <3> QED
      BY <1>1, <2>1, <2>2, <2>3, <2>5, <2>6, <2>7, <3>1, NoneKept DEF Advance
<1> QED
  BY <1>3, <1>4, <1>5

\* The recipe's edits are all in, or an error is reported.
LEMMA RecipeCommitAdvance == TypeOK /\ RecipeCommit => Advance
<1> SUFFICES ASSUME TypeOK, RecipeCommit PROVE Advance
  OBVIOUS
<1>1. PICK some \in SUBSET plan["recipe"] :
         /\ edits' = edits \cup EditsOf("recipe", some)
         /\ needs' = IF some = {} THEN needs ELSE needs \cup {"target"}
         /\ errors' = (errors \/ some # plan["recipe"])
  BY DEF RecipeCommit
<1>2. pc = "recipeCommit" /\ pc' = "lex" /\ UNCHANGED <<plan, claims>>
  BY DEF RecipeCommit
<1>3. Rank(pc) = 25 /\ Rank(pc') = 26 /\ CommitRank("recipe") = 25
  BY <1>2, Ranks DEF CommitRank
<1>4. /\ "recipe" \in Mandatory
      /\ "recipe" \notin UsesCompat \cup {"helper", "branch", "raw"}
  BY DEF Mandatory, Lowerings, Optional, UsesCompat
<1>5. \A l \in Committed : CommitRank(l) = 25 => l = "recipe"
  BY <1>3, <1>4, CommitRanks DEF Committed
<1>6. \A e \in edits' \ edits : e.by = "recipe"
  BY <1>1 DEF EditsOf
<1>7. errors' \/ PassesKept
  <2>1. \A l \in Mandatory : Passing(l) => l = "recipe"
    BY <1>3, <1>5, CommitRanks DEF Passing, Committed
  <2>2. Through
    BY <1>3 DEF Through
  <2> QED
    BY <1>1, <1>2, <2>1, <2>2 DEF PassesKept
<1>8. \A l \in Optional : Rank(pc) # CommitRank(l)
  BY <1>3, <1>5 DEF Committed, Optional
<1>9. edits \subseteq edits' /\ needs \subseteq needs' /\ (errors => errors')
  BY <1>1
<1>10. Onward
  BY <1>3 DEF Onward
<1> QED
  BY <1>2, <1>3, <1>4, <1>6, <1>7, <1>8, <1>9, <1>10 DEF Advance

\* Template inlining and attribute guards are committed whole or passed by; the
\* guards do not fit where the raw pass replaced text.
LEMMA OptionalAdvance ==
  ASSUME TypeOK, NEW l \in Optional, NEW next,
         Rank(next) = CommitRank(l) + 1, Rank(pc) = CommitRank(l),
         \/ Goto(next)
         \/ /\ Commit(l, plan[l], {}, next)
            /\ l = "guards" => TRUE \in StageOutcomes(l, plan[l])
  PROVE  Advance
<1>1. \A m \in Committed : CommitRank(m) = CommitRank(l) => m = l
  BY CommitRanks DEF Committed
<1>2. CommitRank(l) \in {28, 33}
  BY DEF CommitRank, Optional
<1>3. PassesNone
  <2>1. \A m \in Mandatory : CommitRank(m) # CommitRank(l)
    BY <1>1 DEF Mandatory, Committed
  <2>2. pc' = next
    BY DEF Goto, Commit
  <2> QED
    <3>1. \A m \in Mandatory : ~Passing(m)
      BY <1>2, <2>1, <2>2, CommitRanks DEF Passing, Committed
    <3>2. Through
      BY <1>2, <2>2 DEF Through
    <3> QED
      BY <3>1, <3>2 DEF PassesNone
<1>4. CASE Goto(next)
  <2>1. UNCHANGED <<plan, edits, claims, needs, errors>> /\ Onward
    BY <1>2, <1>4 DEF Goto, Onward
  <2> QED
    BY <1>3, <2>1, AdvanceStill
<1>5. CASE Commit(l, plan[l], {}, next)
           /\ (l = "guards" => TRUE \in StageOutcomes(l, plan[l]))
  <2>1. edits' = edits \cup EditsOf(l, plan[l]) /\ pc' = next /\ UNCHANGED <<plan, needs, errors>>
    BY <1>5 DEF Commit
  <2>2. \A e \in edits' \ edits : e.by = l
    BY <2>1 DEF EditsOf
  <2>3. l \notin UsesCompat \cup {"helper", "branch", "raw"}
    BY DEF Optional, UsesCompat
  <2>4. \A c \in claims' \ claims : \A e \in edits : e.by = "raw" => e.at # c.at
    <3>1. CASE l = "inline"
      BY <1>5, <3>1 DEF Commit, ClaimsOf, Claiming
    <3>2. CASE l = "guards"
      <4> SUFFICES ASSUME NEW c \in claims' \ claims, NEW e \in edits, e.by = "raw", e.at = c.at
                   PROVE  FALSE
        OBVIOUS
      <4>1. c.at \in plan[l]
        BY <1>5 DEF Commit, ClaimsOf, EditsOf
      <4>2. "raw" \in {f.by : f \in {g \in edits : g.at = c.at}}
        OBVIOUS
      <4>3. AddOutcomes(l, c.at) = {FALSE}
        BY <3>2, <4>2 DEF AddOutcomes, Replacing
      <4>4. StageOutcomes(l, plan[l]) = {FALSE}
        BY <4>1, <4>3 DEF StageOutcomes
      <4> QED
        BY <1>5, <3>2, <4>4
    <3> QED
      BY <3>1, <3>2 DEF Optional
  <2>5. \A m \in Optional : Rank(pc) = CommitRank(m) => m = l
    BY <1>1 DEF Committed
  <2>6. Rank(pc) < Rank(pc') /\ Onward
    BY <1>2, <2>1 DEF Onward
  <2>7. EditsOf(l, plan'[l]) \subseteq edits' /\ edits \subseteq edits' /\ needs \subseteq needs'
    BY <2>1
  <2> QED
    BY <1>3, <2>1, <2>2, <2>3, <2>4, <2>5, <2>6, <2>7, NoneKept DEF Advance
<1> QED
  BY <1>4, <1>5

\* The raw pass edits while it is in the file.
LEMMA RewriteTokenAdvance == TypeOK /\ RewriteToken => Advance
<1> SUFFICES ASSUME TypeOK, RewriteToken PROVE Advance
  OBVIOUS
<1>1. pc = "lex" /\ pc' = "lex" /\ Rank(pc) = 26 /\ UNCHANGED plan
  BY Ranks DEF RewriteToken
<1>2. PICK s \in Spots :
        \/ Ignore
        \/ \E required \in SUBSET Headers : RawEdit(s, "raw", required)
        \/ RawEdit(s, "callee", {"compat"})
        \/ errors' = TRUE /\ UNCHANGED <<edits, claims, needs>>
  BY DEF RewriteToken, Headers
<1>3. \A l \in Committed : CommitRank(l) # 26
  BY CommitRanks
<1>4. /\ \A l \in Optional : Rank(pc) # CommitRank(l)
      /\ PassesNone
  BY <1>1, <1>3, CommitRanks DEF Committed, Passing, PassesNone, PassesKept, Through
<1>5. Onward
  BY <1>1 DEF Onward
<1>6. ASSUME NEW author \in {"raw", "callee"}, NEW required \in SUBSET Headers,
             RawEdit(s, author, required), author = "callee" => "compat" \in required
      PROVE  Advance
  <2>1. edits \subseteq edits' /\ needs' = needs \cup required /\ (errors => errors')
    BY <1>6 DEF RawEdit
  <2>2. \A e \in edits' \ edits : e.by = author
    BY <1>6 DEF RawEdit, EditsOf
  <2>3. author \notin Lowerings \cup {"helper", "branch"} /\ "raw" \notin UsesCompat
    BY DEF Lowerings, UsesCompat
  <2> QED
    BY <1>1, <1>4, <1>6, <1>5, <2>1, <2>2, <2>3, NoneKept DEF Advance
<1>7. CASE UNCHANGED <<edits, claims, needs>> /\ (errors => errors')
  BY <1>1, <1>4, <1>7, <1>5, AdvanceStill
<1> QED
  BY <1>2, <1>6, <1>7 DEF Ignore, Headers

\* The helper's edits need the compat header when one of its calls is replaced.
LEMMA HelperClosureAdvance == TypeOK /\ HelperClosure => Advance
<1> SUFFICES ASSUME TypeOK, HelperClosure PROVE Advance
  OBVIOUS
<1>1. pc = "endClosure" /\ pc' = "endRequired" /\ Rank(pc) = 35 /\ Rank(pc') = 36
  BY Ranks DEF HelperClosure, Goto
<1>2. \A l \in Committed : CommitRank(l) # 35
  BY CommitRanks
<1>3. /\ \A l \in Optional : Rank(pc) # CommitRank(l)
      /\ PassesNone
  BY <1>1, <1>2, CommitRanks DEF Committed, Passing, PassesNone, PassesKept, Through
<1>4. CASE UNCHANGED <<plan, edits, claims, needs, errors>>
  <2>1. Onward
    BY <1>1 DEF Onward
  <2> QED
    BY <1>3, <1>4, <2>1, AdvanceStill
<1>5. CASE ~UNCHANGED <<plan, edits, claims, needs, errors>>
  <2>1. /\ edits' = edits \cup HelperEdits /\ claims' = claims \cup HelperEdits
        /\ needs' = IF tx.calls # {} THEN needs \cup {"compat"} ELSE needs
        /\ UNCHANGED <<plan, errors>>
    BY <1>5 DEF HelperClosure, Goto
  <2>2. \A e \in HelperEdits :
          e.by \in {"helper", "branch"} /\ (e.by = "helper" => e.at \in tx.calls)
    BY DEF HelperEdits, EditsOf
  <2>3. {"helper", "branch"} \cap Lowerings = {} /\ "branch" \notin UsesCompat
    BY DEF Lowerings, UsesCompat
  <2>4. \A e \in edits' \ edits :
          /\ e.by \in {"helper", "branch"}
          /\ e.by \in UsesCompat => "compat" \in needs'
    BY <2>1, <2>2, <2>3
  <2>5. \A c \in claims' \ claims : c.by \in {"helper", "branch"}
    BY <2>1, <2>2
  <2>6. Onward /\ edits \subseteq edits' /\ needs \subseteq needs'
    BY <1>1, <2>1 DEF Onward
  <2> QED
    BY <1>1, <1>3, <2>1, <2>3, <2>4, <2>5, <2>6, NoneKept DEF Advance
<1> QED
  BY <1>4, <1>5

\* The last edits are those of the packed records.
LEMMA FinalizePackedAdvance == TypeOK /\ FinalizePacked => Advance
<1> SUFFICES ASSUME TypeOK, FinalizePacked PROVE Advance
  OBVIOUS
<1>1. pc = "endPacked" /\ pc' = "done" /\ Rank(pc) = 38 /\ Rank(pc') = 39
  <2>1. pc = "endPacked" /\ pc' = "done"
    BY DEF FinalizePacked, Goto, Refuse, Commit
  <2>2. Rank("endPacked") = 38 /\ Rank("done") = 39
    BY Ranks
  <2> QED
    BY <2>1, <2>2
<1>2. /\ "packed" \in Mandatory /\ CommitRank("packed") = 38
      /\ "packed" \notin UsesCompat \cup Claiming \cup {"helper", "branch", "raw"}
  <2>1. "packed" \in Mandatory /\ CommitRank("packed") = 38
    BY DEF Mandatory, Lowerings, Optional, CommitRank
  <2>2. "packed" \notin UsesCompat \cup Claiming \cup {"helper", "branch", "raw"}
    BY DEF UsesCompat, Claiming, Lowerings
  <2> QED
    BY <2>1, <2>2
<1>3. \A l \in Committed : CommitRank(l) = 38 => l = "packed"
  BY <1>2, CommitRanks DEF Committed
<1>4. \A l \in Mandatory : Passing(l) => l = "packed"
  BY <1>1, <1>3, CommitRanks DEF Passing, Committed
<1>5. CASE Refuse("done", FALSE)
  <2>1. UNCHANGED <<plan, edits, claims, needs>> /\ errors' /\ Onward
    BY <1>1, <1>5 DEF Refuse, Onward
  <2> QED
    BY <2>1, AdvanceStill
<1>6. CASE plan["packed"] = {} /\ Goto("done")
  <2>1. UNCHANGED <<plan, edits, claims, needs, errors>> /\ Onward
    BY <1>1, <1>6 DEF Goto, Onward
  <2>2. PassesKept
    BY <1>1, <1>4, <1>6, <2>1 DEF EditsOf, PassesKept, Through
  <2> QED
    BY <2>1, <2>2 DEF Advance
<1>7. CASE Commit("packed", plan["packed"], {}, "done")
  <2>1. edits' = edits \cup EditsOf("packed", plan["packed"])
        /\ UNCHANGED <<plan, claims, needs, errors>>
    BY <1>2, <1>7 DEF Commit, ClaimsOf
  <2>2. \A e \in edits' \ edits : e.by = "packed"
    BY <2>1 DEF EditsOf
  <2>3. PassesKept
    BY <1>1, <1>4, <2>1 DEF PassesKept, Through
  <2>4. \A l \in Optional : Rank(pc) # CommitRank(l)
    BY <1>1, <1>3 DEF Committed, Optional
  <2>5. edits \subseteq edits' /\ needs \subseteq needs' /\ Onward
    BY <1>1, <2>1 DEF Onward
  <2> QED
    BY <1>1, <1>2, <2>1, <2>2, <2>3, <2>4, <2>5 DEF Advance
<1> QED
  BY <1>5, <1>6, <1>7 DEF FinalizePacked

\* The other stages edit nothing; the aggregate proof plans.
LEMMA OthersAdvance ==
  ASSUME TypeOK, SettleInv, Unplanned,
         \/ BeginInvocation \/ ProveHelper \/ TextureBoundary \/ FinishLexing
         \/ RawAuditCompleted \/ EndSeals \/ EndAudits \/ RequireHelper \/ InsertHeaders
         \/ Terminated
  PROVE  Advance
<1>1. UNCHANGED <<plan, edits, claims, needs>> /\ (errors => errors')
  <2>1. CASE BeginInvocation \/ EndAudits \/ RequireHelper
    BY <2>1 DEF BeginInvocation, EndAudits, RequireHelper, Refuse, Goto
  <2>2. CASE ProveHelper
    BY <2>2 DEF ProveHelper, Goto
  <2>3. CASE TextureBoundary
    BY <2>3 DEF TextureBoundary, Refuse
  <2>4. CASE FinishLexing \/ RawAuditCompleted
    BY <2>4 DEF FinishLexing, RawAuditCompleted
  <2>5. CASE EndSeals
    BY <2>5 DEF EndSeals, Refuse, Goto
  <2>6. CASE InsertHeaders
    BY <2>6 DEF InsertHeaders, Goto
  <2>7. CASE Terminated
    BY <2>7 DEF Terminated, vars
  <2> QED
    BY <2>1, <2>2, <2>3, <2>4, <2>5, <2>6, <2>7
<1>2. /\ BeginInvocation => pc = "begin" /\ pc' \in {"parse", "done"}
      /\ EndAudits => pc = "endAudits" /\ pc' \in {"endClosure", "done"}
      /\ RequireHelper => pc = "endRequired" /\ pc' \in {"endHeaders", "done"}
      /\ BeginInvocation \/ EndAudits \/ RequireHelper => (pc' = "done" => errors')
  BY EdgeSteps
<1>0. pc = "rawEnd" => tx'.rawDone
  <2>1. pc = "rawEnd" => RawAuditCompleted
    BY DEF BeginInvocation, ProveHelper, TextureBoundary, FinishLexing, EndSeals, EndAudits,
       RequireHelper, InsertHeaders, Terminated
  <2> QED
    BY <2>1, MarkTx
<1>3. /\ ProveHelper => pc = "helper" /\ pc' = "bounds"
      /\ TextureBoundary =>
           pc = "texture" /\ pc' \in {"nttpCommit", "end"} /\ (pc' = "end" => errors')
      /\ FinishLexing => pc = "lex" /\ pc' = "inline"
      /\ RawAuditCompleted => pc = "rawEnd" /\ pc' = "end"
      /\ InsertHeaders => pc = "endHeaders" /\ pc' = "endPacked"
      /\ EndSeals =>
           /\ pc = "end" /\ pc' \in {"endGuards", "done"}
           /\ pc' = "done" => errors' \/ discovery'
  <2>1. ProveHelper => pc = "helper" /\ pc' = "bounds"
    BY DEF ProveHelper, Goto
  <2>2. TextureBoundary =>
          pc = "texture" /\ pc' \in {"nttpCommit", "end"} /\ (pc' = "end" => errors')
    <3>1. Refuse("end", TRUE) => pc' = "end" /\ errors'
      BY OpRefuse
    <3> QED
      BY <3>1 DEF TextureBoundary
  <2>3. FinishLexing => pc = "lex" /\ pc' = "inline"
    BY DEF FinishLexing
  <2>4. RawAuditCompleted => pc = "rawEnd" /\ pc' = "end"
    BY DEF RawAuditCompleted
  <2>5. InsertHeaders => pc = "endHeaders" /\ pc' = "endPacked"
    BY DEF InsertHeaders, Goto
  <2>6. EndSeals =>
          /\ pc = "end" /\ pc' \in {"endGuards", "done"}
          /\ pc' = "done" => errors' \/ discovery'
    <3> SUFFICES ASSUME EndSeals
                 PROVE  /\ pc = "end" /\ pc' \in {"endGuards", "done"}
                        /\ pc' = "done" => errors' \/ discovery'
      OBVIOUS
    <3>1. /\ Summary /\ pc = "end" /\ pc' \in {"done", "endGuards"}
          /\ pc' = "done" => errors' \/ failed \/ discovery
      BY EdgeSteps
    <3>2. (failed => errors') /\ (discovery => discovery')
      BY <3>1 DEF Summary, SettleInv
    <3> QED
      BY <3>1, <3>2
  <2> QED
    BY <2>1, <2>2, <2>3, <2>4, <2>5, <2>6
<1>4. \A l \in Mandatory : CommitRank(l) \notin {0, 17, 21, 26, 31, 32, 34, 36, 37}
  BY CommitRanks DEF Committed
<1>5. \A l \in Mandatory : CommitRank(l) \in Nat
  BY CommitRanks DEF Committed
<1>6. needs \subseteq needs'
  BY <1>1
<1>7. CASE pc = "begin" /\ pc' = "parse"
  <2>1. Rank(pc) = 0 /\ Rank(pc') = 1
    BY <1>7, Ranks
  <2>2. Onward /\ PassesNone
    BY <1>4, <1>5, <2>1 DEF Passing, Onward, PassesNone, Through
  <2> QED
    BY <1>1, <1>6, <2>2, AdvanceStill
<1>8. CASE pc = "helper" /\ pc' = "bounds"
  <2>1. Rank(pc) = 17 /\ Rank(pc') = 18
    BY <1>8, Ranks
  <2>2. Onward /\ PassesNone
    BY <1>4, <1>5, <2>1 DEF Passing, Onward, PassesNone, Through
  <2> QED
    BY <1>1, <1>6, <2>2, AdvanceStill
<1>9. CASE pc = "texture" /\ pc' = "nttpCommit"
  <2>1. Rank(pc) = 21 /\ Rank(pc') = 22
    BY <1>9, Ranks
  <2>2. Onward /\ PassesNone
    BY <1>4, <1>5, <2>1 DEF Passing, Onward, PassesNone, Through
  <2> QED
    BY <1>1, <1>6, <2>2, AdvanceStill
<1>10. CASE pc = "lex" /\ pc' = "inline"
  <2>1. Rank(pc) = 26 /\ Rank(pc') = 27
    BY <1>10, Ranks
  <2>2. Onward /\ PassesNone
    BY <1>4, <1>5, <2>1 DEF Passing, Onward, PassesNone, Through
  <2> QED
    BY <1>1, <1>6, <2>2, AdvanceStill
<1>11. CASE pc = "rawEnd" /\ pc' = "end"
  <2>1. Rank(pc) = 31 /\ Rank(pc') = 32
    BY <1>11, Ranks
  <2>2. Onward /\ PassesNone
    BY <1>4, <1>5, <2>1, <1>0, <1>11 DEF Passing, Onward, PassesNone, Through
  <2> QED
    BY <1>1, <1>6, <2>2, AdvanceStill
<1>12. CASE pc = "end" /\ pc' = "endGuards"
  <2>1. Rank(pc) = 32 /\ Rank(pc') = 33
    BY <1>12, Ranks
  <2>2. Onward /\ PassesNone
    BY <1>4, <1>5, <2>1 DEF Passing, Onward, PassesNone, Through
  <2> QED
    BY <1>1, <1>6, <2>2, AdvanceStill
<1>13. CASE pc = "endAudits" /\ pc' = "endClosure"
  <2>1. Rank(pc) = 34 /\ Rank(pc') = 35
    BY <1>13, Ranks
  <2>2. Onward /\ PassesNone
    BY <1>4, <1>5, <2>1 DEF Passing, Onward, PassesNone, Through
  <2> QED
    BY <1>1, <1>6, <2>2, AdvanceStill
<1>14. CASE pc = "endRequired" /\ pc' = "endHeaders"
  <2>1. Rank(pc) = 36 /\ Rank(pc') = 37
    BY <1>14, Ranks
  <2>2. Onward /\ PassesNone
    BY <1>4, <1>5, <2>1 DEF Passing, Onward, PassesNone, Through
  <2> QED
    BY <1>1, <1>6, <2>2, AdvanceStill
<1>15. CASE pc = "endHeaders" /\ pc' = "endPacked"
  <2>1. Rank(pc) = 37 /\ Rank(pc') = 38
    BY <1>15, Ranks
  <2>2. Onward /\ PassesNone
    BY <1>4, <1>5, <2>1 DEF Passing, Onward, PassesNone, Through
  <2> QED
    BY <1>1, <1>6, <2>2, AdvanceStill
<1>16. CASE /\ \/ pc = "texture" /\ pc' = "end"
               \/ pc \in {"begin", "end", "endAudits", "endRequired"} /\ pc' = "done"
            /\ errors' \/ discovery'
  <2>1. Rank(pc) \in {0, 21, 32, 34, 36} /\ Rank(pc') \in {32, 39}
    BY <1>16, Ranks
  <2>2. pc = "texture" => Rank(pc) = 21
    BY Ranks
  <2>3. pc' = "done" => Rank(pc') = 39
    BY Ranks
  <2>4. Onward
    BY <1>16, <2>1, <2>2, <2>3 DEF Onward
  <2> QED
    BY <1>1, <1>6, <1>16, <2>4, AdvanceStill
<1>17. CASE Terminated
  <2>1. pc = "done" /\ pc' = "done" /\ Rank(pc) = 39 /\ Rank(pc') = 39
    BY <1>17, Ranks DEF Terminated, vars
  <2>2. Onward /\ PassesNone
    BY <1>5, <2>1 DEF Passing, Onward, PassesNone, Through
  <2> QED
    BY <1>1, <1>6, <2>2, AdvanceStill
<1> QED
  BY <1>2, <1>3, <1>7, <1>8, <1>9, <1>10, <1>11, <1>12, <1>13, <1>14, <1>15, <1>16, <1>17

\* The aggregate proof commits nothing, and is passed by only without a plan.
LEMMA AggregateProofAdvance == TypeOK /\ Unplanned /\ AggregateProof => Advance
<1> SUFFICES ASSUME TypeOK, Unplanned, AggregateProof PROVE Advance
  OBVIOUS
<1>1. /\ pc = "aggregateProof" /\ Rank(pc) = 29
      /\ PlanRank("aggregate") = 29 /\ CommitRank("aggregate") = 30
  BY Ranks DEF AggregateProof, PlanRank, CommitRank
<1>2. "aggregate" \in Mandatory /\ "aggregate" \in Lowerings
  BY DEF Mandatory, Lowerings, Optional
<1>3. \A l \in Committed : CommitRank(l) # 29 /\ (CommitRank(l) = 30 => l = "aggregate")
  BY <1>1, <1>2, CommitRanks DEF Committed
<1>4. UNCHANGED <<edits, claims, needs>> /\ (errors => errors')
  BY DEF AggregateProof, Refuse, Goto
<1>5. CASE Refuse("end", TRUE)
  <2>1. /\ UNCHANGED plan /\ errors' /\ needs \subseteq needs'
        /\ Onward
    BY <1>1, <1>5, Ranks DEF Refuse, Onward
  <2> QED
    BY <1>4, <2>1, AdvanceStill
<1>6. CASE Goto("rawEnd")
  <2>1. UNCHANGED plan /\ Rank(pc') = 31
    BY <1>6, Ranks DEF Goto
  <2>2. plan["aggregate"] = {}
    BY <1>1, <1>2 DEF Unplanned
  <2>3. \A l \in Mandatory : Passing(l) => l = "aggregate"
    BY <1>1, <1>3, <2>1, CommitRanks DEF Passing, Committed
  <2>4. PassesKept
    BY <2>1, <2>2, <2>3 DEF EditsOf, PassesNone, PassesKept, Through
  <2>5. Onward
    BY <1>1, <2>1 DEF Onward
  <2> QED
    BY <1>4, <2>1, <2>4, <2>5 DEF Advance
<1>7. CASE ~Refuse("end", TRUE) /\ ~Goto("rawEnd")
  <2>1. PICK spots \in SUBSET Spots : plan' = [plan EXCEPT !["aggregate"] = spots]
    BY <1>7 DEF AggregateProof
  <2>2. \A l \in Lowerings : plan'[l] # plan[l] => l = "aggregate"
    BY <2>1 DEF TypeOK
  <2>3. pc' = "aggregateCommit" /\ Rank(pc') = 30
    BY <1>7, Ranks DEF AggregateProof
  <2>4. PassesNone
    BY <1>1, <1>3, <2>3, CommitRanks DEF Passing, Committed, PassesNone, PassesKept, Through
  <2>5. Onward /\ Rank(pc) < Rank(pc')
    BY <1>1, <2>3 DEF Onward
  <2> QED
    BY <1>1, <1>4, <2>2, <2>4, <2>5, NoneKept DEF Advance
<1> QED
  BY <1>5, <1>6, <1>7

\* Every step but the discovery's advances.
LEMMA AdvanceNext ==
  TypeOK /\ SettleInv /\ Unplanned /\ Next => Advance \/ DeferToDiscovery
<1> SUFFICES ASSUME TypeOK, SettleInv, Unplanned, Next PROVE Advance \/ DeferToDiscovery
  OBVIOUS
<1>1. CASE InliningCommit
  <2>1. pc = "inlineCommit" /\ CommitRank("inline") = 28 /\ "inline" \in Optional
    BY <1>1 DEF InliningCommit, CommitRank, Optional
  <2>2. Rank("aggregateProof") = CommitRank("inline") + 1 /\ Rank(pc) = CommitRank("inline")
    BY <2>1, Ranks
  <2>3. \/ Goto("aggregateProof")
        \/ /\ Commit("inline", plan["inline"], {}, "aggregateProof")
           /\ "inline" = "guards" => TRUE \in StageOutcomes("inline", plan["inline"])
    BY <1>1 DEF InliningCommit
  <2> QED
    BY <2>1, <2>2, <2>3, OptionalAdvance
<1>2. CASE FinalizeGuards
  <2>1. pc = "endGuards" /\ CommitRank("guards") = 33 /\ "guards" \in Optional
    BY <1>2 DEF FinalizeGuards, CommitRank, Optional
  <2>2. Rank("endAudits") = CommitRank("guards") + 1 /\ Rank(pc) = CommitRank("guards")
    BY <2>1, Ranks
  <2>3. \/ Goto("endAudits")
        \/ /\ Commit("guards", plan["guards"], {}, "endAudits")
           /\ "guards" = "guards" => TRUE \in StageOutcomes("guards", plan["guards"])
    BY <1>2 DEF FinalizeGuards
  <2> QED
    BY <2>1, <2>2, <2>3, OptionalAdvance
<1>3. CASE StageStep /\ ~InliningCommit /\ ~FinalizeGuards
  BY <1>3, StagesAdvance, SemanticRewriteAdvance, RecipeCommitAdvance
<1>4. CASE ~StageStep
  BY <1>4, RewriteTokenAdvance, HelperClosureAdvance, FinalizePackedAdvance, OthersAdvance,
     AggregateProofAdvance DEF Next, ExecuteAction, EndSourceFileAction, StageStep
<1> QED
  BY <1>1, <1>2, <1>3, <1>4

-----------------------------------------------------------------------------
\* What a step does to the helper transaction, the lexer's record and the discovery.
LEMMA SideStep ==
  ASSUME TypeOK, Next
  PROVE  /\ discovery => discovery'
         /\ ~RewriteToken => UNCHANGED lexed
         /\ ~HelperClosure => tx'.committed = tx.committed
         /\ pc \in AfterClosure => UNCHANGED <<tx, lexed>>
         /\ tx.rawDone => tx'.rawDone
         /\ tx.unsupported => tx'.unsupported
         /\ ~ProveHelper => tx'.ready = tx.ready /\ tx'.calls = tx.calls
         /\ UNCHANGED input
<1>1. CASE StageStep \/ BeginInvocation \/ EndSeals \/ EndAudits \/ RequireHelper \/ FinalizePacked
  BY <1>1, StageSteps, EdgeSteps, PackedStep DEF Stage, Summary
<1>2. CASE DeferToDiscovery
  BY <1>2 DEF DeferToDiscovery
<1>3. CASE ProveHelper
  <2>1. pc = "helper" /\ UNCHANGED <<lexed, discovery, input>>
    BY <1>3 DEF ProveHelper, Goto
  <2>2. pc \notin AfterClosure
    BY <2>1 DEF AfterClosure
  <2> QED
    BY <1>3, <2>1, <2>2, ProveHelperTx
<1>4. CASE TextureBoundary \/ AggregateProof
  <2>1. /\ UNCHANGED <<lexed, discovery, input>>
        /\ pc \in {"texture", "aggregateProof"}
    BY <1>4 DEF TextureBoundary, AggregateProof, Refuse, Goto
  <2>2. UNCHANGED tx \/ \E r : tx' = [tx EXCEPT !.required = r]
    BY <1>4 DEF TextureBoundary, AggregateProof, Refuse, Goto
  <2>3. tx'.ready = tx.ready
    BY <2>2 DEF TypeOK
  <2>4. pc \notin AfterClosure
    BY <2>1 DEF AfterClosure
  <2> QED
    BY <1>4, <2>1, <2>3, <2>4, RequiredTx
<1>5. CASE RewriteToken
  <2>1. pc = "lex" /\ UNCHANGED <<discovery, input>>
    BY <1>5 DEF RewriteToken
  <2>2. \E b : tx' = [tx EXCEPT !.unsupported = b]
    BY <1>5 DEF RewriteToken
  <2>3. tx'.ready = tx.ready
    BY <2>2 DEF TypeOK
  <2>4. pc \notin AfterClosure
    BY <2>1 DEF AfterClosure
  <2>5. /\ tx'.calls = tx.calls /\ tx'.rawDone = tx.rawDone /\ tx'.committed = tx.committed
        /\ tx.unsupported => tx'.unsupported
    BY <1>5, RewriteTokenTx
  <2> QED
    BY <1>5, <2>1, <2>3, <2>4, <2>5
<1>6. CASE FinishLexing
  <2>1. pc = "lex" /\ UNCHANGED <<lexed, discovery, input>>
    BY <1>6 DEF FinishLexing
  <2>2. \E b : tx' = [tx EXCEPT !.unsupported = b]
    BY <1>6 DEF FinishLexing
  <2>3. tx'.ready = tx.ready
    BY <2>2 DEF TypeOK
  <2>4. pc \notin AfterClosure
    BY <2>1 DEF AfterClosure
  <2> QED
    BY <1>6, <2>1, <2>3, <2>4, MarkTx
<1>7. CASE RawAuditCompleted
  <2>1. pc = "rawEnd" /\ UNCHANGED <<lexed, discovery, input>> /\ tx' = [tx EXCEPT !.rawDone = TRUE]
    BY <1>7 DEF RawAuditCompleted
  <2>2. tx'.ready = tx.ready
    BY <2>1 DEF TypeOK
  <2>3. pc \notin AfterClosure
    BY <2>1 DEF AfterClosure
  <2> QED
    BY <1>7, <2>1, <2>2, <2>3, MarkTx
<1>8. CASE HelperClosure
  <2>1. pc = "endClosure" /\ UNCHANGED <<lexed, discovery, input>>
    BY <1>8 DEF HelperClosure, Goto
  <2>2. UNCHANGED tx \/ tx' = [tx EXCEPT !.committed = TRUE]
    BY <1>8 DEF HelperClosure, Goto
  <2>3. tx'.ready = tx.ready /\ tx'.calls = tx.calls /\ tx'.rawDone = tx.rawDone
        /\ tx'.unsupported = tx.unsupported
    BY <2>2 DEF TypeOK
  <2>4. pc \notin AfterClosure
    BY <2>1 DEF AfterClosure
  <2> QED
    BY <1>8, <2>1, <2>3, <2>4
<1>9. CASE InsertHeaders \/ Terminated
  BY <1>9 DEF InsertHeaders, Goto, Terminated, vars
<1> QED
  BY <1>1, <1>2, <1>3, <1>4, <1>5, <1>6, <1>7, <1>8, <1>9
     DEF Next, ExecuteAction, EndSourceFileAction, StageStep

\* Which action runs in the raw pass, and which at the closure of the helper.
LEMMA LabelSteps ==
  ASSUME TypeOK, Next
  PROVE  /\ pc = "lex" => RewriteToken \/ FinishLexing
         /\ pc = "endClosure" => HelperClosure
<1>1. CASE StageStep /\ ~FinalizeGuards
  <2>1. pc \notin {"lex", "endClosure"}
    BY <1>1 DEF StageStep, SemanticRewrite, FinishParse, SealParse, AuditRuntimeSurface,
       Scalar64Proof, DynamicWarpGroups, FullWarpProof, FullWarpCommit, NttpProof,
       SharedWordAlignment, HostPointerSwapProof, AuditRecords, Scalar64Commit, Vec3Proof,
       Vec3Commit, UniformProof, UniformCommit, KernelBounds, AbiTailProof, AbiTailCommit,
       NttpCommit, HostPointerSwapCommit, RecipeProof, RecipeCommit, BoundedInlining,
       InliningCommit, AggregateCommit
  <2> QED
    BY <2>1
<1>2. CASE FinalizeGuards
  BY <1>2 DEF FinalizeGuards
<1>3. CASE \/ BeginInvocation \/ DeferToDiscovery \/ ProveHelper \/ TextureBoundary
           \/ AggregateProof \/ RawAuditCompleted \/ EndSeals \/ EndAudits \/ RequireHelper
           \/ InsertHeaders \/ FinalizePacked \/ Terminated
  <2>1. pc \notin {"lex", "endClosure"}
    BY <1>3 DEF BeginInvocation, DeferToDiscovery, ProveHelper, TextureBoundary, AggregateProof,
       RawAuditCompleted, EndSeals, EndAudits, RequireHelper, InsertHeaders, FinalizePacked,
       Terminated
  <2> QED
    BY <2>1
<1>4. CASE RewriteToken \/ FinishLexing \/ HelperClosure
  BY <1>4 DEF RewriteToken, FinishLexing, HelperClosure
<1> QED
  BY <1>1, <1>2, <1>3, <1>4 DEF Next, ExecuteAction, EndSourceFileAction, StageStep

\* Plans stay what they are once their stage is behind, and edits stay in.
LEMMA KeptNext ==
  ASSUME TypeOK, Kept, Advance, discovery => discovery'
  PROVE  Kept'
<1> SUFFICES ASSUME ~errors', ~discovery', NEW l \in Mandatory, Rank(pc') > CommitRank(l)
             PROVE  EditsOf(l, plan'[l]) \subseteq edits'
  BY DEF Kept, EditsOf
<1>1. ~errors /\ ~discovery
  BY DEF Advance
<1>2. /\ CommitRank(l) \in Nat /\ PlanRank(l) \in Nat /\ PlanRank(l) < CommitRank(l)
      /\ l \in Lowerings
  BY CommitRanks DEF Committed, Mandatory
<1>3. Rank(pc) \in Nat /\ Rank(pc') \in Nat
  BY DEF Advance, Onward
<1>4. CASE Rank(pc) > CommitRank(l)
  <2>1. plan'[l] = plan[l]
    BY <1>2, <1>3, <1>4 DEF Advance
  <2> QED
    BY <1>1, <1>4, <2>1 DEF Kept, Advance
<1>5. CASE Rank(pc) <= CommitRank(l)
  BY <1>2, <1>3, <1>5 DEF Advance, PassesKept, Passing
<1> QED
  BY <1>2, <1>3, <1>4, <1>5

\* A plan is only made by its own stage.
LEMMA UnplannedNext ==
  ASSUME TypeOK, Unplanned, Advance
  PROVE  Unplanned'
<1> SUFFICES ASSUME NEW l \in Lowerings, Rank(pc') <= PlanRank(l)
             PROVE  plan'[l] = {}
  BY DEF Unplanned
<1>1. Rank(pc) \in Nat /\ Rank(pc') \in Nat /\ Rank(pc) <= Rank(pc') /\ PlanRank(l) \in Nat
  BY CommitRanks DEF Advance, Onward
<1>2. plan'[l] = plan[l]
  BY <1>1 DEF Advance
<1> QED
  BY <1>1, <1>2 DEF Unplanned

\* An optional rewrite goes in whole, in its own stage.
LEMMA AllOrNoneNext ==
  ASSUME TypeOK, AllOrNone, Advance
  PROVE  AllOrNone'
<1> SUFFICES ASSUME NEW l \in Optional, NEW e \in edits', e.by = l
             PROVE  Rank(pc') > CommitRank(l) /\ EditsOf(l, plan'[l]) \subseteq edits'
  BY DEF AllOrNone, EditsOf
<1>1. /\ CommitRank(l) \in Nat /\ PlanRank(l) \in Nat /\ PlanRank(l) < CommitRank(l)
      /\ l \in Lowerings
  BY CommitRanks DEF Committed, Optional, Lowerings
<1>2. Rank(pc) \in Nat /\ Rank(pc') \in Nat /\ Rank(pc) <= Rank(pc')
  BY DEF Advance, Onward
<1>3. CASE e \in edits
  <2>1. Rank(pc) > CommitRank(l) /\ EditsOf(l, plan[l]) \subseteq edits
    BY <1>3 DEF AllOrNone
  <2>2. plan'[l] = plan[l]
    BY <1>1, <1>2, <2>1 DEF Advance
  <2> QED
    BY <1>1, <1>2, <2>1, <2>2 DEF Advance
<1>4. CASE e \notin edits
  <2>1. Rank(pc) = CommitRank(l) /\ ~UNCHANGED edits
    BY <1>1, <1>4 DEF Advance
  <2> QED
    BY <1>2, <2>1 DEF Advance
<1> QED
  BY <1>3, <1>4

\* The helper's edits come with the commitment, and nothing of what they cover
\* changes after it.
LEMMA HelperThereNext ==
  ASSUME TypeOK, AuditInv, HelperThere, Advance, Next
  PROVE  HelperThere'
<1> DEFINE Mine(E) == {e \in E : e.by \in {"helper", "branch"}}
<1> SUFFICES ASSUME ~discovery'
             PROVE  Mine(edits') = IF tx'.committed THEN HelperEdits' ELSE {}
  BY DEF HelperThere
<1>1. ~discovery
  BY SideStep
<1>2. Mine(edits) = IF tx.committed THEN HelperEdits ELSE {}
  BY <1>1 DEF HelperThere
<1>3. CASE HelperClosure
  <2>1. pc = "endClosure"
    BY <1>3 DEF HelperClosure
  <2>2. ~tx.committed
    BY <2>1 DEF AuditInv, CommittedLate, AfterClosure
  <2>3. Mine(edits) = {}
    BY <1>2, <2>2
  <2>4. CASE UNCHANGED <<edits, tx>>
    BY <2>2, <2>3, <2>4
  <2>5. CASE ~UNCHANGED <<edits, tx>>
    <3>1. edits' = edits \cup HelperEdits /\ tx' = [tx EXCEPT !.committed = TRUE] /\ UNCHANGED lexed
      BY <1>3, <2>5 DEF HelperClosure, Goto
    <3>2. tx'.committed /\ tx'.calls = tx.calls
      BY <3>1 DEF TypeOK
    <3>3. HelperEdits' = HelperEdits
      BY <3>1, <3>2 DEF HelperEdits, NeededBranches, EditsOf
    <3>4. Mine(HelperEdits) = HelperEdits
      BY DEF HelperEdits, EditsOf
    <3>5. Mine(edits') = Mine(edits) \cup Mine(HelperEdits)
      BY <3>1
    <3> HIDE DEF Mine
    <3> QED
      BY <2>3, <3>2, <3>3, <3>4, <3>5
  <2> QED
    BY <2>4, <2>5
<1>4. CASE ~HelperClosure
  <2>1. tx'.committed = tx.committed
    BY <1>4, SideStep
  <2>2. Mine(edits') = Mine(edits)
    <3>1. pc # "endClosure" \/ UNCHANGED edits
      <4>1. pc = "endClosure" => FALSE
        BY <1>4, LabelSteps
      <4> QED
        BY <4>1
    <3> QED
      BY <3>1 DEF Advance
  <2>3. tx.committed => HelperEdits' = HelperEdits
    <3>1. tx.committed => pc \in AfterClosure
      BY DEF AuditInv, CommittedLate
    <3>2. tx.committed => UNCHANGED <<tx, lexed>>
      BY <3>1, SideStep
    <3> QED
      BY <3>2 DEF HelperEdits, NeededBranches, EditsOf
  <2> HIDE DEF Mine
  <2> QED
    BY <1>2, <2>1, <2>2, <2>3
<1> QED
  BY <1>3, <1>4

\* What the text relies on was needed when it went in.
LEMMA CompatNeededNext ==
  ASSUME CompatNeeded, Advance
  PROVE  CompatNeeded'
BY DEF CompatNeeded, Advance

\* Past the insertion of the headers nothing more is needed.
LEMMA HeadersInNext ==
  ASSUME TypeOK, SettleInv, HeadersIn, Next
  PROVE  HeadersIn'
<1> SUFFICES ASSUME pc' \in {"endPacked", "done"}, ~errors', ~discovery'
             PROVE  needs' \subseteq headers'
  BY DEF HeadersIn
<1>1. ~discovery
  BY SideStep
<1>2. CASE StageStep
  BY <1>2, StageSteps DEF Stage, AfterClosure
<1>3. CASE BeginInvocation \/ EndSeals \/ EndAudits \/ RequireHelper
  BY <1>1, <1>3, EdgeSteps DEF SettleInv, Summary
<1>4. CASE FinalizePacked
  <2>1. Summary /\ pc = "endPacked" /\ UNCHANGED needs
    BY <1>4, PackedStep
  <2>2. UNCHANGED headers
    BY <1>4 DEF FinalizePacked, Goto, Refuse, Commit
  <2> QED
    BY <1>1, <2>1, <2>2 DEF HeadersIn, Summary
<1>5. CASE InsertHeaders
  BY <1>5 DEF InsertHeaders, Goto
<1>6. CASE Terminated
  BY <1>6 DEF Terminated, vars, HeadersIn
<1>7. CASE \/ DeferToDiscovery \/ ProveHelper \/ TextureBoundary \/ RewriteToken \/ FinishLexing
           \/ AggregateProof \/ RawAuditCompleted \/ HelperClosure
  <2>1. pc' \notin {"endPacked", "done"}
    BY <1>7 DEF DeferToDiscovery, ProveHelper, TextureBoundary, RewriteToken, FinishLexing,
       AggregateProof, RawAuditCompleted, HelperClosure, Refuse, Goto
  <2> QED
    BY <2>1
<1> QED
  BY <1>2, <1>3, <1>4, <1>5, <1>6, <1>7
     DEF Next, ExecuteAction, EndSourceFileAction, StageStep

\* Only the end of the raw pass leads past it.
LEMMA RawDoneNext ==
  ASSUME TypeOK, RawDone, Advance, Next
  PROVE  RawDone'
<1> SUFFICES ASSUME Rank(pc') > 31, ~errors', ~discovery'
             PROVE  tx'.rawDone
  BY Ranks DEF RawDone
<1>1. ~errors /\ ~discovery
  BY SideStep DEF Advance
<1>2. Rank(pc) \in Nat
  BY DEF Advance, Onward
<1>3. CASE Rank(pc) > 31
  BY <1>1, <1>3, SideStep, Ranks DEF RawDone
<1>4. CASE Rank(pc) <= 31
  BY <1>4 DEF Advance, PassesKept, Through
<1> QED
  BY <1>2, <1>3, <1>4

\* The raw pass edits text without a claim that it just saw, and later claims
\* but the helper's avoid its edits.
LEMMA RawApartNext ==
  ASSUME TypeOK, AuditInv, RawApart, Advance, Next
  PROVE  RawApart'
<1> SUFFICES ASSUME NEW e \in edits', e.by = "raw"
             PROVE  /\ lexed'[e.at] # "unseen"
                    /\ \A c \in claims' : c.at = e.at => c.by \in {"helper", "branch"}
  BY DEF RawApart
<1>1. CASE RewriteToken
  <2>1. PICK s \in Spots :
          /\ NextSpot(s)
          /\ \E audit \in HelperAudit(s) : lexed' = [lexed EXCEPT ![s] = audit]
          /\ \/ Ignore
             \/ errors' = TRUE /\ failed' = TRUE /\ UNCHANGED <<edits, claims, needs>>
             \/ ~Overlaps("raw", s) /\ RawEdit(s, "callee", {"compat"})
             \/ ~Overlaps("raw", s) /\ \E required \in SUBSET Headers : RawEdit(s, "raw", required)
    BY <1>1 DEF RewriteToken, Headers
  <2>2. PICK audit \in {"clean", "inactive", "residual"} : lexed' = [lexed EXCEPT ![s] = audit]
    BY <2>1 DEF HelperAudit
  <2>3. lexed[s] = "unseen" /\ lexed'[s] # "unseen" /\ \A r \in Spots \ {s} : lexed'[r] = lexed[r]
    BY <2>1, <2>2 DEF NextSpot, TypeOK
  <2>4. edits \subseteq [by : Authors, at : Spots]
    BY DEF TypeOK
  <2>5. CASE e \in edits
    <3>1. e.at \in Spots /\ e.at # s /\ lexed[e.at] # "unseen"
      BY <2>3, <2>4, <2>5 DEF RawApart
    <3>2. \A c \in claims' : c \in claims \/ c.at = s
      BY <2>1 DEF Ignore, RawEdit, ClaimsOf, EditsOf
    <3> QED
      BY <2>3, <2>5, <3>1, <3>2 DEF RawApart
  <2>6. CASE e \notin edits
    <3>1. ~Overlaps("raw", s) /\ \E required \in SUBSET Headers : RawEdit(s, "raw", required)
      <4>1. ~RawEdit(s, "callee", {"compat"})
        BY <2>6 DEF RawEdit, EditsOf
      <4>2. ~UNCHANGED edits
        BY <2>6
      <4> QED
        BY <2>1, <4>1, <4>2 DEF Ignore
    <3>2. e.at = s
      BY <2>6, <3>1 DEF RawEdit, EditsOf
    <3>3. claims' = claims
      BY <3>1 DEF RawEdit, ClaimsOf, Claiming
    <3>4. \A c \in claims : c.at # s
      BY <3>1 DEF Overlaps
    <3> QED
      BY <2>3, <3>2, <3>3, <3>4
  <2> QED
    BY <2>5, <2>6
<1>2. CASE ~RewriteToken
  <2>1. UNCHANGED lexed
    BY <1>2, SideStep
  <2>2. pc = "lex" => FinishLexing
    BY <1>2, LabelSteps
  <2>3. FinishLexing => UNCHANGED <<edits, claims>>
    BY DEF FinishLexing
  <2>4. e \in edits
    BY <2>2, <2>3 DEF Advance
  <2>5. e.at \in Spots /\ lexed[e.at] # "unseen"
    BY <2>4 DEF TypeOK, RawApart
  <2>6. pc \notin BeforeLex
    BY <2>5 DEF AuditInv, Fresh
  <2>7. ASSUME NEW c \in claims', c \notin claims, c.at = e.at
        PROVE  c.by \in {"helper", "branch"}
    BY <2>2, <2>3, <2>4, <2>6, <2>7 DEF Advance
  <2> QED
    BY <2>1, <2>4, <2>5, <2>7 DEF RawApart
<1> QED
  BY <1>1, <1>2

\* Every step keeps the whole.
LEMMA WholeNext == TypeOK /\ AuditInv /\ SettleInv /\ WholeInv /\ [Next]_vars => WholeInv'
<1> SUFFICES ASSUME TypeOK, AuditInv, SettleInv, WholeInv, [Next]_vars PROVE WholeInv'
  OBVIOUS
<1>1. CASE UNCHANGED vars
  BY <1>1 DEF vars, WholeInv, Kept, Unplanned, AllOrNone, HelperThere, CompatNeeded, HeadersIn,
     RawDone, RawApart, HelperEdits, NeededBranches
<1>2. CASE DeferToDiscovery
  <2>1. /\ discovery' /\ edits' = {} /\ pc = "discover" /\ pc' = "end" /\ UNCHANGED plan
    BY <1>2 DEF DeferToDiscovery
  <2>2. Unplanned'
    <3> SUFFICES ASSUME NEW l \in Lowerings, Rank(pc') <= PlanRank(l) PROVE plan'[l] = {}
      BY DEF Unplanned
    <3>1. Rank(pc) = 3 /\ Rank(pc') = 32 /\ PlanRank(l) \in Nat
      BY <2>1, Ranks, CommitRanks
    <3> QED
      BY <2>1, <3>1 DEF WholeInv, Unplanned
  <2> QED
    BY <2>1, <2>2 DEF WholeInv, Kept, AllOrNone, HelperThere, CompatNeeded, HeadersIn,
       RawDone, RawApart
<1>3. CASE Next /\ ~DeferToDiscovery
  <2>1. Advance
    BY <1>3, AdvanceNext DEF WholeInv
  <2>2. discovery => discovery'
    BY <1>3, SideStep
  <2>3. Kept' /\ Unplanned' /\ AllOrNone' /\ CompatNeeded'
    BY <2>1, <2>2, KeptNext, UnplannedNext, AllOrNoneNext, CompatNeededNext DEF WholeInv
  <2>4. HelperThere' /\ HeadersIn' /\ RawDone' /\ RawApart'
    BY <1>3, <2>1, HelperThereNext, HeadersInNext, RawDoneNext, RawApartNext DEF WholeInv
  <2> QED
    BY <2>3, <2>4 DEF WholeInv
<1> QED
  BY <1>1, <1>2, <1>3

\* Nothing is planned or edited at the start.
LEMMA WholeInit == Init => WholeInv
<1> SUFFICES ASSUME Init PROVE WholeInv
  OBVIOUS
<1>1. pc = "begin" /\ Rank(pc) = 0 /\ edits = {} /\ ~tx.committed
  BY Ranks DEF Init
<1>2. \A l \in Lowerings : plan[l] = {}
  BY DEF Init
<1>3. \A l \in Mandatory : ~(Rank(pc) > CommitRank(l))
  BY <1>1, CommitRanks DEF Committed
<1> QED
  BY <1>1, <1>2, <1>3, Ranks DEF WholeInv, Kept, Unplanned, AllOrNone, HelperThere, CompatNeeded,
     HeadersIn, RawDone, RawApart

\* Nothing is published in part: with the output come all mandatory lowerings,
\* all or none of an optional one, the helper transaction as a whole and every
\* header the text relies on, and no semantic range was edited by the raw pass.
THEOREM NothingInPart == Spec => []PublishedWhole
<1>1. TypeOK /\ AuditInv /\ SettleInv /\ WholeInv => PublishedWhole
  <2> SUFFICES ASSUME TypeOK, AuditInv, WholeInv PROVE PublishedWhole
    OBVIOUS
  <2>1. Published => LoweringsWhole
    <3> SUFFICES ASSUME Published PROVE LoweringsWhole
      OBVIOUS
    <3>1. Rank(pc) = 39 /\ Rank("rawEnd") = 31 /\ ~errors /\ ~discovery
      BY Ranks DEF Published
    <3>2. tx.rawDone /\ \A s \in Spots : lexed[s] # "unseen"
      BY <3>1 DEF WholeInv, RawDone, AuditInv, Swept
    <3>3. \A l \in Mandatory : EditsOf(l, plan[l]) \subseteq edits
      BY <3>1, CommitRanks DEF WholeInv, Kept, Committed
    <3>4. ASSUME NEW l \in Optional
          PROVE  EditsOf(l, plan[l]) \cap edits \in {{}, EditsOf(l, plan[l])}
      <4>1. CASE \A e \in edits : e.by # l
        BY <4>1 DEF EditsOf
      <4>2. CASE EditsOf(l, plan[l]) \subseteq edits
        BY <4>2
      <4> QED
        BY <4>1, <4>2 DEF WholeInv, AllOrNone
    <3>5. /\ Mandatory = Lowerings \ {"bounds", "texture", "guards", "inline"}
          /\ Optional = {"guards", "inline"}
      BY DEF Mandatory, Optional
    <3> QED
      BY <3>2, <3>3, <3>4, <3>5 DEF LoweringsWhole
  <2>2. HelperWhole
    BY DEF HelperWhole, Published, WholeInv, HelperThere, HelperEdits, NeededBranches
  <2>3. HeadersPresent
    BY DEF HeadersPresent, Published, WholeInv, HeadersIn, CompatNeeded
  <2>4. RawKeepsOut
    BY DEF RawKeepsOut, WholeInv, RawApart
  <2> QED
    BY <2>1, <2>2, <2>3, <2>4 DEF PublishedWhole, LoweringsWhole
<1>2. Init => SettleInv
  BY DEF Init, SettleInv
<1> QED
  BY <1>1, <1>2, TypeInit, TypeNext, AuditInit, AuditNext, SettleNext, WholeInit, WholeNext,
     PTL DEF Spec

-----------------------------------------------------------------------------
(* The compat header meets no collision. *)

FitInv == ReadyFits /\ Collides

\* What the helper proof leaves in the transaction.
LEMMA HelperShape ==
  ASSUME TypeOK, ProveHelper, ~UNCHANGED tx
  PROVE  \E calls \in SUBSET Spots, u \in BOOLEAN :
           /\ tx.unsupported \/ HelperConflict(calls) => u
           /\ tx' = [tx EXCEPT !.calls = calls, !.unsupported = u,
                               !.ready = ~u /\ input.conflict # "reserved"]
<1>1. PICK calls \in SUBSET Spots, unproved \in BOOLEAN, residual \in BOOLEAN :
        tx' = [tx EXCEPT !.calls = calls,
                         !.unsupported = \/ tx.unsupported \/ unproved \/ residual
                                         \/ HelperConflict(calls) \/ input.includes # 1,
                         !.ready = ~(\/ tx.unsupported \/ unproved \/ residual
                                     \/ HelperConflict(calls) \/ input.includes # 1)
                                     /\ input.conflict # "reserved"]
  BY DEF ProveHelper, Goto
<1>2. PICK u \in BOOLEAN : u = (\/ tx.unsupported \/ unproved \/ residual
                                \/ HelperConflict(calls) \/ input.includes # 1)
  OBVIOUS
<1>3. tx.unsupported \/ HelperConflict(calls) => u
  BY <1>2
<1>4. tx' = [tx EXCEPT !.calls = calls, !.unsupported = u,
                      !.ready = ~u /\ input.conflict # "reserved"]
  BY <1>1, <1>2
<1> QED
  BY <1>3, <1>4

\* No stage before the audits of EndSourceFileAction leads to the helper closure.
LEMMA GuardsLabel ==
  ASSUME StageStep
  PROVE  pc' # "endClosure"
<1>1. CASE \/ SealParse \/ AuditRuntimeSurface \/ AuditRecords
  BY <1>1 DEF SealParse, AuditRuntimeSurface, AuditRecords,
     Gate, Refuse, Goto
<1>2. CASE \/ DynamicWarpGroups \/ SharedWordAlignment
  BY <1>2 DEF DynamicWarpGroups, SharedWordAlignment,
     Gate, Refuse, Goto, Need
<1>3. CASE \/ Scalar64Proof \/ FullWarpProof \/ NttpProof \/ HostPointerSwapProof
  BY <1>3 DEF Scalar64Proof, FullWarpProof, NttpProof, HostPointerSwapProof,
     Prove, Gate, Refuse, Goto, Plan
<1>4. CASE \/ Vec3Proof \/ UniformProof \/ RecipeProof \/ AbiTailProof
  BY <1>4 DEF Vec3Proof, UniformProof, RecipeProof, AbiTailProof,
     Prove, Gate, Refuse, Goto, Plan
<1>5. CASE \/ FullWarpCommit \/ Scalar64Commit \/ Vec3Commit \/ UniformCommit
  BY <1>5 DEF FullWarpCommit, Scalar64Commit, Vec3Commit, UniformCommit,
     Transact, Refuse, Goto, Commit
<1>6. CASE \/ AbiTailCommit \/ NttpCommit \/ HostPointerSwapCommit \/ AggregateCommit
  BY <1>6 DEF AbiTailCommit, NttpCommit, HostPointerSwapCommit, AggregateCommit,
     Transact, Refuse, Goto, Commit
<1>7. CASE KernelBounds
  BY <1>7 DEF KernelBounds, Prove, Gate, Refuse, Goto, Plan
<1>8. CASE FinishParse
  BY <1>8 DEF FinishParse, Prove, Gate, Refuse, Goto, Plan
<1>9. CASE BoundedInlining
  BY <1>9 DEF BoundedInlining, Prove, Gate, Refuse, Goto, Plan
<1>10. CASE InliningCommit
  BY <1>10 DEF InliningCommit, Goto, Commit
<1>11. CASE FinalizeGuards
  BY <1>11 DEF FinalizeGuards, Goto, Commit
<1>12. CASE SemanticRewrite
  BY <1>12 DEF SemanticRewrite, Refuse, Commit
<1>13. CASE RecipeCommit
  BY <1>13 DEF RecipeCommit
<1> QED
  BY <1>1, <1>2, <1>3, <1>4, <1>5, <1>6, <1>7, <1>8, <1>9, <1>10,
     <1>11, <1>12, <1>13 DEF StageStep

\* What the needs and the conflict check do in a step.
LEMMA FitNext == TypeOK /\ SettleInv /\ FitInv /\ [Next]_vars => FitInv'
<1> SUFFICES ASSUME TypeOK, SettleInv, FitInv, [Next]_vars PROVE FitInv'
  OBVIOUS
<1>1. CASE UNCHANGED vars
  BY <1>1 DEF vars, FitInv, ReadyFits, Collides, NoConflict, Published
<1>2. CASE Next
  <2>0. NoConflict' <=> NoConflict
    BY <1>2, SideStep DEF NoConflict
  <2>1. input.conflict \in Conflicts
    BY InputsAssumption DEF TypeOK, InputRecords
  <2>2. ReadyFits'
    <3>1. CASE ProveHelper
      <4>1. CASE UNCHANGED tx
        BY <2>0, <1>2, <4>1, SideStep DEF FitInv, ReadyFits
      <4>2. CASE ~UNCHANGED tx
        <5>1. PICK calls \in SUBSET Spots, u \in BOOLEAN :
                /\ tx.unsupported \/ HelperConflict(calls) => u
                /\ tx' = [tx EXCEPT !.calls = calls, !.unsupported = u,
                                    !.ready = ~u /\ input.conflict # "reserved"]
          BY <3>1, <4>2, HelperShape
        <5>2. /\ tx'.calls = calls /\ tx'.unsupported = u
              /\ tx'.ready => ~u /\ input.conflict # "reserved"
          BY <5>1 DEF TypeOK
        <5>3. input.conflict = "include" => u
          BY <5>1 DEF FitInv, ReadyFits
        <5>4. tx'.ready /\ ~tx'.unsupported /\ tx'.calls # {} => NoConflict
          BY <2>1, <5>1, <5>2, <5>3 DEF HelperConflict, Conflicts, NoConflict
        <5>5. UNCHANGED input
          BY <1>2, SideStep
        <5> QED
          BY <2>0, <5>2, <5>3, <5>4, <5>5 DEF ReadyFits
      <4> QED
        BY <4>1, <4>2
    <3>2. CASE ~ProveHelper
      BY <1>2, <2>0, <3>2, SideStep DEF FitInv, ReadyFits
    <3> QED
      BY <3>1, <3>2
  <2>3. Collides'
    <3> SUFFICES ASSUME \/ pc' \in {"endClosure", "endRequired", "endHeaders", "endPacked"}
                        \/ Published',
                        "compat" \in needs'
                 PROVE  NoConflict
      BY <2>0 DEF Collides
    <3>1. CASE StageStep
      BY <3>1, StageSteps, GuardsLabel DEF Stage, AfterClosure, Published
    <3>2. CASE BeginInvocation \/ EndSeals
      <4>1. pc' \in {"parse", "endGuards"} \/ (pc' = "done" /\ (errors' \/ discovery'))
        BY <3>2, EdgeSteps DEF Summary, SettleInv
      <4> QED
        BY <4>1 DEF Published
    <3>3. CASE EndAudits
      <4>1. (pc' = "done" => errors') /\ pc' \in {"done", "endClosure"}
        BY <3>3, EdgeSteps
      <4>2. pc' = "endClosure" => ~CompatCollision /\ UNCHANGED needs
        BY <3>3 DEF EndAudits, Refuse, Goto
      <4> QED
        BY <2>1, <4>1, <4>2 DEF Published, CompatCollision, NoConflict, Conflicts
    <3>4. CASE HelperClosure
      <4>1. pc = "endClosure"
        BY <3>4 DEF HelperClosure
      <4>2. "compat" \in needs \/ (tx.calls # {} /\ SafeToRemove)
        BY <3>4 DEF HelperClosure, Goto
      <4> QED
        BY <4>1, <4>2 DEF FitInv, Collides, ReadyFits, SafeToRemove
    <3>5. CASE RequireHelper
      <4>1. /\ pc = "endRequired" /\ UNCHANGED needs
            /\ pc' = "done" => errors'
        BY <3>5, EdgeSteps
      <4> QED
        BY <4>1 DEF FitInv, Collides
    <3>6. CASE InsertHeaders
      BY <3>6 DEF InsertHeaders, Goto, FitInv, Collides
    <3>7. CASE FinalizePacked
      BY <3>7, PackedStep DEF FitInv, Collides
    <3>8. CASE Terminated
      BY <3>8 DEF Terminated, vars, FitInv, Collides, Published
    <3>9. CASE \/ DeferToDiscovery \/ ProveHelper \/ TextureBoundary \/ RewriteToken
               \/ FinishLexing \/ AggregateProof \/ RawAuditCompleted
      <4>1. pc' \notin {"endClosure", "endRequired", "endHeaders", "endPacked", "done"}
        BY <3>9 DEF DeferToDiscovery, ProveHelper, TextureBoundary, RewriteToken, FinishLexing,
           AggregateProof, RawAuditCompleted, Refuse, Goto
      <4> QED
        BY <4>1 DEF Published
    <3> QED
      BY <1>2, <3>1, <3>2, <3>3, <3>4, <3>5, <3>6, <3>7, <3>8, <3>9
         DEF Next, ExecuteAction, EndSourceFileAction, StageStep
  <2> QED
    BY <2>2, <2>3 DEF FitInv
<1> QED
  BY <1>1, <1>2

\* Published output that needs the compat header comes from an input that does not
\* collide with it, also when the helper transaction was the first to need it,
\* after the collision checks.
THEOREM NeededHeaderFits == Spec => []NoCompatCollision
<1>1. ASSUME Init
      PROVE  SettleInv /\ FitInv
  <2>1. pc = "begin" /\ ~tx.ready /\ (input.conflict = "include" => tx.unsupported)
    BY <1>1 DEF Init
  <2>2. SettleInv
    BY <1>1 DEF Init, SettleInv
  <2> QED
    BY <2>1, <2>2 DEF FitInv, ReadyFits, Collides, Published
<1>2. FitInv => NoCompatCollision
  BY DEF FitInv, Collides, NoCompatCollision, NoConflict
<1> QED
  BY <1>1, <1>2, TypeInit, TypeNext, SettleNext, FitNext, PTL DEF Spec
=============================================================================
