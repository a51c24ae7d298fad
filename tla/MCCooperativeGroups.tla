------------------------ MODULE MCCooperativeGroups ------------------------
(***************************************************************************)
(* Cooperative groups for TLC: the device operations (BlockReduction,      *)
(* WarpGroups) and the three proofs a source with groups must pass         *)
(* (GroupAdmission, ScratchAdmission, DynamicAdmission).  They share no    *)
(* state: a behaviour is about one of them, `part`, and the others stay    *)
(* where they began.                                                       *)
(***************************************************************************)
EXTENDS BlockReduction, WarpGroups, MCAdmissionInputs, TLC

CONSTANT Parts     \* the parts of this run

VARIABLE part

ThreeCalls == <<[type |-> "int", wpt |-> 2], [type |-> "int", wpt |-> 4],
                [type |-> "double", wpt |-> 1]>>
Operands == {[l \in 0..3 |-> <<3, -4, 2, 3>>[l + 1]], [l \in 0..3 |-> -l]}

AdmissionOff ==
    /\ kernelBody = <<>> /\ launch = <<>> /\ inputs = "closed" /\ phase = "off"
    /\ claims = NoScalars /\ trace = <<>> /\ final = <<>> /\ pos = <<>> /\ aborted = FALSE

\* Inputs other than the plain ones are tried with the short kernels.
PlainInput == launch \in OneLaunch /\ inputs = "closed"

MCInit ==
    /\ part \in Parts
    /\ ReduceInit /\ GroupInit
    /\ part # "reduction" => blockSize = BlockWarps * WarpSize /\ \A w \in Warps : full[w]
    /\ IF part = "admission" THEN AdmissionInit /\ (PlainInput \/ Len(kernelBody) = 3)
                             ELSE AdmissionOff
    /\ IF part = "scratch" THEN ScratchInit ELSE ScratchOff
    /\ IF part = "dynamic" THEN DynamicInit ELSE DynamicOff

Ended ==
    \/ part = "reduction" /\ ReduceEnded
    \/ part = "groups" /\ wtrap
    \/ part = "admission" /\ (phase \in {"refused", "done"} \/ aborted)
    \/ part = "scratch" /\ scratchPhase \in {"refused", "done"}
    \/ part = "dynamic" /\ (stage = "refused" \/ Len(activations) = MaxActivations)

MCNext ==
    \/ /\ part = "reduction" /\ ReduceNext
       /\ UNCHANGED <<groupVars, admissionVars, scratchVars, dynamicVars, part>>
    \/ /\ part = "groups" /\ GroupNext
       /\ UNCHANGED <<reduceVars, admissionVars, scratchVars, dynamicVars, part>>
    \/ /\ part = "admission" /\ AdmissionNext
       /\ UNCHANGED <<reduceVars, groupVars, scratchVars, dynamicVars, part>>
    \/ /\ part = "scratch" /\ ScratchNext
       /\ UNCHANGED <<reduceVars, groupVars, admissionVars, dynamicVars, part>>
    \/ /\ part = "dynamic" /\ DynamicNext
       /\ UNCHANGED <<reduceVars, groupVars, admissionVars, scratchVars, part>>
    \/ /\ Ended
       /\ UNCHANGED <<reduceVars, groupVars, admissionVars, scratchVars, dynamicVars, part>>

MCSpec ==
    /\ MCInit
    /\ [][MCNext]_<<reduceVars, groupVars, admissionVars, scratchVars, dynamicVars, part>>
    /\ part = "reduction" => ReduceFairness

(***************************************************************************)
(* The three barriers of reduce never leave a warp waiting: the kernel     *)
(* returns from all its calls or is rejected.                              *)
(***************************************************************************)
ReductionsReturn == <>(part = "reduction" => ReduceEnded)
=============================================================================
