-------------------------- MODULE DynamicAdmission --------------------------
(***************************************************************************)
(* Admission of coalesced and grid group values (src/DynamicWarpGroups.cpp)*)
(* and the padding of the signature of the kernels that own them.          *)
(*                                                                         *)
(* A coalesced group of dynamic_warp_groups_compat.hpp is a lane mask: it  *)
(* means what the source means only in the activation of the function that *)
(* formed it.  The proof therefore registers, in source order, only local  *)
(* values that a factory of the same function initializes, admits          *)
(* operations on those values alone, and then refuses whatever other       *)
(* mention of a group type, function or value is left.                     *)
(*                                                                         *)
(* A source is a record: values and calls in source order, the static      *)
(* tiles they start from, the functions, other mentions, and one kernel.   *)
(***************************************************************************)
EXTENDS Integers, Sequences, SequencesExt

CONSTANTS
    DynamicSources,   \* the sources tried
    MaxActivations    \* bound: calls of functions of the published program

\* Values and calls are sequences; a value and a static tile are different declarations.
ASSUME DynamicSourcesAssumption ==
    \A s \in DynamicSources :
        /\ s.values \in Seq(ToSet(s.values)) /\ s.calls \in Seq(ToSet(s.calls))
        /\ \A d \in ToSet(s.values) : d.v \notin DOMAIN s.tiles

VARIABLES
    input,            \* the source
    stage,            \* "off", "declarations", "values", "operations", "audit", "tails",
                      \* "refused", "running"
    next,             \* values or calls handled in this stage
    groups,           \* registered group values
    approved,         \* indices of the calls admitted
    padded,           \* staged padding of the kernel's parameter list
    activations,      \* functions called so far, in order
    formed,           \* per group variable: the activation that formed its mask
    groupUses         \* operations executed: [by, mask]: activation of use and of the mask

dynamicVars == <<input, stage, next, groups, approved, padded, activations, formed, groupUses>>

Mentions(m) == m \in input.mentions
DeclarationOf(v) == CHOOSE d \in ToSet(input.values) : d.v = v

\* ---- the proof -----------------------------------------------------------------
\* related, newDeclaration: does the caller's code mention the new groups at all, in
\* whatever type, alias, reference or lookup?  The older reduce alone does not count.
used == input.values # <<>> \/ input.calls # <<>> \/ input.mentions \ {"legacy reduce"} # {}

\* owner: an ordinary non-template device function of the selected source.
owner(f) == f \in DOMAIN input.functions /\ input.functions[f] = "device"

\* literal, tokens, written, calleeWritten: spelled in the selected source, every
\* identifier free of macros.  trusted: every redeclaration is the profile's.
written(x) == x.text = "literal"
trusted(x) == x.callee = "sdk"

\* namespaceAlias: spelled namespace a = cooperative_groups, its own chain first.
namespaceAlias == ~Mentions("alias of unproved alias") /\ ~Mentions("spliced alias")

\* A tile of 32 that a local of the same function takes from a local block, possibly
\* through the profile's conversion of the partition; both used for nothing else.
staticConversionFactory(t) == t.conversion \in {"none", "profile"}
staticReferences(t) == t.otherUse = "none"
tile32(t) == t.size = 32 /\ t.block = "this_thread_block"
staticParent(p, f) ==
    /\ p \in DOMAIN input.tiles
    /\ LET t == input.tiles[p]
       IN /\ t.f = f /\ t.local /\ tile32(t)
          /\ written(t) /\ staticConversionFactory(t) /\ staticReferences(t)

registered(v, f) == \E g \in groups : g.v = v /\ g.f = f

\* Slip: any group of the name will do, whichever function owns it.
MutgroupArgument(v, f) == \E g \in groups : g.v = v

\* groupArgument: the expression names a registered value of this very function.
groupArgument(v, f) == registered(v, f)

partitionParent(d) ==
    \/ groupArgument(d.parent, d.f)
    \/ d.factory = "binary_partition" /\ staticParent(d.parent, d.f)

\* registerVariable on the next declaration of a group type.
registerable(d) ==
    /\ written(d) /\ trusted(d) /\ owner(d.f) /\ d.form = "local"
    /\ \/ d.factory \in {"coalesced_threads", "this_grid"}
       \/ /\ d.factory \in {"binary_partition", "labeled_partition"}
          /\ partitionParent(d) /\ ~d.effects
          /\ d.arg = "int" \/ (d.factory = "binary_partition" /\ d.arg = "bool")

\* operation: queries, the broadcast of rank 0 and the int reductions by + and max.
queries == {"thread_rank", "size", "num_threads", "meta_group_rank", "meta_group_size"}
operation(c) ==
    /\ owner(c.f) /\ ~c.observed /\ written(c) /\ trusted(c) /\ groupArgument(c.g, c.f)
    /\ \/ c.op \in (IF DeclarationOf(c.g).factory = "this_grid" THEN {"thread_rank", "size"} ELSE queries)
       \/ DeclarationOf(c.g).factory # "this_grid" /\ c.arg = "int" /\ ~c.effects
          /\ (c.op = "shfl" => c.rank = 0) /\ c.op \in {"shfl", "plus", "greater"}

\* legacyReduceImport, legacyReduceLookup, greaterConstruction: mentions that stay legal.
harmless == {"legacy reduce", "greater temporary", "alias of cooperative_groups"}

\* ---- the kernel's signature -------------------------------------------------------
\* 64-bit pointers and one trailing unsigned int, in a kernel that forms groups.
tailed == /\ input.kernel.f \in {g.f : g \in groups}
          /\ input.kernel.shape = "pointers, unsigned"

\* One literal main-file definition; every reference is a direct launch or a proven
\* occupancy query; nothing else has its name, observes its signature or its symbol.
directReference(u) == u \in {"launch", "occupancy"}
paddable == /\ input.kernel.definition = "one literal" /\ ~input.kernel.attributed
            /\ "launch" \in input.kernel.uses
            /\ \A u \in input.kernel.uses : directReference(u)

\* ---- steps of the translation --------------------------------------------------------
Refuse == stage' = "refused"
Keep(vs) == UNCHANGED vs
Program == <<activations, formed, groupUses>>

DynamicOff ==
    /\ input = <<>> /\ stage = "off" /\ next = 0 /\ groups = {} /\ approved = {}
    /\ padded = FALSE /\ activations = <<>> /\ formed = <<>> /\ groupUses = {}

DynamicInit ==
    /\ input \in DynamicSources /\ stage = "declarations" /\ next = 0
    /\ groups = {} /\ approved = {} /\ padded = FALSE
    /\ activations = <<>> /\ formed = [v \in {d.v : d \in ToSet(input.values)} |-> 0]
    /\ groupUses = {}

\* Preprocessing and language are fixed; no caller declaration in the namespaces of
\* the target, no alias of a group type or function, no using-directive.
CheckDeclarations ==
    /\ stage = "declarations"
    /\ IF ~used THEN stage' = "tails"
       ELSE IF /\ input.standard
               /\ ~Mentions("injected declaration") /\ ~Mentions("type alias")
               /\ ~Mentions("using namespace") /\ namespaceAlias
            THEN stage' = "values" ELSE Refuse
    /\ Keep(<<input, next, groups, approved, padded, Program>>)

registerVariable ==
    /\ stage = "values"
    /\ IF next = Len(input.values)
       THEN stage' = "operations" /\ next' = 0 /\ UNCHANGED groups
       ELSE LET d == input.values[next + 1]
            IN IF registerable(d)
               THEN groups' = groups \cup {[v |-> d.v, f |-> d.f]} /\ next' = next + 1
                    /\ UNCHANGED stage
               ELSE Refuse /\ UNCHANGED <<next, groups>>
    /\ Keep(<<input, approved, padded, Program>>)

admitCall ==
    /\ stage = "operations"
    /\ IF next = Len(input.calls)
       THEN stage' = "audit" /\ UNCHANGED <<next, approved>>
       ELSE IF operation(input.calls[next + 1])
            THEN approved' = approved \cup {next + 1} /\ next' = next + 1 /\ UNCHANGED stage
            ELSE Refuse /\ UNCHANGED <<next, approved>>
    /\ Keep(<<input, groups, padded, Program>>)

\* Every remaining reference, member, lookup or written type of a group is refused,
\* and so is any other mention of a static tile or block once one is a parent.
auditMentions ==
    /\ input.mentions \subseteq harmless
    /\ \A p \in {d.parent : d \in ToSet(input.values)} \cap DOMAIN input.tiles :
          input.tiles[p].typeUse = "declaration"

AuditMentions ==
    /\ stage = "audit"
    /\ IF auditMentions THEN stage' = "tails" ELSE Refuse
    /\ Keep(<<input, next, groups, approved, padded, Program>>)

\* ProveDynamicKernelAbiTails and the insertion of ", unsigned int = 0u", staged and
\* refused where it meets another edit.
ProveDynamicKernelAbiTails ==
    /\ stage = "tails"
    /\ IF tailed /\ (~paddable \/ input.kernel.otherEdit)
       THEN Refuse /\ UNCHANGED padded
       ELSE stage' = "running" /\ padded' = tailed
    /\ Keep(<<input, next, groups, approved, Program>>)

\* ---- the published program ------------------------------------------------------------
\* Text another macro definition can change, or a name another declaration can take
\* over, forms no mask of this activation (0).
Elsewhere(x) == ~written(x) \/ ~trusted(x) \/
    input.mentions \cap {"injected declaration", "using namespace", "type alias",
                         "alias of unproved alias", "spliced alias"} # {}

\* The activation whose threads the mask of d names once d is executed in `now`.
MaskOf(d, masks, now) ==
    LET parent == IF d.parent \in DOMAIN masks THEN masks[d.parent]
                  ELSE IF d.parent \in DOMAIN input.tiles /\ input.tiles[d.parent].f = d.f
                       THEN now ELSE 0
        made == IF d.factory \in {"coalesced_threads", "this_grid"} THEN now ELSE parent
    IN IF Elsewhere(d) THEN 0
       ELSE CASE d.form = "static" -> IF masks[d.v] # 0 THEN masks[d.v] ELSE made
              [] d.form = "parameter" -> now - 1
              [] OTHER -> made

\* The masks once declaration i was reached: it is executed if it is one of f's.
DeclarationRead(f, now, masks, i) ==
    LET d == input.values[i]
    IN IF d.f = f THEN [masks EXCEPT ![d.v] = MaskOf(d, masks, now)] ELSE masks

MasksAfter(f, now) ==
    LET after[i \in 0 .. Len(input.values)] ==
            IF i = 0 THEN formed ELSE DeclarationRead(f, now, after[i - 1], i)
    IN after

\* A call of f: its declarations are executed in order, then its operations.
Activate(f) ==
    LET now == Len(activations) + 1
        masks == MasksAfter(f, now)[Len(input.values)]
        mask(g) == IF g \in DOMAIN masks THEN masks[g] ELSE 0
    IN /\ stage = "running" /\ Len(activations) < MaxActivations
       /\ f \in DOMAIN input.functions
       /\ activations' = Append(activations, f)
       /\ formed' = masks
       /\ groupUses' = groupUses \cup
            {[by |-> now, mask |-> IF Elsewhere(c) THEN 0 ELSE mask(c.g)] :
                c \in {k \in ToSet(input.calls) : k.f = f}} \cup
            {[by |-> now, mask |-> masks[g]] :     \* through an address or alias
                g \in {v \in DOMAIN masks : Mentions("reference") \/ Mentions("type use")}}
       /\ Keep(<<input, stage, next, groups, approved, padded>>)

DynamicNext ==
    \/ CheckDeclarations \/ registerVariable \/ admitCall \/ AuditMentions
    \/ ProveDynamicKernelAbiTails
    \/ \E f \in {"k", "h"} : Activate(f)

DynamicSpec == DynamicInit /\ [][DynamicNext]_dynamicVars

-----------------------------------------------------------------------------
(***************************************************************************)
(* The contract of coalesced groups after translation: whatever sequence   *)
(* of functions the published program calls, an operation on a group finds *)
(* the mask that the same activation formed, never one of an earlier call, *)
(* of another function or of text the proof did not see.                   *)
(***************************************************************************)
MasksFresh == \A u \in groupUses : u.mask = u.by

(***************************************************************************)
(* Padding changes a signature that the rest of the program may depend on. *)
(* In a published program it is there exactly for the kernels whose ABI    *)
(* needs it, and then no part of the program is tied to the old signature: *)
(* a launch takes the default argument, the occupancy query deduces the    *)
(* type; an address, overload, symbol, template argument or signature      *)
(* observer would not follow.                                              *)
(***************************************************************************)
TailsAgree ==
    stage = "running" =>
        /\ padded <=> /\ input.kernel.shape = "pointers, unsigned"
                      /\ \E d \in ToSet(input.values) : d.f = input.kernel.f
        /\ padded => /\ input.kernel.uses \cap {"address", "overload", "symbol", "template argument",
                                                "signature", "launch in template"} = {}
                     /\ input.kernel.definition = "one literal"

(***************************************************************************)
(* A published program with coalesced groups works on fresh masks only and *)
(* has changed no signature that something still depends on                *)
(* (DynamicWarpGroups.cpp and the padding of kernel tails).                *)
(***************************************************************************)
GroupsFresh == MasksFresh /\ TailsAgree
=============================================================================
