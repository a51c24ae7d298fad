-------------------------- MODULE ScratchAdmission --------------------------
(***************************************************************************)
(* The proof a translation unit must pass before its block reductions over *)
(* shared scratch are published (src/UniformBlockReduction.cpp), and the   *)
(* threads of the published kernel meeting in those reductions.            *)
(*                                                                         *)
(* The reduction of uniform_block_reduction_compat.hpp is a collective of  *)
(* the whole block: a thread that skips one, or another user of the        *)
(* scratch, breaks it.  Unlike FullWarpGroups the proof carries no values: *)
(* it admits reductions only as top-level assignments of a kernel that no  *)
(* thread can leave early, through a forwarder that is one call, in a      *)
(* translation unit whose text and overload sets are closed.               *)
(*                                                                         *)
(* Statements of a kernel:                                                 *)
(*   storage | block | tile     the three declarations                     *)
(*   reduce via same local      x = via(y, tile)                           *)
(*   sync | query | conv ok     members of the groups, pointer conversion  *)
(*   call c                     any other call: coordinate, helper, ...    *)
(*   exit | alias | record      what the proof refuses anywhere            *)
(*   if body | loop head body                                              *)
(* Conditions of an if differ between threads.  RECURSIVE: TLC only.       *)
(***************************************************************************)
EXTENDS Integers, Sequences, SequencesExt

CONSTANTS
    Units,          \* the translation units tried
    ScratchRanks    \* the threads observed, as ranks in the block

VARIABLES
    unit,           \* the translation unit
    scratchPhase,   \* "off", "source", "refused", "published", "done"
    uses,           \* per thread: what it does with scratch, in order
    met             \* per thread: uses behind it

scratchVars == <<unit, scratchPhase, uses, met>>

\* ---- what the visitors collect ---------------------------------------------
\* BodyInventory: all statements of a body, nested ones included.
RECURSIVE BodyInventory(_)
BodyInventory(ts) ==
    FlattenSeq([i \in DOMAIN ts |->
        <<ts[i]>> \o (IF ts[i].k \in {"if", "loop"} THEN BodyInventory(ts[i].body) ELSE <<>>)])

Occurs(ts, kinds) == {i \in DOMAIN ts : ts[i].k \in kinds}

\* return, goto, throw, asm, lambda, new, delete, do, range-for, if constexpr.
forbiddenExit(ts) == Occurs(BodyInventory(ts), {"exit"}) # {}

\* role: the declarations of scratch, block and tile type.
Role(ts, kind) == SelectSeq(BodyInventory(ts), LAMBDA t : t.k = kind)

\* system, trustedFunction, owned: a declaration of the two group headers of the
\* profile, with no other redeclaration, explicit specialization or asm label.
owned(f) == f.home = "profile" /\ ~f.respecialized

\* emptyNamespaceImport: a using-directive of a namespace that stays empty.
emptyNamespaceImport(d) == d = "empty"

\* ---- the forwarder -----------------------------------------------------------
\* The two-parameter device template T f(T, G&) of the main file: no attribute,
\* no explicit specialization, the only function of its name where the kernel
\* could find one (anonymous namespaces included), and its body returns
\* cooperative_groups::reduce(group, value, plus<T>()) and does nothing else.
pureForwarder(f) ==
    /\ f.device /\ f.clean /\ f.template
    /\ ~f.specialized /\ ~f.attributed /\ ~f.anonymousTwin /\ f.overloads = 1
    /\ f.body = "return reduce" /\ owned(f.callee)

\* The caller's helper whose conversion operator yields an extern shared array:
\* admitted as the initializer of a local pointer, and it calls nothing.
sharedPointerConversion(t) == t.k = "conv" /\ t.ok

(***************************************************************************)
(* A loop: `i < bound` over a 32-bit local, i += stride at the end of a    *)
(* while or ++i in a for from zero; none of the three holders has another  *)
(* write in the body or an address taken anywhere in the kernel, and the   *)
(* body holds no collective.                                               *)
(***************************************************************************)
closedLoop(t, all) ==
    /\ \/ t.head = "while" /\ t.step = "stride"
       \/ t.head = "for" /\ t.step = "inc" /\ t.start = 0
    /\ t.bound \in {"local", "constant", "meta_group_size"}
    /\ \A j \in DOMAIN all : all[j].k # "addr"
    /\ Occurs(BodyInventory(t.body), {"reduce", "sync", "write"}) = {}

\* ---- the kernel --------------------------------------------------------------
\* Literal main-file definition, fixed void signature over scalars and pointers;
\* a template takes exactly a scalar type and two unsigned sizes, and its
\* body starts with a static_assert on the scalar type.
signature(k) == k.clean /\ k.parameters = "scalars"
                /\ (k.template => k.templateParameters = "T, block, tile")

\* Exactly one shared storage, one auto block and one auto tile at top level, no
\* pointer or reference to them, no class-typed local, no other constructor.
slots(k) ==
    /\ \A kind \in {"storage", "block", "tile"} :
          /\ Len(Role(k.body, kind)) = 1
          /\ \E i \in DOMAIN k.body : k.body[i].k = kind
    /\ Occurs(BodyInventory(k.body), {"alias", "record"}) = {}
    /\ Role(k.body, "storage")[1].shared
    /\ Role(k.body, "block")[1].auto /\ Role(k.body, "tile")[1].auto

\* Concrete sizes: whole warps, and whole tiles in the block.
geometry(cap, size) == cap >= 32 /\ cap <= 1024 /\ cap % 32 = 0
                       /\ size \in {32, 64, 128, 256, 512} /\ cap % size = 0

\* The block is this_thread_block(storage), the tile a partition of that block.
derivation(k) == Role(k.body, "block")[1].from = "storage"
                 /\ Role(k.body, "tile")[1].from = "block"
                 /\ Role(k.body, "tile")[1].cap = Role(k.body, "storage")[1].cap

\* Slip: a reduction counts wherever it is in the kernel.
MutTopLevel(k) == SelectSeq(BodyInventory(k.body), LAMBDA t : t.k = "reduce")

\* The reductions found among the statements of the kernel's own body.
TopLevel(k) == SelectSeq(k.body, LAMBDA t : t.k = "reduce")

\* Each is x = f(x, tile) on a local scalar, through a pure forwarder.
collectives(k, f) ==
    /\ TopLevel(k) # <<>>
    /\ \A i \in DOMAIN TopLevel(k) :
          TopLevel(k)[i].local /\ TopLevel(k)[i].same /\ pureForwarder(f)

\* Every other call: an SDK coordinate, a query or sync of block or tile, a proven
\* pointer conversion.  A reduction that is not top-level is such a call too.
otherCalls(k) ==
    /\ Len(TopLevel(k)) = Len(Role(k.body, "reduce"))
    /\ \A i \in DOMAIN BodyInventory(k.body) :
          LET t == BodyInventory(k.body)[i]
          IN /\ t.k = "call" => t.c = "coordinate"
             /\ t.k = "conv" => sharedPointerConversion(t)

proveKernel(k, f) ==
    /\ signature(k) /\ ~forbiddenExit(k.body) /\ slots(k)
    /\ geometry(Role(k.body, "storage")[1].cap, Role(k.body, "tile")[1].size)
    /\ derivation(k) /\ collectives(k, f) /\ otherCalls(k)
    /\ \A i \in DOMAIN BodyInventory(k.body) :
          BodyInventory(k.body)[i].k = "loop" =>
              closedLoop(BodyInventory(k.body)[i], BodyInventory(k.body))
    /\ Occurs(BodyInventory(k.body), {"escape"}) = {}

\* ---- the rest of the translation unit ------------------------------------------
\* auditUses: no variable or reference of a scratch type outside kernel and
\* forwarder, and no alias of such a type (refused while collecting).
auditUses(u) == "outside variable" \notin u.names /\ "type alias" \notin u.names

\* The one inactive block a scratch source may hold: the int specialization through
\* __reduce_add_sync, token for token, every identifier free of macros and the
\* intrinsic and the primary template the ones the compiler saw.
inactiveIntegerReduction(d) == d.tokens = "int specialization" /\ d.witnessed /\ d.primary

\* The directives: an outer guard that nothing else defines, <stdio.h> of the
\* platform, one inactive __CUDA_ARCH__ block, and the two group headers.
proveDirectives(u) ==
    /\ "pragma token" \notin u.names /\ "splice" \notin u.names
    /\ \A d \in u.directives :
          \/ d.d = "group include"
          \/ d.d \in {"guard", "stdio"} /\ d.witnessed
          \/ d.d = "arch" /\ inactiveIntegerReduction(d)

\* The raw tokens of all files: a scratch type is named once, where the kernel
\* declares its storage; directives lie outside kernel and forwarder.
auditRawTypes(u) ==
    /\ (u.kernel.present => proveDirectives(u) /\ "target namespace" \notin u.names)
    /\ \A d \in u.directives : d.d = "inside kernel" => ~u.kernel.present
    /\ u.names \cap {"projection type", "inactive use", "header use", "second naming"} = {}

\* A template whose pattern leaves early is refused before it is instantiated.
collected(u) ==
    /\ "type alias" \notin u.names
    /\ u.kernel.global
    /\ u.kernel.template => ~forbiddenExit(u.kernel.body)

\* Proof::run
run(u) ==
    IF ~u.kernel.present THEN auditUses(u) /\ auditRawTypes(u)
    ELSE /\ collected(u)
         /\ u.standard /\ u.language = 17
         /\ ~u.groupDeclarations
         /\ \A d \in u.usings : emptyNamespaceImport(d)
         /\ u.kernel.instantiated /\ proveKernel(u.kernel, u.forwarder)
         /\ auditUses(u) /\ auditRawTypes(u)

(***************************************************************************)
(* The published text on the device.  What the proof excludes has an       *)
(* effect here: text that another preprocessing changes may make some      *)
(* threads leave; an overload set that is not closed may resolve the       *)
(* forwarder or reduce to a function that only some threads enter; another *)
(* name for the scratch is another user of it.                             *)
(***************************************************************************)
TextOpen(u) ==
    \/ ~u.standard \/ u.names \cap {"pragma token", "splice"} # {}
    \/ \E d \in u.directives : d.d # "group include" /\ (~d.witnessed \/ d.d \in {"other", "inside kernel"})

LookupOpen(u) ==
    \/ u.groupDeclarations \/ u.usings \ {"empty"} # {} \/ u.language > 17
    \/ u.forwarder.specialized \/ u.forwarder.anonymousTwin \/ u.forwarder.overloads > 1
    \/ u.forwarder.body # "return reduce" \/ ~owned(u.forwarder.callee)
    \/ "target namespace" \in u.names

SecondUser(u) ==
    u.names \cap {"outside variable", "type alias", "header use", "inactive use",
                  "second naming", "projection type"} # {}

\* Does a loop end?  A holder with another write, or reachable by its address,
\* may keep some threads in the loop.
LoopEnds(t, all) ==
    /\ t.step # "none"
    /\ Occurs(BodyInventory(t.body), {"write"}) = {}
    /\ \A j \in DOMAIN all : all[j].k # "addr"

RECURSIVE Execute(_, _, _, _)
Execute(u, ts, env, r) ==
    FoldLeft(LAMBDA e, t :
        IF e.gone THEN e
        ELSE CASE t.k = "reduce" -> IF LookupOpen(u) /\ r # 0 THEN e
                                    ELSE [e EXCEPT !.tr = Append(@, t.at)]
               [] t.k = "alias" -> [e EXCEPT !.tr = Append(@, "raw")]
               [] t.k = "escape" -> [e EXCEPT !.tr = Append(@, "raw")]
               [] t.k = "call" /\ t.c = "helper" -> IF r = 0 THEN e ELSE [e EXCEPT !.gone = TRUE]
               [] t.k = "exit" -> [e EXCEPT !.gone = TRUE]
               [] t.k = "if" -> IF r = 0 THEN Execute(u, t.body, e, r) ELSE e
               [] t.k = "loop" ->
                    IF LoopEnds(t, BodyInventory(u.kernel.body)) \/ r = 0
                    THEN FoldLeft(LAMBDA f, q : Execute(u, t.body, f, r), e, [q \in 1..(r % 3) |-> q])
                    ELSE [e EXCEPT !.gone = TRUE]
               [] OTHER -> e,
        env, ts)

Uses(u, r) ==
    IF ~u.kernel.present THEN <<>>
    ELSE IF TextOpen(u) /\ r # 0 THEN <<>>
    ELSE (IF SecondUser(u) THEN <<"raw">> ELSE <<>>) \o
         Execute(u, u.kernel.body, [tr |-> <<>>, gone |-> FALSE], r).tr

\* ---- actions -------------------------------------------------------------------
ScratchOff == unit = <<>> /\ scratchPhase = "off" /\ uses = <<>> /\ met = <<>>

ScratchInit ==
    /\ unit \in Units /\ scratchPhase = "source"
    /\ uses = [r \in ScratchRanks |-> <<>>] /\ met = [r \in ScratchRanks |-> 0]

\* ValidateUniformBlockReduction: without the profile nothing is translated as a group.
ValidateUniformBlockReduction ==
    /\ scratchPhase = "source"
    /\ IF unit.profile => run(unit)
       THEN /\ scratchPhase' = "published"
            /\ uses' = [r \in ScratchRanks |-> IF unit.profile THEN Uses(unit, r) ELSE <<>>]
       ELSE scratchPhase' = "refused" /\ UNCHANGED uses
    /\ UNCHANGED <<unit, met>>

NextUse(r) == IF met[r] < Len(uses[r]) THEN uses[r][met[r] + 1] ELSE "end"

\* One reduction of the block (BlockReduction models its inside): two barriers, so
\* it returns when every thread takes part.
ScratchReduce ==
    /\ scratchPhase = "published"
    /\ \A r \in ScratchRanks : NextUse(r) \notin {"end", "raw"}
    /\ met' = [r \in ScratchRanks |-> met[r] + 1]
    /\ UNCHANGED <<unit, scratchPhase, uses>>

ScratchReturns ==
    /\ scratchPhase = "published"
    /\ \A r \in ScratchRanks : NextUse(r) = "end"
    /\ scratchPhase' = "done"
    /\ UNCHANGED <<unit, uses, met>>

ScratchNext == ValidateUniformBlockReduction \/ ScratchReduce \/ ScratchReturns

-----------------------------------------------------------------------------
(***************************************************************************)
(* The purpose of the whole proof: in a published translation unit all     *)
(* threads of the block are always about to enter the same reduction (or   *)
(* all have left the kernel), nobody else uses the scratch, and the tile   *)
(* of every thread lies wholly inside the block, so that no reduction      *)
(* waits for or reads a slot of a thread that does not exist.              *)
(***************************************************************************)
ReductionsInStep ==
    scratchPhase = "published" /\ unit.profile =>
        /\ \A q, r \in ScratchRanks : NextUse(q) = NextUse(r) /\ NextUse(r) # "raw"
        /\ unit.kernel.present =>
             LET cap == Role(unit.kernel.body, "storage")[1].cap
                 size == Role(unit.kernel.body, "tile")[1].size
             IN \A r \in 0..(cap - 1) : (r \div size + 1) * size <= cap
=============================================================================
