---------------------------- MODULE CgProjection ----------------------------
(***************************************************************************)
(* The cooperative-groups projection of AscifyAction.  With the frontend   *)
(* profile enabled, #include <cooperative_groups.h> finds the product's    *)
(* own small header in place of NVIDIA's.  That is only the same program   *)
(* when NVIDIA's header, read at that point, would have been the reviewed  *)
(* one under its default controls, and when no text of the caller can see  *)
(* the difference.  proveOriginalCgInclude decides the first at every      *)
(* include, the callbacks note the second as the text goes by, and the     *)
(* seals decide at the end, before the output is written.                  *)
(*                                                                         *)
(* A control is one of the _CG_ names: "cluster" stands for                *)
(* _CG_CLUSTER_INTRINSICS_AVAILABLE, which the compiler's own wrapper      *)
(* defines, "other" for those that must stay undefined.  A provider is     *)
(* "wrapper", "cg" for the registered SDK roles, or "dynamic" for the ones *)
(* the dynamic groups add.  Other processes may rewrite a file in place or *)
(* replace it at any time.                                                 *)
(***************************************************************************)
EXTENDS Integers, FiniteSets

CONSTANT MaxCgEvents    \* bound: directives read and files touched

CgHeaders == {"top", "reduce"}
Controls == {"cluster", "other"}
Providers == {"wrapper", "cg", "dynamic"}
Reviewed(i) == [bytes |-> "reviewed", inode |-> i]
FileStates == [bytes : {"reviewed", "edited"}, inode : {1, 2}]

VARIABLES
    setup,      \* what the lookup past the profile finds, and the -D options
    disk,       \* the providers' files
    entry,      \* inode in Clang's file manager, 0 before the first lookup
    control,    \* the controls in the preprocessor's table
    cg,         \* the members the callbacks write
    raw,        \* what the entered files spell, as a raw lexer sees it
    parted,     \* where the projected program and the original one differ
    cgEvents,
    cgVerdict   \* "wrapper", "open", "sealed", then "accepted" or "rejected"

cgVars == <<setup, disk, entry, control, cg, raw, parted, cgEvents, cgVerdict>>

CgInit ==
    /\ setup \in [lookup : {"sdk", "shadow", "opaque"}, cli : {"none", "escaped", "backend"}]
    /\ disk = [p \in Providers |-> Reviewed(1)]
    /\ entry = [p \in Providers |-> 0]
    /\ control = [c \in Controls |-> "undefined"]
    /\ cg = [default |-> 0, changed |-> FALSE, inquiry |-> FALSE, failed |-> FALSE,
             inputs |-> {}, includes |-> {}, entered |-> {}, captures |-> FALSE, dynamic |-> FALSE]
    /\ raw = {} /\ parted = {} /\ cgEvents = 0 /\ cgVerdict = "wrapper"

Reading == cgVerdict = "open" /\ cgEvents < MaxCgEvents /\ cgEvents' = cgEvents + 1

-----------------------------------------------------------------------------
(* Files.                                                                  *)

\* getFileRef: the first lookup of a path is the one that is kept.
Lookup(p) == [entry EXCEPT ![p] = IF @ = 0 THEN disk[p].inode ELSE @]

\* physicalSourceFileMatches: the path still names the file that was looked up.
PhysicalFile(p) == disk[p].inode = Lookup(p)[p]

\* The registered size and SHA-256.
RoleReviewed(p) == disk[p].bytes = "reviewed" /\ PhysicalFile(p)

\* Another process rewrites a provider in place or puts a new file in its place.
Touch(p, f) ==
    /\ cgVerdict \in {"wrapper", "open", "sealed"} /\ cgEvents < MaxCgEvents /\ cgEvents' = cgEvents + 1
    /\ f \in FileStates \ {disk[p]}
    /\ disk' = [disk EXCEPT ![p] = f]
    /\ UNCHANGED <<setup, entry, control, cg, raw, parted, cgVerdict>>

-----------------------------------------------------------------------------
(* Controls.                                                               *)

\* proveOriginalCgCompilerDefault: "cluster" holds the definition the reviewed
\* wrapper made, and the wrapper is still that file.
CompilerDefault == control["cluster"] = "default" /\ cg.default = disk["wrapper"].inode /\ RoleReviewed("wrapper")

\* MacroDefined in the forced wrapper; the definition is captured once.
DefineDefault ==
    /\ cgVerdict = "wrapper" /\ cgVerdict' = "open"
    /\ control' = [control EXCEPT !["cluster"] = IF disk["wrapper"].bytes = "reviewed" THEN "default" ELSE "changed"]
    /\ entry' = Lookup("wrapper")
    /\ cg' = IF RoleReviewed("wrapper") /\ cg.default = 0 /\ ~cg.changed
             THEN [cg EXCEPT !.default = disk["wrapper"].inode] ELSE [cg EXCEPT !.changed = TRUE]
    /\ UNCHANGED <<setup, disk, raw, parted, cgEvents>>

\* MacroDefined and MacroUndefined in the caller's text.
ChangeControl(c, v) ==
    /\ Reading /\ v \in {"undefined", "changed"} \ {control[c]}
    /\ control' = [control EXCEPT ![c] = v]
    /\ cg' = [cg EXCEPT !.changed = TRUE, !.captures = TRUE]
    /\ raw' = raw \cup {"control"}
    /\ UNCHANGED <<setup, disk, entry, parted, cgVerdict>>

\* Ifdef, Ifndef, Defined, MacroExpands: the caller's text reads a control that
\* NVIDIA's header would have set.
ReadControl ==
    /\ Reading
    /\ cg' = [cg EXCEPT !.changed = TRUE]
    /\ raw' = raw \cup {"control"} /\ parted' = parted \cup {"observed"}
    /\ UNCHANGED <<setup, disk, entry, control, cgVerdict>>

\* A branch the preprocessor skips names a control: no callback runs.
SkipControl ==
    /\ Reading /\ raw' = raw \cup {"control"}
    /\ UNCHANGED <<setup, disk, entry, control, cg, parted, cgVerdict>>

\* #pragma pop_macro with a control's name: no macro callback runs either.
PopControl(c, v) ==
    /\ Reading /\ v \in {"undefined", "changed"}
    /\ control' = [control EXCEPT ![c] = v]
    /\ raw' = raw \cup {"string"}
    /\ UNCHANGED <<setup, disk, entry, cg, parted, cgVerdict>>

\* PragmaDirective for an operator pragma; one of the caller's macros may build the
\* name it pops from pieces no raw token shows.
OperatorPragma(owner, c, v) ==
    /\ Reading /\ v \in {control[c]} \cup (IF owner = "caller" THEN {"undefined", "changed"} ELSE {})
    /\ control' = [control EXCEPT ![c] = v]
    /\ cg' = [cg EXCEPT !.changed = @ \/ owner = "caller"]
    /\ raw' = IF owner = "caller" THEN raw \cup {"stack"} ELSE raw
    /\ UNCHANGED <<setup, disk, entry, parted, cgVerdict>>

-----------------------------------------------------------------------------
(* Includes.                                                               *)

\* HasInclude: the answer would come from the injected file.
HasIncludeCg ==
    /\ Reading
    /\ cg' = [cg EXCEPT !.inquiry = TRUE]
    /\ parted' = parted \cup {"inquiry"}
    /\ UNCHANGED <<setup, disk, entry, control, raw, cgVerdict>>

\* The second lookup, past the one profile directory, finds the configured SDK's
\* header; remaps, modules, header maps and a second profile entry are refused.
SdkProvider == setup.lookup = "sdk"

\* Bug: the bytes are left to the seal.
MutRolesKept == PhysicalFile("cg") /\ \A q \in cg.inputs : q.role = "cg" => q.inode = disk["cg"].inode

\* The roles have their reviewed bytes and are the files of the earlier includes.
RolesKept == RoleReviewed("cg") /\ \A q \in cg.inputs : q.role = "cg" => q.inode = disk["cg"].inode

\* The table at the include: the captured default and nothing else.
ControlsDefault == CompilerDefault /\ control["other"] = "undefined"

\* proveOriginalCgInclude for an include that found a product header.
ProvedInclude(how) == how = "literal" /\ SdkProvider /\ RolesKept /\ ControlsDefault

Differs ==
    (IF setup.lookup = "sdk" THEN {} ELSE {"provider"}) \cup
    (IF disk["cg"].bytes = "reviewed" THEN {} ELSE {"bytes"}) \cup
    (IF control = [c \in Controls |-> IF c = "cluster" THEN "default" ELSE "undefined"]
     THEN {} ELSE {"controls"})

\* InclusionDirective and FileChanged for h, spelled by name, through an alias of the
\* path, or with #import or #include_next.
IncludeCg(h, how) ==
    /\ Reading
    /\ entry' = Lookup("cg")
    /\ cg' = IF ProvedInclude(how)
             THEN [cg EXCEPT !.includes = @ \cup {h}, !.entered = @ \cup {h},
                             !.inputs = @ \cup {[role |-> "cg", inode |-> disk["cg"].inode]}]
             ELSE [cg EXCEPT !.failed = TRUE, !.entered = @ \cup {h}]
    /\ parted' = parted \cup Differs
    /\ UNCHANGED <<setup, disk, control, raw, cgVerdict>>

-----------------------------------------------------------------------------
(* Dynamic groups.                                                         *)

\* The lowering takes a coalesced or labelled group: backend names enter the output.
UseDynamic ==
    /\ Reading /\ "top" \in cg.entered /\ ~cg.dynamic
    /\ cg' = [cg EXCEPT !.dynamic = TRUE]
    /\ UNCHANGED <<setup, disk, entry, control, raw, parted, cgVerdict>>

\* The caller defines or undefines a backend name, where the text is live.
CaptureBackend ==
    /\ Reading
    /\ cg' = [cg EXCEPT !.captures = TRUE]
    /\ raw' = raw \cup {"backend_define"}
    /\ UNCHANGED <<setup, disk, entry, control, parted, cgVerdict>>

CallerWords == {"private", "stack", "backend_name", "conditional", "backend_define"}

\* The caller's files spell something the output keeps.
Spell(word) ==
    /\ Reading /\ raw' = raw \cup {word}
    /\ UNCHANGED <<setup, disk, entry, control, cg, parted, cgVerdict>>

\* sealDynamicWarpGroupInputs.
DynamicInputs == cg.inputs \cup {[role |-> "dynamic", inode |-> disk["dynamic"].inode]}

DynamicSealed ==
    \/ ~cg.dynamic
    \/ /\ cg.includes # {} /\ RoleReviewed("dynamic")
       /\ \A q \in cg.inputs : q.role = "dynamic" => q.inode = disk["dynamic"].inode
       /\ ~cg.captures /\ setup.cli = "none"
       /\ raw \cap (CallerWords \cup {"control"}) = {}

-----------------------------------------------------------------------------
(* The end.                                                                *)

\* sealOriginalCgProviders: names in raw tokens, strings and -D options count as
\* changes, live or not.
RawClean == raw \cap {"control", "string"} = {} /\ setup.cli # "escaped"

InputsKept(inputs) ==
    /\ RoleReviewed("wrapper") /\ cg.default = disk["wrapper"].inode
    /\ \A q \in inputs : RoleReviewed(q.role) /\ disk[q.role].inode = q.inode

ProvidersSealed(inputs) ==
    /\ ~cg.inquiry /\ cg.entered \subseteq cg.includes
    /\ cg.includes # {} => CompilerDefault /\ RawClean /\ ~cg.changed /\ InputsKept(inputs)

\* Both seals run after the parse, before the edits are made, and again in
\* EndSourceFileAction, which does nothing once the boundary failed.
Seal ==
    /\ cgVerdict \in {"open", "sealed"}
    /\ LET inputs == IF cg.dynamic THEN DynamicInputs ELSE cg.inputs
           ok == ~cg.failed /\ DynamicSealed /\ ProvidersSealed(inputs)
       IN /\ cgVerdict' = IF ~ok THEN "rejected" ELSE IF cgVerdict = "open" THEN "sealed" ELSE "accepted"
          /\ cg' = [cg EXCEPT !.failed = ~ok, !.inputs = inputs]
          /\ entry' = IF cg.dynamic THEN Lookup("dynamic") ELSE entry
    /\ UNCHANGED <<setup, disk, control, raw, parted, cgEvents>>

CgNext ==
    \/ DefineDefault
    \/ \E c \in Controls, v \in {"undefined", "changed"} : ChangeControl(c, v) \/ PopControl(c, v)
    \/ ReadControl
    \/ SkipControl
    \/ \E o \in {"caller", "native"}, c \in Controls, v \in {"undefined", "default", "changed"} : OperatorPragma(o, c, v)
    \/ HasIncludeCg
    \/ \E h \in CgHeaders, how \in {"literal", "alias", "import"} : IncludeCg(h, how)
    \/ UseDynamic
    \/ CaptureBackend
    \/ \E w \in CallerWords : Spell(w)
    \/ \E p \in Providers, f \in FileStates : Touch(p, f)
    \/ Seal

CgSpec == CgInit /\ [][CgNext]_cgVars

-----------------------------------------------------------------------------
(* Properties.                                                             *)

\* A unit that was parsed against the product's header and accepted is the program
\* NVIDIA's header would have made: at every include it was the SDK's reviewed file
\* under default controls, nothing the caller wrote reads a control or asks for the
\* header, the providers are still those files, and with dynamic groups no text of
\* the caller captures a backend name.
ProjectionFaithful ==
    cgVerdict = "accepted" /\ cg.entered # {} =>
        /\ parted = {}
        /\ \A p \in {"wrapper", "cg"} : disk[p].bytes = "reviewed"
        /\ cg.dynamic => raw \cap {"backend_define", "backend_name"} = {} /\ setup.cli # "backend"
=============================================================================
