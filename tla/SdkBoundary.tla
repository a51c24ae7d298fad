---------------------------- MODULE SdkBoundary ----------------------------
(***************************************************************************)
(* The CUDA runtime-API header boundary of AscifyAction.  A source that    *)
(* includes cuda_runtime_api.h directly loses that include in the output:  *)
(* the SDK headers below it are replaced by the compat header.  While the  *)
(* preprocessor runs, the callbacks FileChanged, InclusionDirective,       *)
(* MacroDefined and MacroExpands note which files are the SDK's, which     *)
(* macros they define and what the retained text mentions; at the end      *)
(* auditCudaRuntimeApiSurface refuses a translation unit whose retained    *)
(* text could notice that the SDK is gone.                                 *)
(*                                                                         *)
(* A translation unit is read event by event: includes, definitions and    *)
(* uses of a few macro names.  NVIDIA's headers and the C library are      *)
(* outside the repository; an SDK header mentions some __CUDA name, as     *)
(* NVIDIA's all do, and a native header names nothing of CUDA, nor a macro *)
(* that the command line defines by other names.                           *)
(***************************************************************************)
EXTENDS Integers, Sequences, FiniteSets

CONSTANTS Names,        \* macro names besides the CUDA compiler condition
          Admitted,     \* the names CUDA_RENAMES_MAP rewrites in code
          MaxEvents     \* bound: includes, definitions and uses

Condition == "__CUDACC__"

ASSUME SdkBoundaryAssumption ==
    /\ IsFiniteSet(Names) /\ Condition \notin Names
    /\ Admitted \subseteq Names
    /\ MaxEvents \in Nat

AllNames == Names \cup {Condition}

SdkRoles == {"cuda_runtime.h", "cuda_runtime_api.h", "driver_types.h"}
Headers == SdkRoles \cup {"caller.h", "native.h", "shadow.h"}

Undefined == [is |-> FALSE, body |-> {}, paste |-> FALSE, lost |-> FALSE, file |-> "predefines"]

VARIABLES
    lang,       \* "cuda", with the compiler's forced wrapper, or "host"
    stack,      \* the open files, innermost first, each with: does the output lose it
    guarded,    \* files whose guard is defined
    macros,     \* the preprocessor's table
    runtimeApi, \* the members the callbacks write
    leaked,     \* retained text has observed a definition the output loses
    events,
    verdict     \* "open", then "accepted" or "rejected"

sdkVars == <<lang, stack, guarded, macros, runtimeApi, leaked, events, verdict>>

SdkInit ==
    /\ lang \in {"cuda", "host"}
    /\ stack = <<[file |-> "predefines", lost |-> FALSE]>>
    /\ guarded = {}
    /\ macros = [n \in AllNames |->
                    IF n = Condition /\ lang = "cuda" THEN [Undefined EXCEPT !.is = TRUE, !.lost = TRUE]
                    ELSE Undefined]
    /\ runtimeApi = [sdkFiles |-> {}, sdkMacros |-> {}, depends |-> [n \in AllNames |-> {}],
                paste |-> {}, uses |-> {}, tokens |-> {}, roots |-> FALSE, admitted |-> FALSE,
                boundaryFailed |-> FALSE, identityFailure |-> FALSE]
    /\ leaked = FALSE
    /\ events = 0
    /\ verdict = "open"

Top == Head(stack).file

Owned(f) == f = "wrapper"

\* The file's text reaches the output, so auditCudaRuntimeApiSurface reads it.
Retained(f) == f \notin runtimeApi.sdkFiles /\ ~Owned(f) /\ f # "predefines"

\* What is recorded is never taken back: an input the audit must refuse whatever
\* follows is not continued.
Step ==
    /\ verdict = "open" /\ ~runtimeApi.boundaryFailed /\ ~runtimeApi.identityFailure
    /\ \A t \in runtimeApi.tokens : t.name # "##" /\ (t.name = Condition => ~t.directive)
    /\ events < MaxEvents /\ events' = events + 1

\* The audit refuses a unit without the include, whatever its last line says.
TextStep == Step /\ (events = MaxEvents - 1 => runtimeApi.admitted)

-----------------------------------------------------------------------------
(* Files.                                                                  *)

\* FileChanged, sdkRole: a registered file of the configured SDK, guarded by an SDK
\* file, by the compiler's own wrapper, as the runtime API itself, or (host input)
\* as the direct literal root the main file names.
SdkRole(f, parent, root) ==
    /\ f \in SdkRoles
    /\ \/ lang = "host" /\ f = "cuda_runtime.h" /\ root
       \/ f = "cuda_runtime_api.h"
       \/ parent \in runtimeApi.sdkFiles
       \/ Owned(parent)

\* FileChanged on entering f.  real: the parsed bytes are those of the physical file.
\* The text of an SDK header that is not recognised is audited like the caller's.
EnterFile(a, f, parent, root, real) ==
    IF SdkRole(f, parent, root)
    THEN IF real THEN [a EXCEPT !.sdkFiles = @ \cup {f}]
                 ELSE [a EXCEPT !.identityFailure = TRUE]
    ELSE IF f \in SdkRoles
         THEN [a EXCEPT !.tokens = @ \cup {[name |-> Condition, directive |-> TRUE, native |-> FALSE]}]
    ELSE a

\* InclusionDirective.  written: the file the spelling names; plain: a literal
\* #include of it, outside every conditional or (a planned header of its own) only
\* inside the header's complete outer guard.  A file the SDK or the wrapper names must be the
\* SDK's; the main file must name the runtime API directly and unconditionally.
InclusionDirective(a, written, f, plain, parent) ==
    LET swapped == (parent \in a.sdkFiles \/ Owned(parent)) /\ written \in SdkRoles /\ f # written
        b == [a EXCEPT !.identityFailure = @ \/ swapped]
    IN  IF parent # "main" THEN b
        ELSE CASE written = "cuda_runtime.h" ->
                    [b EXCEPT !.roots = @ \/ (lang = "host" /\ plain /\ f = written)]
               [] written = "cuda_runtime_api.h" ->
                    IF plain /\ f = written THEN [b EXCEPT !.admitted = TRUE]
                    ELSE [b EXCEPT !.boundaryFailed = TRUE]
               [] OTHER -> b

\* The main file's includes of SDK headers are rewritten by CUDA_INCLUDE_MAP.
LostInOutput(f, parent) ==
    Head(stack).lost \/ Owned(f) \/ (parent = "main" /\ f \in {"cuda_runtime.h", "cuda_runtime_api.h"})

Include(written, f, plain, real) ==
    /\ Step
    /\ Top \notin {"predefines", "native.h"} /\ Len(stack) < 4
    /\ f \in {written, "shadow.h"} /\ written # "shadow.h"
    /\ ~plain => Top = "main"
    /\ ~real => f \in SdkRoles
    /\ (Top \in SdkRoles \/ Owned(Top)) => written \in SdkRoles \cup {"native.h"}
    /\ LET said == InclusionDirective(runtimeApi, written, f, plain, Top)
           root == plain /\ said.roots /\ Top = "main"
       IN  IF f \in guarded
           THEN runtimeApi' = said /\ UNCHANGED <<stack, guarded>>
           ELSE /\ runtimeApi' = EnterFile(said, f, Top, root, real)
                /\ stack' = <<[file |-> f, lost |-> LostInOutput(f, Top)]>> \o stack
                /\ guarded' = guarded \cup {f}
    /\ UNCHANGED <<lang, macros, leaked, verdict>>

\* The end of a file.  The predefines of a CUDA compilation include the wrapper.
Leave ==
    /\ verdict = "open"
    /\ Top # "main"
    /\ stack' = CASE Top = "predefines" /\ lang = "cuda" -> <<[file |-> "wrapper", lost |-> TRUE]>>
                  [] Top = "wrapper" \/ (Top = "predefines" /\ lang # "cuda") -> <<[file |-> "main", lost |-> FALSE]>>
                  [] OTHER -> Tail(stack)
    /\ UNCHANGED <<lang, guarded, macros, runtimeApi, leaked, events, verdict>>

-----------------------------------------------------------------------------
(* Macros.                                                                 *)

\* What the raw lexer will find when the audit reads this line.
Tokens(names, directive) ==
    IF Retained(Top)
    THEN {[name |-> n, directive |-> directive, native |-> Top = "native.h"] : n \in names}
    ELSE {}

\* MacroDefined.  What the SDK takes from the C library the compat header takes too,
\* so only the SDK's own definitions are lost.  A definition outside the SDK is remembered with what it mentions.
Define(n, body, paste) ==
    /\ TextStep
    /\ Top # "wrapper"
    /\ Top = "native.h" => body = {} /\ ~paste
    /\ macros' = [macros EXCEPT ![n] = [is |-> TRUE, body |-> body, paste |-> paste,
                                        lost |-> Head(stack).lost /\ Top \in SdkRoles, file |-> Top]]
    /\ runtimeApi' = IF Top \in runtimeApi.sdkFiles
                THEN [runtimeApi EXCEPT !.sdkMacros = @ \cup {n}]
                ELSE [runtimeApi EXCEPT !.depends[n] = @ \cup body,
                                   !.paste = IF paste THEN @ \cup {n} ELSE @,
                                   !.tokens = @ \cup Tokens({n} \cup body, TRUE)
                                                \cup Tokens(IF paste THEN {"##"} ELSE {}, TRUE)]
    /\ UNCHANGED <<lang, stack, guarded, leaked, verdict>>

\* MacroUndefined.
Undefine(n) ==
    /\ TextStep
    /\ Top \notin {"wrapper", "predefines", "native.h"}
    /\ macros[n].is
    /\ macros' = [macros EXCEPT ![n] = Undefined]
    /\ runtimeApi' = [runtimeApi EXCEPT !.tokens = @ \cup Tokens({n}, TRUE)]
    /\ UNCHANGED <<lang, stack, guarded, leaked, verdict>>

\* The names the preprocessor expands for n, when a ## among them forms `formed`.
Expansion(n, formed) ==
    LET step(S) == S \cup (UNION {macros[m].body : m \in {x \in S : macros[x].is}})
                     \cup (IF \E m \in S : macros[m].is /\ macros[m].paste THEN {formed} ELSE {})
        closure[k \in 0 .. Cardinality(AllNames)] == IF k = 0 THEN {n} ELSE step(closure[k - 1])
    IN  {m \in closure[Cardinality(AllNames)] : macros[m].is}

\* What a header of the C library may name: its macros are older than CUDA's, and the
\* flags that a command line sets for it stand for themselves.
NativeName(n) ==
    /\ n \notin Admitted
    /\ macros[n].file = "predefines" => macros[n].body = {} /\ ~macros[n].paste

\* A use in the text of a retained file: in code, in #if or in #ifdef.  MacroExpands
\* (observeCudaRuntimeApiMacroUse) hears of every name that is expanded; a renamed
\* token of the code is rewritten, so the output does not look it up.
Use(n, kind, formed) ==
    /\ TextStep
    /\ Retained(Top)
    /\ Top = "native.h" => NativeName(n)
    /\ formed # n => \E m \in Expansion(n, n) : macros[m].paste
    /\ LET expanded == IF kind = "ifdef" THEN {} ELSE Expansion(n, formed)
           looked == IF kind = "ifdef" THEN {m \in {n} : macros[m].is} ELSE expanded
           rewritten == kind = "code" /\ n \in Admitted
       IN  /\ runtimeApi' = [runtimeApi EXCEPT !.uses = @ \cup expanded,
                                     !.tokens = @ \cup Tokens({n}, kind # "code")]
           /\ leaked' = (leaked \/ (~Head(stack).lost /\ ~rewritten
                                      /\ \E m \in looked : macros[m].lost))
    /\ UNCHANGED <<lang, stack, guarded, macros, verdict>>

-----------------------------------------------------------------------------
(* auditCudaRuntimeApiSurface.                                             *)

\* unprovedRetainedMacros: what mentions an SDK macro, a compiler condition or ##,
\* however many definitions away.
UnprovedRetained ==
    LET seeds == runtimeApi.paste \cup runtimeApi.sdkMacros
                   \cup {n \in {Condition} : \E m \in AllNames : n \in runtimeApi.depends[m]}
        taint[k \in 0 .. Cardinality(AllNames)] ==
            IF k = 0 THEN seeds
            ELSE taint[k - 1] \cup {m \in AllNames : runtimeApi.depends[m] \cap taint[k - 1] # {}}
    IN  taint[Cardinality(AllNames)]

\* Mutant: only the compiler's own names count, not the macros the SDK defines.
ObservesCompiler(n, directive) == n = Condition /\ (directive \/ n \notin Admitted)

\* A name of the SDK or of the compiler is admitted only where it is rewritten.
ObservesSdk(n, directive) ==
    n \in runtimeApi.sdkMacros \cup {Condition} /\ (directive \/ n \notin Admitted)

SurfaceAdmitted ==
    /\ ~runtimeApi.identityFailure
    /\ \A n \in runtimeApi.uses : ~ObservesSdk(n, FALSE)
    /\ \A t \in runtimeApi.tokens :
          /\ ~ObservesSdk(t.name, t.directive)
          /\ ~t.native => /\ t.name # "##"
                          /\ t.name \in UnprovedRetained => ~t.directive /\ t.name \in Admitted

\* EndSourceFileAction, once the parse is over.
Audit ==
    /\ verdict = "open" /\ Top = "main"
    /\ verdict' = IF runtimeApi.admitted /\ ~runtimeApi.boundaryFailed /\ SurfaceAdmitted
                  THEN "accepted" ELSE "rejected"
    /\ UNCHANGED <<lang, stack, guarded, macros, runtimeApi, leaked, events>>

SdkNext ==
    \/ \E written \in Headers, f \in Headers, plain \in BOOLEAN, real \in BOOLEAN :
          Include(written, f, plain, real)
    \/ Leave
    \/ \E n \in Names, body \in {{}} \cup {{m} : m \in AllNames}, paste \in BOOLEAN : Define(n, body, paste)
    \/ \E n \in Names : Undefine(n)
    \/ \E n \in AllNames, kind \in {"code", "if", "ifdef"}, formed \in AllNames : Use(n, kind, formed)
    \/ Audit

SdkSpec == SdkInit /\ [][SdkNext]_sdkVars

-----------------------------------------------------------------------------
\* auditCudaRuntimeApiSurface: a translation unit whose runtime-API include is
\* replaced never let its retained text, in any file and through any chain of
\* macros, observe a definition of a header that is gone.
SdkRemovalInvisible == verdict = "accepted" => ~leaked
=============================================================================
