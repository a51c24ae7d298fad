--------------------------- MODULE MCPreprocessor ---------------------------
(***************************************************************************)
(* The preprocessor proofs of AscifyAction for TLC.  `part' says which of  *)
(* them reads the input - the macros of the sample helpers, the runtime    *)
(* API boundary, the profiler block, the cooperative-groups projection,    *)
(* the pragmas, the packed records - and the others stay where they began: *)
(* in the code they keep separate members and only share the callbacks.    *)
(***************************************************************************)
EXTENDS HelperMacros, SdkBoundary, ProfilerBlock, CgProjection, PragmaAudit, PackedRecords

CONSTANTS MaxText,      \* bound: lines of an arbitrary main file
          MaxAround     \* bound: lines after a profiler block

VARIABLE part

mcVars == <<helperVars, sdkVars, profilerVars, cgVars, pragmaVars, packVars, part>>

UpTo(n, S) == UNION {[1 .. k -> S] : k \in 0 .. n}

Opens(t, i) == Cardinality({k \in 1 .. i : t[k] \in {"if", "elif"}})
                 - Cardinality({k \in 1 .. i : t[k] = "endif"})

Balanced(t) == /\ Opens(t, Len(t)) = 0
               /\ \A i \in DOMAIN t : Opens(t, i) >= 0 /\ (t[i] = "else" => Opens(t, i) > 0)

\* Every short balanced file, and every block with text before, in and after it.
MCTexts ==
    {t \in UpTo(MaxText, LineKinds) : Balanced(t)} \cup
    {t \in {p \o <<"if", "include">> \o b \o <<"endif">> \o s :
              p \in UpTo(1, LineKinds), b \in UpTo(1, LineKinds), s \in UpTo(MaxAround, LineKinds)} : Balanced(t)}

\* Every main file one line away from a packed region the class admits, with a line
\* before and after it, and two regions in a row.
Near(t) == {SubSeq(t, 1, i - 1) \o m \o SubSeq(t, i + d, Len(t)) :
               i \in 1 .. Len(t) + 1, d \in 0 .. 1, m \in UpTo(1, PackKinds)}

PackShapes == {p \o <<"open", "record">> \o f : p \in {<<>>, Prefix}, f \in {<<"reset">>, Footer}}

MCPackTexts ==
    {t \in {x \o s \o y : x \in UpTo(1, {"define", "push", "record"}), s \in UNION {Near(r) : r \in PackShapes},
                         y \in UpTo(1, {"pack4", "pop", "record"})}
           \cup {a \o b : a, b \in PackShapes} : Balanced(t)}

HelperIdle ==
    /\ lines = <<>> /\ table = Table0 /\ helper = "idle" /\ witness = "idle"
    /\ phase = "idle" /\ ready = FALSE /\ removed = FALSE

SdkIdle ==
    /\ lang = "host" /\ stack = <<>> /\ guarded = {} /\ macros = <<>> /\ runtimeApi = "idle"
    /\ leaked = FALSE /\ events = 0 /\ verdict = "idle"

ProfilerIdle ==
    /\ text = <<>> /\ sdk = "absent" /\ at = 1 /\ taken = <<>> /\ flag = FALSE /\ hooked = FALSE
    /\ entered = FALSE /\ cand = <<>> /\ profiler = "idle" /\ saw = <<>> /\ result = "idle"

CgIdle ==
    /\ setup = "idle" /\ disk = "idle" /\ entry = "idle" /\ control = "idle" /\ cg = "idle" /\ raw = {} /\ parted = {}
    /\ cgEvents = 0 /\ cgVerdict = "idle"

PragmaIdle ==
    /\ source = "idle" /\ tool = "idle" /\ where = "idle" /\ entries = 0 /\ trust = "none" /\ pending = FALSE
    /\ unsupported = FALSE /\ literal = {} /\ handling = "none" /\ touched = {} /\ closure = "idle"

PackIdle ==
    /\ packText = <<>> /\ line = 1 /\ cpp = "idle" /\ regions = <<>> /\ active = FALSE /\ failure = FALSE
    /\ unproven = FALSE /\ inserts = {} /\ packVerdict = "idle"

MCInit ==
    /\ part \in {"helper", "sdk", "profiler", "cg", "pragma", "pack"}
    /\ IF part = "helper" THEN HelperInit ELSE HelperIdle
    /\ IF part = "sdk" THEN SdkInit ELSE SdkIdle
    /\ IF part = "profiler" THEN ProfilerInit ELSE ProfilerIdle
    /\ IF part = "cg" THEN CgInit ELSE CgIdle
    /\ IF part = "pragma" THEN PragmaInit ELSE PragmaIdle
    /\ IF part = "pack" THEN PackInit ELSE PackIdle

MCNext ==
    \/ part = "helper" /\ HelperNext /\ UNCHANGED <<sdkVars, profilerVars, cgVars, pragmaVars, packVars, part>>
    \/ part = "sdk" /\ SdkNext /\ UNCHANGED <<helperVars, profilerVars, cgVars, pragmaVars, packVars, part>>
    \/ part = "profiler" /\ ProfilerNext /\ UNCHANGED <<helperVars, sdkVars, cgVars, pragmaVars, packVars, part>>
    \/ part = "cg" /\ CgNext /\ UNCHANGED <<helperVars, sdkVars, profilerVars, pragmaVars, packVars, part>>
    \/ part = "pragma" /\ PragmaNext /\ UNCHANGED <<helperVars, sdkVars, profilerVars, cgVars, packVars, part>>
    \/ part = "pack" /\ PackNext /\ UNCHANGED <<helperVars, sdkVars, profilerVars, cgVars, pragmaVars, part>>

MCSpec == MCInit /\ [][MCNext]_mcVars
=============================================================================
