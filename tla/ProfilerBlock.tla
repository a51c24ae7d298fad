--------------------------- MODULE ProfilerBlock ---------------------------
(***************************************************************************)
(* The profiler availability block of a source:                            *)
(*                                                                         *)
(*   #if __has_include(<cuda_profiler_api.h>)                              *)
(*   #include <cuda_profiler_api.h>                                        *)
(*   #define FLAG 1                                                        *)
(*   #endif                                                                *)
(*                                                                         *)
(* In the output the header is acl/acl_prof.h.  AscifyAction rewrites the  *)
(* probe as well, but only after the callbacks HasInclude, If,             *)
(* InclusionDirective, FileChanged and Endif saw the block happen as it is *)
(* written and nothing else could notice (sealProfilerAvailabilityProof,   *)
(* auditCudaProfilerApiSurface).                                           *)
(*                                                                         *)
(* The main file is a sequence of lines, of these kinds.                   *)
(***************************************************************************)
EXTENDS Integers, Sequences, FiniteSets

CONSTANT Texts          \* the main files tried, sequences of line kinds

LineKinds ==
    {"if",          \* #if __has_include(<cuda_profiler_api.h>), alone on its line
     "elif",        \* the same probe in another shape: #elif, || X, a macro's argument
     "include",     \* #include <cuda_profiler_api.h>
     "flag",        \* #define FLAG 1
     "else", "endif",
     "ifdef",       \* #ifdef FLAG ... #endif on the lines of one use
     "value",       \* FLAG as a value
     "undef",       \* #undef FLAG
     "probe",       \* #define __has_include(x) ...
     "hash line"}   \* #line, or __LINE__

ASSUME TextsAssumption == \A t \in Texts : t \in Seq(LineKinds)

VARIABLES
    text, sdk,      \* the input; does the SDK's header exist with the frozen bytes
    at,             \* the next line
    taken,          \* the open conditionals, innermost first: is this branch read
    flag, hooked,   \* the preprocessor: FLAG is defined, __has_include is a macro
    entered,        \* cuda_profiler_api.h was entered, so its guard is defined
    cand,           \* profilerAvailabilityCandidates
    profiler,       \* the other members
    saw,            \* what each line that looks at FLAG saw
    result          \* "reading", "accepted", "rejected"

profilerVars == <<text, sdk, at, taken, flag, hooked, entered, cand, profiler, saw, result>>

Line(i) == IF i \in DOMAIN text THEN text[i] ELSE "end"

ProfilerInit ==
    /\ text \in Texts
    /\ sdk \in {"frozen", "other", "absent"}
    /\ at = 1
    /\ taken = << >>
    /\ flag = FALSE /\ hooked = FALSE /\ entered = FALSE
    /\ cand = << >>
    /\ profiler = [failed |-> FALSE, modified |-> FALSE, position |-> FALSE, defs |-> 0, undefs |-> 0,
                admitted |-> FALSE, boundaryFailed |-> FALSE]
    /\ saw = << >>
    /\ result = "reading"

Live == \A i \in DOMAIN taken : taken[i].live
Depth == Len(taken)

\* What the probe answers: an SDK header of any contents exists, unless the caller's
\* own __has_include decides.
Probe == IF hooked THEN BOOLEAN ELSE {sdk # "absent"}

\* isPhysicalCudaProfilerHeader: the configured SDK's file with the frozen size and hash.
Physical == sdk = "frozen"

Reads(kind) == result = "reading" /\ Line(at) = kind /\ at' = at + 1

Quiet == UNCHANGED <<flag, hooked, entered, cand, profiler>>

-----------------------------------------------------------------------------
\* If, the look ahead: include, at most one definition of a fresh flag, #endif,
\* and a line after it.
BlockShape(i) ==
    /\ Line(i + 1) = "include"
    /\ \/ Line(i + 2) = "endif" /\ Line(i + 3) # "end"
       \/ Line(i + 2) = "flag" /\ Line(i + 3) = "endif" /\ Line(i + 4) # "end"
               /\ profiler.defs = 0 /\ profiler.undefs = 0 /\ ~flag

\* HasInclude and If for the plain form of the probe.  Only the first one, outside
\* every conditional, whose lookup was the physical header and succeeded.
ReadIf ==
    /\ Reads("if")
    /\ IF ~Live THEN taken' = <<[at |-> at, live |-> FALSE]>> \o taken /\ Quiet
       ELSE \E yes \in Probe :
          /\ taken' = <<[at |-> at, live |-> yes]>> \o taken
          /\ IF cand = << >> /\ Depth = 0 /\ yes /\ ~hooked /\ Physical /\ BlockShape(at)
             THEN /\ cand' = <<[at |-> at, named |-> Line(at + 2) = "flag",
                                included |-> FALSE, mapped |-> FALSE,
                                sdkEntered |-> FALSE, endif |-> FALSE]>>
                  /\ UNCHANGED profiler
             ELSE profiler' = [profiler EXCEPT !.failed = TRUE] /\ UNCHANGED cand
          /\ UNCHANGED <<flag, hooked, entered>>
    /\ UNCHANGED <<text, sdk, saw, result>>

\* The probe in any other place: no callback of the block, only the raw tokens.
ReadElif ==
    /\ Reads("elif")
    /\ \E yes \in Probe : taken' = <<[at |-> at, live |-> Live /\ yes]>> \o taken
    /\ Quiet
    /\ UNCHANGED <<text, sdk, saw, result>>

\* InclusionDirective, then FileChanged or FileSkipped.  CUDA_INCLUDE_MAP rewrites
\* the name; other: another semantic edit already holds the place.
ReadInclude ==
    /\ Reads("include")
    /\ IF ~Live \/ sdk = "absent" THEN Quiet
       ELSE LET mine == cand # << >> /\ Depth = 1 /\ cand[1].at + 1 = at /\ ~cand[1].included
                skipped == cand # << >> /\ cand[1].at + 1 = at /\ entered
                ok == (Depth = 0 \/ mine) /\ Physical
            IN  \E mapped \in BOOLEAN :
                  /\ profiler' = [profiler EXCEPT !.admitted = @ \/ ok, !.boundaryFailed = @ \/ ~ok,
                                            !.failed = @ \/ skipped]
                  /\ cand' = IF mine
                             THEN <<[cand[1] EXCEPT !.included = TRUE, !.mapped = ok /\ mapped,
                                                    !.sdkEntered = ok /\ ~entered]>>
                             ELSE cand
                  /\ entered' = TRUE
                  /\ UNCHANGED <<flag, hooked>>
    /\ UNCHANGED <<text, sdk, taken, saw, result>>

\* Else.
ReadElse ==
    /\ Reads("else") /\ Depth > 0
    /\ taken' = [taken EXCEPT ![1].live = ~@]
    /\ profiler' = [profiler EXCEPT !.failed = @ \/ (cand # << >> /\ cand[1].at = taken[1].at)]
    /\ UNCHANGED <<text, sdk, flag, hooked, entered, cand, saw, result>>

\* Endif.
ReadEndif ==
    /\ Reads("endif") /\ Depth > 0
    /\ taken' = Tail(taken)
    /\ cand' = IF cand # << >> /\ cand[1].at = taken[1].at
               THEN <<[cand[1] EXCEPT !.endif = TRUE]>> ELSE cand
    /\ UNCHANGED <<text, sdk, flag, hooked, entered, profiler, saw, result>>

\* MacroDefined and MacroUndefined.
ReadDefine ==
    /\ \E k \in {"flag", "undef", "probe"} : Reads(k)
    /\ IF ~Live THEN Quiet
       ELSE /\ flag' = CASE Line(at) = "flag" -> TRUE [] Line(at) = "undef" -> FALSE [] OTHER -> flag
            /\ hooked' = (hooked \/ Line(at) = "probe")
            /\ profiler' = [profiler EXCEPT !.defs = IF Line(at) = "flag" THEN @ + 1 ELSE @,
                                      !.undefs = IF Line(at) = "undef" THEN @ + 1 ELSE @,
                                      !.modified = @ \/ Line(at) = "probe"]
            /\ UNCHANGED <<entered, cand>>
    /\ UNCHANGED <<text, sdk, taken, saw, result>>

\* A line that looks at FLAG or at its own position.
ReadUse ==
    /\ \E k \in {"ifdef", "value", "hash line"} : Reads(k)
    /\ saw' = IF Live /\ Line(at) # "hash line" THEN Append(saw, <<at, flag>>) ELSE saw
    /\ profiler' = [profiler EXCEPT !.position = @ \/ (Live /\ Line(at) = "hash line")]
    /\ UNCHANGED <<text, sdk, taken, flag, hooked, entered, cand, result>>

-----------------------------------------------------------------------------
\* sealProfilerAvailabilityProof.  The raw lines are all read again, skipped or not.
Sealed ==
    /\ ~profiler.failed /\ Len(cand) = 1 /\ ~profiler.modified /\ ~profiler.position /\ ~hooked
    /\ cand[1].included /\ cand[1].mapped /\ cand[1].sdkEntered /\ cand[1].endif
    /\ cand[1].named => flag /\ profiler.defs = 1 /\ profiler.undefs = 0
    /\ \A i \in DOMAIN text :
         /\ text[i] # "hash line"
         /\ cand[1].named /\ text[i] \in {"ifdef", "value", "undef", "flag"} /\ i # cand[1].at + 2
              => text[i] = "ifdef" /\ i > cand[1].at

\* Mutant: a probe that If never saw is not looked for in the text.
SurfaceCleanIfOnly == \A i \in DOMAIN text : text[i] = "if" => cand # << >> /\ i = cand[1].at

\* auditCudaProfilerApiSurface: no probe but the sealed one is left in the text.
SurfaceClean ==
    \A i \in DOMAIN text :
        /\ text[i] \notin {"elif", "probe"}
        /\ text[i] = "if" => cand # << >> /\ i = cand[1].at

Finish ==
    /\ result = "reading" /\ Line(at) = "end"
    /\ result' = IF /\ taken = << >>
                    /\ ~profiler.boundaryFailed
                    /\ (cand # << >> \/ profiler.failed) => Sealed
                    /\ profiler.admitted => SurfaceClean
                 THEN "accepted" ELSE "rejected"
    /\ UNCHANGED <<text, sdk, at, taken, flag, hooked, entered, cand, profiler, saw>>

ProfilerNext ==
    \/ ReadIf \/ ReadElif \/ ReadInclude \/ ReadElse \/ ReadEndif
    \/ ReadDefine \/ ReadUse \/ Finish

ProfilerSpec == ProfilerInit /\ [][ProfilerNext]_profilerVars

-----------------------------------------------------------------------------
(* The output, preprocessed where acl/acl_prof.h exists and CUDA does not: *)
(* the sealed probe is true, with an #error in the #else it got; every     *)
(* other probe of the CUDA header is false.                                *)

\* The line of the sealed probe, 0 when there is none.
Sealing == IF cand = << >> THEN 0 ELSE cand[1].at

\* Line i of the output of the lines t, with the sealed probe in line c.
OutputLine(t, c, s, i) ==
    LET live == \A k \in DOMAIN s.open : s.open[k]
    IN  CASE t[i] \in {"if", "elif"} -> [s EXCEPT !.open = <<i = c>> \o @]
          [] t[i] = "else" -> [s EXCEPT !.open = <<~Head(@)>> \o Tail(@)]
          [] t[i] = "endif" -> [s EXCEPT !.open = Tail(@)]
          [] t[i] = "flag" /\ live -> [s EXCEPT !.flag = TRUE]
          [] t[i] = "undef" /\ live -> [s EXCEPT !.flag = FALSE]
          [] t[i] \in {"ifdef", "value"} /\ live -> [s EXCEPT !.saw = Append(@, <<i, s.flag>>)]
          [] OTHER -> s

OutputStart == [open |-> << >>, flag |-> FALSE, saw |-> << >>]

OutputAfter(t, c) ==
    LET after[i \in 0 .. Len(t)] == IF i = 0 THEN OutputStart ELSE OutputLine(t, c, after[i - 1], i)
    IN  after

OutputFlag == OutputAfter(text, Sealing)[Len(text)].saw

\* sealProfilerAvailabilityProof, "cannot prove positive physical profiler
\* availability block": in an accepted source that included the profiler header,
\* every line that asks about the flag is read in the output with the same answer.
AvailabilityKept == result = "accepted" /\ profiler.admitted => OutputFlag = saw
=============================================================================
