---------------------------- MODULE HelperMacros ----------------------------
(***************************************************************************)
(* What AscifyAction's preprocessor callbacks learn about the macros of    *)
(* NVIDIA's sample helpers, and when it may drop the include of            *)
(* helper_cuda.h because of it.  helper_cuda.h defines checkCudaErrors and *)
(* (unless somebody did before) MAX and EXIT_WAIVED.  The retained text    *)
(* must mean the same once that include is replaced by a portable prefix,  *)
(* so every use of those macros is either rewritten, or proved to keep its *)
(* definition, or it vetoes the whole removal                              *)
(* (nvidiaSampleHelperUnsupportedMacroUse).                                *)
(*                                                                         *)
(* The input is a sequence of lines, each in the main file, in a local     *)
(* header of the plan ("local") or in some other retained header           *)
(* ("foreign").  The macro table is what Clang's preprocessor holds; the   *)
(* frozen helper files (helper_cuda.h, helper_string.h, helper_functions.h *)
(* and helper_image.h) are NVIDIA's, and enter with the macros the proofs  *)
(* say they contain.                                                       *)
(***************************************************************************)
EXTENDS Integers, Sequences, FiniteSets

CONSTANTS MaxLines      \* bound: lines of the input that touch these macros

ASSUME MaxLinesAssumption == MaxLines \in Nat

Places == {"main", "local", "foreign"}

\* A definition of MAX or EXIT_WAIVED: its tokens, the file and the line it is from.
\* "H" is helper_cuda.h's (a > b ? a : b), "I" helper_image.h's ((a > b) ? a : b).
None == [body |-> "none", file |-> "none", at |-> 0]

VARIABLES
    lines,      \* the lines read so far, each with what it saw of the macro table
    table,      \* the preprocessor's macros and the helper files it has entered
    helper,     \* the members of AscifyAction the callbacks write
    witness,    \* directImageWitness
    phase,      \* "reading", "proved" (rewriteProvenNvidiaSampleHelperMacros ran), "end"
    ready,      \* nvidiaSampleHelperReadyToCommit
    removed     \* the include was replaced

helperVars == <<lines, table, helper, witness, phase, ready, removed>>

Table0 == [max |-> None, waived |-> None, check |-> FALSE, published |-> FALSE,
           entered |-> {}, imageBy |-> "none"]

HelperInit ==
    /\ lines = << >>
    /\ table = Table0
    /\ helper = [includes |-> {}, unsupported |-> FALSE, functionsSeen |-> FALSE,
                imageMaxSeen |-> FALSE, provider |-> None, callerOwns |-> FALSE,
                needed |-> FALSE, replay |-> FALSE, normal |-> {}, kept |-> {},
                text |-> {}, calls |-> {}, branches |-> {}]
    /\ witness = [cudaRoot |-> 0, cuda |-> FALSE, string |-> FALSE, imageRoot |-> 0,
                  image |-> FALSE, max |-> None, skipped |-> FALSE, requested |-> FALSE,
                  invalid |-> FALSE, meddled |-> FALSE]
    /\ phase = "reading"
    /\ ready = FALSE
    /\ removed = FALSE

Here == Len(lines) + 1

-----------------------------------------------------------------------------
(* The preprocessor: what entering a helper file does to the macro table.  *)
(* A file whose guard is defined is skipped.                               *)

Fallback(old, body, file, n) == IF old = None THEN [body |-> body, file |-> file, at |-> n] ELSE old

EnterString(t, n) ==
    IF "string" \in t.entered THEN t
    ELSE [t EXCEPT !.entered = @ \cup {"string"}, !.waived = Fallback(@, "2", "string", n)]

EnterImage(t, by, n) ==
    IF "image" \in t.entered THEN t
    ELSE EnterString([t EXCEPT !.entered = @ \cup {"image"}, !.imageBy = by,
                               !.max = Fallback(@, "I", "image", n),
                               !.waived = Fallback(@, "2", "image", n)], n)

EnterFunctions(t, by, n) ==
    IF "functions" \in t.entered THEN t
    ELSE EnterString(EnterImage([t EXCEPT !.entered = @ \cup {"functions"}], by, n), n)

EnterCuda(t, n) ==
    IF "cuda" \in t.entered THEN t
    ELSE LET u == EnterString(t, n)
         IN  [u EXCEPT !.entered = @ \cup {"cuda"}, !.check = TRUE,
                       !.waived = Fallback(@, "2", "cuda", n),
                       !.max = Fallback(@, "H", "cuda", n)]

-----------------------------------------------------------------------------
(* The audit of the helpers' own conditionals.                             *)

\* isDirectFrozenFunctionsImageProviderInstance: helper_image.h was entered by a
\* helper_functions.h that the main file itself includes.
FunctionsImage == table.imageBy = "main functions"

\* auditFrozenNvidiaSampleHelperMacroDependency: an #ifndef in helper_cuda.h or
\* helper_string.h finds the macro defined.  Only a definition of the frozen
\* graph itself, or the caller's preserved MAX, leaves the profile as it was frozen.
DependencyTrusted(name, d) ==
    \/ d = None
    \/ name = "MAX" /\ helper.needed /\ helper.callerOwns /\ d = helper.provider
    \/ d.file \in {"cuda", "string"}
    \/ helper.functionsSeen /\ d.file = "image" /\ FunctionsImage

OwnedPlace(place) == place \in {"main", "local"}

\* None of these is ever taken back: an input the closure must refuse whatever
\* follows is not continued.
Refused == \/ helper.unsupported \/ Cardinality(helper.includes) > 1
           \/ witness.requested /\ (witness.invalid \/ witness.meddled)

\* The bound keeps a line for the include: without it there is nothing to remove.
CanRead(place) ==
    /\ phase = "reading" /\ ~Refused /\ place \in Places
    /\ Len(lines) < IF helper.includes = {} THEN MaxLines - 1 ELSE MaxLines

CanReadLast == phase = "reading" /\ ~Refused /\ helper.includes = {} /\ Len(lines) = MaxLines - 1

Append1(what, place, sees) ==
    lines' = Append(lines, [do |-> what, in |-> place, sees |-> sees])

Veto == helper' = [helper EXCEPT !.unsupported = TRUE]

-----------------------------------------------------------------------------
(* #include of the helpers.                                                *)

\* A second helper_cuda.h in the main file, or one at all in another file, vetoes.
\* The witness notes the first one, and helper_string.h entered from it.
IncludeCuda(place) ==
    LET first == place = "main" /\ "cuda" \notin table.entered
        fresh == first /\ table.max = None
        trusted == DependencyTrusted("MAX", table.max) /\ DependencyTrusted("EXIT_WAIVED", table.waived)
        mine == [body |-> "H", file |-> "cuda", at |-> Here]
    IN  /\ CanRead(place) \/ (CanReadLast /\ place = "main")
        /\ table' = EnterCuda(table, Here)
        /\ Append1("include cuda", place, "nothing")
        /\ helper' = [helper EXCEPT
              !.includes = IF place = "main" THEN @ \cup {Here} ELSE @,
              !.unsupported = place # "main" \/ (first /\ ~trusted)
                                \/ (fresh /\ helper.provider # None),
              !.provider = IF fresh /\ @ = None THEN mine ELSE @]
        /\ witness' =
              IF place # "main" THEN witness
              ELSE IF witness.cudaRoot # 0 THEN [witness EXCEPT !.invalid = TRUE]
              ELSE [witness EXCEPT !.cudaRoot = Here, !.cuda = first,
                                   !.string = first /\ "string" \notin table.entered,
                                   !.invalid = @ \/ ~first]
        /\ UNCHANGED <<phase, ready, removed>>

\* requestDirectImageMaxReplay: the one MAX of a helper_image.h the main file
\* includes after helper_cuda.h uses helper_cuda.h's MAX, which must be replayed.
Requestable(w) ==
    /\ w.image /\ ~w.invalid /\ ~w.requested /\ w.skipped
    /\ w.max # None /\ table.max = w.max /\ helper.provider = w.max /\ ~helper.callerOwns

\* MacroExpands for the MAX inside helper_image.h, just entered with the table t.
ImageUsesMax(a, w, t) ==
    LET byFunctions == a.functionsSeen /\ t.imageBy = "main functions"
        proved == w.requested /\ ~w.invalid /\ w.image /\ t.max = w.max
        b == IF w.requested THEN [a EXCEPT !.needed = TRUE, !.replay = TRUE] ELSE a
    IN  IF b.needed
        THEN IF t.max = b.provider /\ (byFunctions \/ proved)
             THEN [b EXCEPT !.replay = @ \/ ~b.callerOwns]
             ELSE [b EXCEPT !.unsupported = TRUE]
        ELSE IF t.max.file # "cuda" THEN b
        ELSE IF byFunctions THEN [b EXCEPT !.imageMaxSeen = TRUE]
        ELSE [b EXCEPT !.unsupported = TRUE]

\* helper_functions.h: only a direct include of the main file is a root whose
\* helper_image.h may provide macros, and only where the file is first seen.
IncludeFunctions(place) ==
    LET direct == place = "main"
        enters == "functions" \notin table.entered
        images == enters /\ "image" \notin table.entered
        seen == [helper EXCEPT !.functionsSeen = @ \/ (enters /\ direct)]
        t == EnterFunctions(table, IF direct THEN "main functions" ELSE "functions", Here)
    IN  /\ CanRead(place)
        /\ table' = t
        /\ helper' = IF images THEN ImageUsesMax(seen, witness, t) ELSE seen
        /\ Append1("include functions", place, IF images THEN t.max.body ELSE "nothing")
        /\ UNCHANGED <<witness, phase, ready, removed>>

\* observeDirectImageInclude and observeDirectImageEntry for helper_image.h in the
\* main file, once helper_cuda.h was entered: MAX must be that file's at this point,
\* and helper_string.h must be skipped inside because helper_cuda.h brought it.
WatchImage(w) ==
    IF ~w.cuda \/ w.imageRoot # 0 THEN w
    ELSE LET enters == "image" \notin table.entered
             exact == table.max # None /\ table.max = helper.provider
                        /\ ~helper.callerOwns /\ table.max.file = "cuda"
         IN  [w EXCEPT !.imageRoot = Here, !.image = enters,
                       !.max = IF exact THEN table.max ELSE @,
                       !.skipped = enters /\ w.string,
                       !.invalid = @ \/ ~exact \/ (enters /\ ~w.string)]

IncludeImage(place) ==
    LET enters == "image" \notin table.entered
        w == IF place = "main" THEN WatchImage(witness) ELSE witness
        x == [w EXCEPT !.requested = @ \/ (enters /\ Requestable(w))]
        t == EnterImage(table, place, Here)
    IN  /\ CanRead(place)
        /\ table' = t
        /\ witness' = x
        /\ helper' = IF enters THEN ImageUsesMax(helper, x, t) ELSE helper
        /\ Append1("include image", place, IF enters THEN t.max.body ELSE "nothing")
        /\ UNCHANGED <<phase, ready, removed>>

-----------------------------------------------------------------------------
(* MAX in the input's own text.                                            *)

\* #define, #undef, #ifdef or defined(...) of an observable macro, and a pragma
\* that pushes or pops one (MacroDefined, auditExternalNvidiaSampleHelperPreprocessorUse,
\* PragmaDirective).
ControlMax(place, what) ==
    /\ CanRead(place)
    /\ what \in {"define", "undef", "ask", "push_macro"}
    /\ table' = [table EXCEPT !.max = CASE what = "define" -> [body |-> "D", file |-> place, at |-> Here]
                                        [] what = "undef" -> None
                                        [] OTHER -> @]
    /\ Append1(what, place, IF what = "ask" THEN table.max.body ELSE "nothing")
    /\ Veto
    /\ UNCHANGED <<witness, phase, ready, removed>>

\* admitFrozenHelperMaxFallback: helper_image.h will define MAX where helper_cuda.h
\* did, so this #ifndef MAX keeps finding it defined.
AdmitFrozenFallback(place, body) ==
    place = "main" /\ body = "H" /\ helper.imageMaxSeen /\ table.max.file = "cuda"

\* recordPreservedMaxFallback, and recordPreservedMaxDefinition when the fallback is
\* the one that defines MAX: the members after an admitted three-line fallback, or {}.
\* The provider then is the caller's own definition; a second macro epoch is refused.
RecordFallback(place) ==
    IF ~OwnedPlace(place) THEN {}
    ELSE IF table.max = None
         THEN IF helper.provider = None
              THEN {[helper EXCEPT !.provider = [body |-> "none", file |-> place, at |-> Here],
                                  !.callerOwns = TRUE, !.needed = TRUE]}
              ELSE {}
    ELSE LET frozen == table.max.file = "cuda"
         IN  IF (frozen \/ (helper.callerOwns /\ helper.provider = table.max))
                /\ helper.provider \in {None, table.max}
             THEN {[helper EXCEPT !.provider = table.max, !.needed = TRUE, !.replay = @ \/ frozen]}
             ELSE {}

\* #ifndef MAX / #define MAX(a, b) ... / #endif
FallbackMax(place, body) ==
    /\ CanRead(place)
    /\ body \in {"H", "I"}
    /\ table' = [table EXCEPT !.max = Fallback(@, body, place, Here)]
    /\ Append1(IF body = "H" THEN "fallback H" ELSE "fallback I", place, "nothing")
    /\ \/ /\ AdmitFrozenFallback(place, body)
          /\ helper' = [helper EXCEPT !.normal = @ \cup {Here}]
       \/ /\ ~AdmitFrozenFallback(place, body)
          /\ \E a \in RecordFallback(place) :
                helper' = [a EXCEPT !.normal = @ \cup {Here},
                                   !.provider = IF @.body = "none" THEN table'.max ELSE @]
       \/ /\ ~AdmitFrozenFallback(place, body)
          /\ RecordFallback(place) = {}
          /\ Veto
    /\ UNCHANGED <<witness, phase, ready, removed>>

\* How a use of MAX is written: with plain arguments, with an argument that is a
\* macro or a CUDA name, or inside the arguments of another macro.
Styles == {"use plain", "use odd", "use inside"}

\* admitPreservedMaxExpansion: a retained use of the preserved definition.
KeepUse(place, style) ==
    IF table.max = helper.provider /\ OwnedPlace(place) /\ style # "use odd"
    THEN [helper EXCEPT !.kept = @ \cup {Here}, !.normal = @ \cup {Here},
                       !.replay = @ \/ ~helper.callerOwns]
    ELSE [helper EXCEPT !.unsupported = TRUE]

\* MacroExpands for MAX: a use whose definition must survive, a use of
\* helper_cuda.h's definition that is replaced by its expansion, or a veto.
UseMax(place, style) ==
    /\ CanRead(place) /\ style \in Styles
    /\ Append1(style, place, table.max.body)
    /\ helper' = IF table.max = None THEN helper
                ELSE IF helper.needed THEN KeepUse(place, style)
                ELSE IF table.max.file # "cuda" THEN helper
                ELSE IF place = "main" /\ style # "use odd"
                     THEN [helper EXCEPT !.text = @ \cup {Here}, !.normal = @ \cup {Here}]
                ELSE [helper EXCEPT !.unsupported = TRUE]
    /\ UNCHANGED <<table, witness, phase, ready, removed>>

\* A token MAX the preprocessor reports to nobody: in the body of a macro that is
\* never expanded.
MentionMax(place) ==
    /\ CanRead(place)
    /\ Append1("mention", place, table.max.body)
    /\ UNCHANGED <<table, helper, witness, phase, ready, removed>>

-----------------------------------------------------------------------------
(* The other macros of helper_cuda.h and those the compat header publishes.*)

\* checkCudaErrors or getLastCudaError: a direct use in the main file becomes a
\* candidate for rewriting, any other use of the macro vetoes.
UseCheck(place, wrapped) ==
    /\ CanRead(place) /\ wrapped \in BOOLEAN
    /\ Append1("check", place, IF table.check THEN "helper" ELSE "none")
    /\ helper' = IF ~table.check THEN helper
                ELSE IF place = "main" /\ ~wrapped
                     THEN [helper EXCEPT !.calls = @ \cup {Here}, !.normal = @ \cup {Here}]
                ELSE [helper EXCEPT !.unsupported = TRUE]
    /\ UNCHANGED <<table, witness, phase, ready, removed>>

\* recordInactiveNvidiaSampleHelperBranch, proveSkippedNvidiaSampleHelperBranch:
\* #ifdef NAME with a plain undefined name, skipped, with a helper macro inside.
SkipBranch(name) ==
    /\ CanRead("main") /\ name \in {"idle MAX", "idle check"}
    /\ Append1(name, "main", IF name = "idle MAX" THEN table.max.body
                             ELSE IF table.check THEN "helper" ELSE "none")
    /\ helper' = [helper EXCEPT !.branches = IF helper.includes # {} THEN @ \cup {Here} ELSE @]
    /\ UNCHANGED <<table, witness, phase, ready, removed>>

\* EXIT_WAIVED keeps its value through helper_string.h, so a use of a helper's
\* definition is left alone in the main file.
UseWaived(place) ==
    /\ CanRead(place)
    /\ Append1("waived", place, table.waived.body)
    /\ helper' = IF place = "main" /\ (table.waived.file \in {"cuda", "string"}
                      \/ (helper.functionsSeen /\ table.waived.file = "image" /\ FunctionsImage))
                THEN [helper EXCEPT !.normal = @ \cup {Here}]
                ELSE IF place # "main" /\ table.waived.file = "cuda"
                THEN [helper EXCEPT !.unsupported = TRUE]
                ELSE helper
    /\ UNCHANGED <<table, witness, phase, ready, removed>>

\* #ifdef of a macro the compat header publishes.
AskPublished(place) ==
    /\ CanRead(place)
    /\ Append1("published", place, IF table.published THEN "defined" ELSE "none")
    /\ helper' = [helper EXCEPT !.unsupported = helper.includes # {}]
    /\ UNCHANGED <<table, witness, phase, ready, removed>>

\* recordDirectImageUtilityControl, observeDirectImageUtilityMacro: the input
\* names a guard of the helpers or EXIT_FAILURE in a directive of its own.
NameUtility(place) ==
    /\ CanRead(place)
    /\ Append1("utility", place, "nothing")
    /\ witness' = [witness EXCEPT !.meddled = TRUE]
    /\ UNCHANGED <<table, helper, phase, ready, removed>>

-----------------------------------------------------------------------------
(* The end of the parse, the raw pass over the text, and the transaction.  *)

\* sealDirectImageUtility: nobody touched the guards of the skipped helper_string.h.
UtilitySealed == ~witness.meddled /\ witness.skipped

\* sealDirectImageWitness: nothing the replayed MAX of helper_image.h rests on
\* changed after it was seen.
WitnessSealed ==
    witness.requested =>
        /\ ~witness.invalid /\ UtilitySealed
        /\ helper.includes = {witness.cudaRoot}
        /\ table.max = witness.max /\ helper.provider = witness.max

MaxLine(l) == l.do \in {"use plain", "use odd", "use inside", "mention", "fallback H", "fallback I",
                        "idle MAX", "define", "undef", "ask", "push_macro"}

\* auditRawPreservedMaxTokens over the main file and every retained file.
RawMaxClean == \A n \in DOMAIN lines : MaxLine(lines[n]) => n \in helper.normal

\* provePreservedMaxFinalState: the preserved definition is still the active one,
\* it survives the removal, and nobody looks at a kept use's text.
PreservedMaxSealed ==
    helper.needed =>
        /\ helper.provider # None /\ table.max = helper.provider
        /\ helper.callerOwns => ~helper.replay
        /\ ~helper.callerOwns => helper.replay /\ helper.provider.file = "cuda"
        /\ \A n \in helper.kept : lines[n].do # "use inside"
        /\ RawMaxClean

\* rewriteProvenNvidiaSampleHelperMacros; without the include nothing follows.  Whether every candidate's argument is a
\* proved status is a fact of the AST.
ProveHelperMacros ==
    /\ phase = "reading" /\ helper.includes # {}
    /\ phase' = "proved"
    /\ \E proven \in (IF helper.calls = {} THEN {TRUE} ELSE BOOLEAN) :
          ready' = (/\ proven /\ WitnessSealed /\ PreservedMaxSealed
                    /\ Cardinality(helper.includes) = 1 /\ ~helper.unsupported)
    /\ UNCHANGED <<lines, table, helper, witness, removed>>

\* Mutant: a helper name in text that was not compiled is not looked at.
RawTokenAdmittedInactive(n) == TRUE

\* auditRawNvidiaSampleHelperToken: a helper name in the main file's raw text is
\* accounted for, or it is inside a skipped branch that gets an #error.
\* auditRawPublishedCompatTokensInFile: no retained file names a published macro.
RawTokenAdmitted(n) ==
    LET l == lines[n]
    IN  /\ l.do # "published"
        /\ l.in = "main" =>
             \/ n \in helper.normal \cup helper.branches
             \/ l.do \in {"include cuda", "include functions", "include image", "utility"}

\* The raw pass and finalizeNvidiaSampleHelperClosure.
FinalizeClosure ==
    /\ phase = "proved"
    /\ phase' = "end"
    /\ removed' = (/\ ready /\ WitnessSealed /\ PreservedMaxSealed
                   /\ \A n \in DOMAIN lines : RawTokenAdmitted(n)
                   /\ \A n \in helper.text : lines[n].do # "use inside")
    /\ UNCHANGED <<lines, table, helper, witness, ready>>

-----------------------------------------------------------------------------
ReadLine ==
    \E place \in Places :
        \/ IncludeCuda(place)
        \/ IncludeFunctions(place)
        \/ IncludeImage(place)
        \/ \E what \in {"define", "undef", "ask", "push_macro"} : ControlMax(place, what)
        \/ \E body \in {"H", "I"} : FallbackMax(place, body)
        \/ \E style \in Styles : UseMax(place, style)
        \/ MentionMax(place)
        \/ \E wrapped \in BOOLEAN : UseCheck(place, wrapped)
        \/ UseWaived(place)
        \/ AskPublished(place)
        \/ NameUtility(place)

HelperNext ==
    \/ ReadLine
    \/ \E name \in {"idle MAX", "idle check"} : SkipBranch(name)
    \/ ProveHelperMacros
    \/ FinalizeClosure

-----------------------------------------------------------------------------
(* The output, preprocessed again.                                         *)

\* The text that replaces the include: the portable prefix, MAX if it must be
\* replayed, and the compat header if a rewritten call needs it.
EnterPrefix(t, n) ==
    LET u == EnterString(t, n)
    IN  [u EXCEPT !.waived = Fallback(@, "2", "prefix", n),
                  !.max = IF helper.needed /\ helper.replay THEN Fallback(@, "H", "prefix", n) ELSE @,
                  !.published = helper.calls # {}]

\* The macro table of the output after its first n lines.
OutputTable ==
    LET after[n \in 0 .. Len(lines)] ==
          IF n = 0 THEN Table0
          ELSE LET t == after[n - 1]
                   l == lines[n]
               IN  CASE l.do = "include cuda" -> EnterPrefix(t, n)
                     [] l.do = "include functions" -> EnterFunctions(t, l.in, n)
                     [] l.do = "include image" -> EnterImage(t, l.in, n)
                     [] l.do = "define" -> [t EXCEPT !.max = [body |-> "D", file |-> l.in, at |-> n]]
                     [] l.do = "undef" -> [t EXCEPT !.max = None]
                     [] l.do = "fallback H" -> [t EXCEPT !.max = Fallback(@, "H", l.in, n)]
                     [] l.do = "fallback I" -> [t EXCEPT !.max = Fallback(@, "I", l.in, n)]
                     [] OTHER -> t
    IN  after

\* What line n sees in the output.  Text the preprocessor skipped or never expanded
\* in the main file counts as well: another configuration of the build reads it,
\* unless the skipped branch got its #error.  Inside helper_image.h the two maximum macros
\* compute the same value, because their arguments are the file's own.
SeesTheSame(n) ==
    LET l == lines[n]
        before == OutputTable[n - 1]
        now == OutputTable[n]
    IN  CASE l.do \in {"use plain", "use odd", "use inside", "ask"} -> before.max.body = l.sees
          [] l.do \in {"include functions", "include image"} ->
                l.sees # "nothing" => now.max.body = l.sees \/ {now.max.body, l.sees} = {"H", "I"}
          [] l.do = "check" -> l.sees = "none"
          [] l.do = "mention" -> l.in = "main" => before.max.body = l.sees
          [] l.do = "idle MAX" -> n \in helper.branches \/ before.max.body = l.sees
          [] l.do = "idle check" -> n \in helper.branches \/ l.sees = "none"
          [] l.do = "waived" -> before.waived.body = l.sees
          [] l.do = "published" -> (before.published <=> l.sees = "defined")
          [] OTHER -> TRUE

\* finalizeNvidiaSampleHelperClosure: "include removed; portable surface retained".
\* When the include of helper_cuda.h is replaced, every line whose text stays sees
\* the macros it saw before, whatever the order of the includes, fallbacks and uses.
RemovalInvisible ==
    removed => \A n \in DOMAIN lines : n \in helper.text \cup helper.calls \/ SeesTheSame(n)
=============================================================================
