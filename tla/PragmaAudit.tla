---------------------------- MODULE PragmaAudit ----------------------------
(***************************************************************************)
(* What AscifyAction makes of the pragmas of a translation unit.  Taking   *)
(* helper_cuda.h away, or keeping a header in a joint transaction, is only *)
(* right when no pragma can save, restore or read a macro of the helper.   *)
(* PragmaDirective judges each one by its spelling; a pragma built by a    *)
(* macro of a system header stays pending until PragmaDiagnostic says it   *)
(* was a diagnostic one.  Which files are system files is decided by how   *)
(* each was first entered, and recordContextPragmaSource lists the files   *)
(* whose pragmas are literal.                                              *)
(*                                                                         *)
(* One header with up to two pragmas is entered once or twice, as a system *)
(* file or as the caller's, and the main file follows.                     *)
(***************************************************************************)
EXTENDS Integers, Sequences

CONSTANTS MaxHeaderPragmas, MaxMainPragmas  \* bounds

\* A pragma by what its line is.  Names a pragma stacks or reads are the helper's
\* ("seen") or not; "computed" is a stack operation whose target is not one literal.
HashPragmas == {"once", "unroll", "diagnostic", "visibility", "push_other", "push_seen",
                "push_computed", "read_seen", "vendor", "omp_parallel", "omp_variant", "pack"}
OperatorPragmas == {"op_diagnostic", "op_push_seen"}
PragmaLines == [kind : HashPragmas \cup OperatorPragmas, spelling : {"plain"}] \cup
               [kind : {"once", "push_seen"}, spelling : {"trigraph", "comment"}]

UpToPragmas(n) == UNION {[1 .. k -> PragmaLines] : k \in 0 .. n}

VARIABLES
    source,     \* the text of the header and of the main file
    tool,       \* OpenMP on; the header is the product's omp.h; PackedRecordBoundary owns the pack lines
    where,      \* the file being read and the next line
    entries,    \* how often the header was entered
    trust,      \* the header's identity: "none", "trusted", "untrusted"
    pending,    \* nvidiaSampleHelperPendingMacroGeneratedPragma
    unsupported,\* nvidiaSampleHelperUnsupportedMacroUse
    literal,    \* literalContextPragmaFiles
    handling,   \* the operator pragma whose handler has not run yet
    touched,    \* files with a pragma that stacked or read a macro of the helper
    closure     \* "open", then "removed" or "kept"

pragmaVars == <<source, tool, where, entries, trust, pending, unsupported, literal, handling, touched, closure>>

PragmaInit ==
    /\ source \in [header : UpToPragmas(MaxHeaderPragmas), main : UpToPragmas(MaxMainPragmas)]
    /\ tool \in [omp : BOOLEAN, native : BOOLEAN, pack : BOOLEAN]
    /\ where = [file |-> "main", line |-> 1]
    /\ entries = 0 /\ trust = "none"
    /\ pending = FALSE /\ unsupported = FALSE /\ literal = {} /\ handling = "none"
    /\ touched = {} /\ closure = "open"

-----------------------------------------------------------------------------
(* Files.                                                                  *)

\* recordContextPragmaSource: every pragma of the raw text is once (one at most),
\* unroll, or a pack line of a closed region, and none is built by an operator.
LiteralPragmas(text) ==
    /\ \A i \in DOMAIN text :
          /\ text[i].spelling = "plain"
          /\ text[i].kind \in {"once", "unroll"} \/ (text[i].kind = "pack" /\ tool.pack)
    /\ \A i, j \in DOMAIN text : text[i].kind = "once" /\ text[j].kind = "once" => i = j

\* FileChanged: the first entry of an identity decides for good whether it is a
\* trusted system file.
EnterHeader(asSystem) ==
    /\ closure = "open" /\ handling = "none" /\ where = [file |-> "main", line |-> 1] /\ entries < 2
    /\ where' = [file |-> "header", line |-> 1]
    /\ entries' = entries + 1
    /\ trust' = IF trust # "none" THEN trust ELSE IF asSystem THEN "trusted" ELSE "untrusted"
    /\ literal' = IF LiteralPragmas(source.header) THEN {"header"} ELSE {}
    /\ UNCHANGED <<source, tool, pending, unsupported, handling, touched, closure>>

LeaveHeader ==
    /\ handling = "none" /\ where.file = "header" /\ where.line > Len(source.header)
    /\ where' = [file |-> "main", line |-> 1]
    /\ UNCHANGED <<source, tool, entries, trust, pending, unsupported, literal, handling, touched, closure>>

InTrustedFile == where.file = "header" /\ trust = "trusted"

-----------------------------------------------------------------------------
(* One pragma.                                                             *)

\* finalizePendingNvidiaSampleHelperPragma: the operator pragma before this one was
\* never seen to be a diagnostic.
Settled == unsupported \/ pending

\* pragmaLineHasUnsafeMacroStackOperation.
UnsafeStack(p) == p.kind \in {"push_seen", "push_computed"}

\* pragmaLineContainsObservableIdentifier.
ObservesHelper(p) == p.kind = "read_seen"

\* Returns of PragmaDirective before the list of allowed pragmas.
OmpParallel(p) == tool.omp /\ p.kind = "omp_parallel" /\ where.file = "main"
OmpVariant(p) == tool.omp /\ tool.native /\ p.kind = "omp_variant" /\ where.file = "header"
OwnedPack(p) == tool.pack /\ p.kind = "pack"

\* isDirectlyAllowedHashPragma.
Allowed(p) == p.kind \in {"once", "unroll", "diagnostic", "push_other"} \/ (p.kind = "visibility" /\ InTrustedFile)

\* A trigraph or a block comment is refused before the line is read.
HashPragmaProven(p) ==
    /\ p.spelling = "plain"
    /\ ~UnsafeStack(p) /\ ~ObservesHelper(p)
    /\ OmpParallel(p) \/ OmpVariant(p) \/ OwnedPack(p) \/ Allowed(p)

\* Which pragmas may stack or read a macro of the helper; a vendor's may do anything.
MayTouchHelper(p) == p.kind \in {"push_seen", "push_computed", "read_seen", "vendor", "op_push_seen"}

This == source[where.file][where.line]

ReadPragma ==
    /\ closure = "open" /\ handling = "none" /\ where.line \in DOMAIN source[where.file]
    /\ where' = [where EXCEPT !.line = @ + 1]
    /\ touched' = IF MayTouchHelper(This) THEN touched \cup {where.file} ELSE touched

\* PragmaDirective for #pragma.
HashPragma ==
    /\ ReadPragma /\ This.kind \in HashPragmas
    /\ unsupported' = (Settled \/ ~HashPragmaProven(This))
    /\ pending' = FALSE
    /\ UNCHANGED <<source, tool, entries, trust, literal, handling, closure>>

\* Bug: an operator pragma forgets the pending one.
MutMacroPragma ==
    /\ ReadPragma /\ This.kind \in OperatorPragmas
    /\ unsupported' = (unsupported \/ ~InTrustedFile)
    /\ pending' = InTrustedFile
    /\ handling' = This.kind
    /\ UNCHANGED <<source, tool, entries, trust, literal, closure>>

\* PragmaDirective for _Pragma or __pragma.
MacroPragma ==
    /\ ReadPragma /\ This.kind \in OperatorPragmas
    /\ unsupported' = (Settled \/ ~InTrustedFile)
    /\ pending' = InTrustedFile
    /\ handling' = This.kind
    /\ UNCHANGED <<source, tool, entries, trust, literal, closure>>

\* Clang's own handler of the operator pragma, which calls PragmaDiagnostic for a
\* diagnostic one.
RunHandler ==
    /\ handling # "none" /\ handling' = "none"
    /\ pending' = (pending /\ handling # "op_diagnostic")
    /\ UNCHANGED <<source, tool, where, entries, trust, unsupported, literal, touched, closure>>

\* EndSourceFileAction settles the last pending pragma before the closure is decided.
DecideClosure ==
    /\ closure = "open" /\ handling = "none" /\ where.file = "main" /\ where.line > Len(source.main)
    /\ unsupported' = Settled /\ pending' = FALSE
    /\ closure' = IF Settled THEN "kept" ELSE "removed"
    /\ UNCHANGED <<source, tool, where, entries, trust, literal, handling, touched>>

PragmaNext ==
    \/ \E s \in BOOLEAN : EnterHeader(s)
    \/ LeaveHeader
    \/ HashPragma
    \/ MacroPragma
    \/ RunHandler
    \/ DecideClosure

PragmaSpec == PragmaInit /\ [][PragmaNext]_pragmaVars

-----------------------------------------------------------------------------
(* Properties.                                                             *)

\* The helper's edits are made only in a unit in which no pragma stacked or read a
\* macro of the helper, and a file listed as literal holds no such pragma whatever
\* became of the helper.
PragmasProven == (closure = "removed" => touched = {}) /\ literal \cap touched = {}
=============================================================================
