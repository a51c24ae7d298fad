--------------------------- MODULE PackedRecords ---------------------------
(***************************************************************************)
(* PackedRecordBoundary: records declared between #pragma pack(1) and      *)
(* #pragma pack() must have the same layout in the output as in the CUDA   *)
(* parse.  The class takes the region as text when the opener is read,     *)
(* sees the reset again when Clang reaches it, and at the end proves that  *)
(* the file holds no other pack directive, guards the output against the   *)
(* configuration it did not see, and refuses an edit inside a region.      *)
(*                                                                         *)
(* A text is the main file as a sequence of lines; "if" asks whether one   *)
(* name is defined.  What Clang and a later compiler do with the lines is  *)
(* Cpp.                                                                    *)
(***************************************************************************)
EXTENDS Integers, FiniteSets, SequencesExt

CONSTANT PackTexts      \* the main files

PackLines == {"push", "open", "reset", "pop", "pack4"}
PackKinds == PackLines \cup {"if", "else", "endif", "record", "macro", "include", "define", "undef", "op"}

ASSUME PackTextsAssumption == \A t \in PackTexts : t \in Seq(PackKinds)

VARIABLES
    packText,
    line,       \* the next line
    cpp,        \* the preprocessor and the packing in force
    regions,
    active,
    failure,
    unproven,   \* nvidiaSampleHelperUnsupportedMacroUse
    inserts,    \* the lines before which a guard goes
    packVerdict \* "open", "proved", then "accepted" or "rejected"

packVars == <<packText, line, cpp, regions, active, failure, unproven, inserts, packVerdict>>

-----------------------------------------------------------------------------
(* Clang.                                                                  *)

Cpp0(defined) == [pack |-> 0, saved |-> <<>>, conds |-> <<>>, x |-> defined, error |-> FALSE]

LiveIn(st) == st.conds = <<>> \/ st.conds[Len(st.conds)].live

\* A line that is not skipped.
Directive(st, kind) ==
    CASE kind = "push"  -> [st EXCEPT !.saved = Append(@, st.pack)]
      [] kind = "pop"   -> IF st.saved = <<>> THEN st
                           ELSE [st EXCEPT !.pack = st.saved[Len(st.saved)], !.saved = Front(@)]
      [] kind = "open"  -> [st EXCEPT !.pack = 1]
      [] kind = "reset" -> [st EXCEPT !.pack = 0]
      [] kind \in {"pack4", "op"} -> [st EXCEPT !.pack = 4]
      [] kind \in {"define", "undef"} -> [st EXCEPT !.x = kind = "define"]
      [] kind = "guard" -> [st EXCEPT !.error = @ \/ st.x]
      [] OTHER          -> st

Cpp(st, kind) ==
    LET n == Len(st.conds) IN
    CASE kind = "if"    -> [st EXCEPT !.conds = Append(@, [live |-> LiveIn(st) /\ st.x, outer |-> LiveIn(st)])]
      [] kind = "else"  -> [st EXCEPT !.conds[n].live = st.conds[n].outer /\ ~@]
      [] kind = "endif" -> [st EXCEPT !.conds = Front(@)]
      [] OTHER          -> IF LiveIn(st) THEN Directive(st, kind) ELSE st

\* The state before each line, when the name starts out defined or not.
Compiled(t, defined) ==
    LET st[i \in 1 .. Len(t) + 1] == IF i = 1 THEN Cpp0(defined) ELSE Cpp(st[i - 1], t[i - 1])
    IN  st

PackInit ==
    /\ packText \in PackTexts
    /\ line = 1 /\ cpp = Cpp0(FALSE)
    /\ regions = <<>> /\ active = FALSE /\ failure = FALSE /\ unproven = FALSE
    /\ inserts = {} /\ packVerdict = "open"

-----------------------------------------------------------------------------
(* Callbacks.                                                              *)

\* The first directive after an opener; the lines before it are the body.
BodyEnd(o) ==
    LET after == {i \in o + 1 .. Len(packText) : packText[i] \notin {"record", "macro"}}
    IN  IF after = {} THEN 0 ELSE CHOOSE i \in after : \A j \in after : i <= j

LinesAre(i, s) == i > 0 /\ i + Len(s) - 1 <= Len(packText) /\ SubSeq(packText, i, i + Len(s) - 1) = s

\* The region of the opener on line o: a plain reset, or pop and reset on the two
\* sides of a condition that does not hold, with its push before the opener.
Footer == <<"if", "pop", "else", "reset", "endif">>
Prefix == <<"if", "push", "endif">>

RegionAt(o) ==
    LET e == BodyEnd(o)
        guarded == LinesAre(e, Footer)
        first == IF guarded /\ LinesAre(o - 3, Prefix) THEN o - 3 ELSE o
    IN  [open |-> o, bodyEnd |-> e, guarded |-> guarded, closed |-> FALSE,
         reset |-> IF guarded THEN e + 3 ELSE e,
         first |-> first, last |-> IF guarded THEN e + 4 ELSE e,
         owned |-> {o} \cup (IF guarded THEN {e + 1, e + 3} ELSE {e}) \cup (IF first < o THEN {o - 2} ELSE {})]

RegionAdmitted(o) == BodyEnd(o) > 0 /\ (packText[BodyEnd(o)] = "reset" \/ (RegionAt(o).guarded /\ ~cpp.x))

\* PackedRecordBoundary::pragma for pack(1).
Open ==
    /\ IF ~active /\ RegionAdmitted(line)
       THEN regions' = Append(regions, RegionAt(line)) /\ active' = TRUE /\ UNCHANGED <<failure, unproven>>
       ELSE failure' = TRUE /\ unproven' = TRUE /\ UNCHANGED <<regions, active>>

\* PackedRecordBoundary::pragma for pack().
Reset ==
    LET n == Len(regions) IN
    IF active /\ regions[n].reset = line /\ (regions[n].guarded => ~cpp.x)
    THEN regions' = [regions EXCEPT ![n].closed = TRUE] /\ active' = FALSE /\ UNCHANGED <<failure, unproven>>
    ELSE failure' = TRUE /\ unproven' = TRUE /\ UNCHANGED <<regions, active>>

\* Any other pack directive and an operator pragma are unproven hash pragmas.
Unproven == unproven' = TRUE /\ UNCHANGED <<regions, active, failure>>

includeOrFileTransition == failure' = (failure \/ active) /\ UNCHANGED <<regions, active, unproven>>

ReadPackLine ==
    /\ packVerdict = "open" /\ line <= Len(packText)
    /\ line' = line + 1
    /\ cpp' = Cpp(cpp, packText[line])
    /\ CASE LiveIn(cpp) /\ packText[line] = "open"    -> Open
         [] LiveIn(cpp) /\ packText[line] = "reset"   -> Reset
         [] LiveIn(cpp) /\ packText[line] \in {"push", "pop", "pack4", "op"} -> Unproven
         [] LiveIn(cpp) /\ packText[line] = "include" -> includeOrFileTransition
         [] OTHER -> UNCHANGED <<regions, active, failure, unproven>>
    /\ UNCHANGED <<packText, inserts, packVerdict>>

-----------------------------------------------------------------------------
(* The end.                                                                *)

Regions == {regions[i] : i \in DOMAIN regions}

\* ownedPragmaLines.
OwnedLines == IF failure \/ active THEN {} ELSE UNION {r.owned : r \in {q \in Regions : q.closed}}

\* The raw text of a file with a region: no other pack line, live or not, and no
\* pragma operator.
NoOtherPack == \A i \in DOMAIN packText : (packText[i] \in PackLines => i \in OwnedLines) /\ packText[i] # "op"

\* Plain fixed-integer records, at least one, and no macro among their tokens.
PlainRecords(r) == r.bodyEnd > r.open + 1 /\ \A i \in r.open + 1 .. r.bodyEnd - 1 : packText[i] = "record"

\* Bug: the output is not guarded.
MutGuards == {}

\* The #error the output gets before an opener whose footer has a condition.
Guards == {r.open : r \in {q \in Regions : q.guarded}}

\* PackedRecordBoundary::prove; the guards go before the openers.
Prove ==
    /\ packVerdict = "open" /\ line > Len(packText)
    /\ packVerdict' = IF \/ regions = <<>> /\ ~failure
                         \/ /\ ~failure /\ ~active /\ ~unproven /\ NoOtherPack
                            /\ \A r \in Regions : r.closed /\ PlainRecords(r)
                      THEN "proved" ELSE "rejected"
    /\ inserts' = Guards
    /\ UNCHANGED <<packText, line, cpp, regions, active, failure, unproven>>

\* PackedRecordBoundary::auditFinalEdits: an edit of lines a to b - 1, an insertion
\* before line a when a = b.
EditClear(a, b) ==
    \A r \in Regions : IF a = b THEN a < r.first \/ a > r.last + 1 ELSE b <= r.first \/ a > r.last

\* finalizePackedRecordEdits, with one edit another lowering made.
AuditFinalEdits(a, b) ==
    /\ packVerdict = "proved" /\ a <= b /\ b <= Len(packText) + 1
    /\ packVerdict' = IF EditClear(a, b) THEN "accepted" ELSE "rejected"
    /\ line' = a
    /\ UNCHANGED <<packText, cpp, regions, active, failure, unproven, inserts>>

PackNext ==
    \/ ReadPackLine
    \/ Prove
    \/ \E a \in 1 .. Len(packText) + 1 : \E b \in {a, a + 1} : AuditFinalEdits(a, b)

-----------------------------------------------------------------------------
(* Properties.                                                             *)

\* The output's lines with the guards, as pairs of a kind and the source line.
Output ==
    LET before(i) == i + Cardinality({o \in inserts : o <= i})
        from(k) == {i \in DOMAIN packText : before(i) = k}
    IN  [k \in 1 .. Len(packText) + Cardinality(inserts) |->
            IF from(k) = {} THEN [kind |-> "guard", at |-> 0]
            ELSE LET i == CHOOSE j \in from(k) : TRUE IN [kind |-> packText[i], at |-> i]]

\* In an accepted unit with a region every record has, whichever way the name of the
\* condition is set when the output is compiled, the packing it had in the CUDA
\* parse, or that build stops at the guard; and the edit the unit carries neither
\* replaces a pack line nor lands where packing is in force.
PackedLayoutKept ==
    packVerdict = "accepted" /\ regions # <<>> =>
        LET parsed == Compiled(packText, FALSE)
            output == Output
            kinds == [k \in DOMAIN output |-> output[k].kind]
        IN  /\ \A defined \in BOOLEAN :
                  LET built == Compiled(kinds, defined)
                  IN  \/ built[Len(kinds) + 1].error
                      \/ \A k \in DOMAIN output :
                            output[k].kind = "record" /\ LiveIn(built[k]) /\ LiveIn(parsed[output[k].at]) =>
                                built[k].pack = parsed[output[k].at].pack
            /\ line <= Len(packText) => parsed[line].pack = 0
=============================================================================
