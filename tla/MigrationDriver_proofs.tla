----------------------- MODULE MigrationDriver_proofs -----------------------
(***************************************************************************)
(* Proofs for every list of sources, every file names, any number of edits *)
(* and every choice of what may fail: the types, that success means        *)
(* delivered outputs and a true receipt, that outputs are made under a     *)
(* receipt of the run, and that no output mixes two versions of a source.  *)
(***************************************************************************)
EXTENDS MigrationDriver, FiniteSetTheorems, TLAPS

States == {"absent", "whole", "mixed", "torn", "receipt"}
Texts == [state : States, of : Sources \cup {"none"}, v : Nat, n : Nat]
Records == [input : Sources, output : Paths \cup {NoPath}, ok : BOOLEAN]
Early == {"preflight", "open", "order"}
Converting == {"prepare", "closure", "capture", "parse", "verify", "write", "close"}
Late == {"finish", "return"}

\* The values of the variables.
TypeOK ==
  /\ requested \in Requests /\ base \in Bases /\ mode \in Modes /\ closure \in BOOLEAN
  /\ rpath \in Paths \cup {FreePath, NoReceipt}
  /\ receipt \in {"none", "old", "in_progress", "succeeded", "failed"}
  /\ pc \in Early \cup {"resolve"} \cup Converting \cup Late \cup {"exit"}
  /\ queue \in Seq(Sources) /\ pos \in DOMAIN queue
  /\ dst \in Paths \cup {NoPath} /\ disk \in [Paths -> Texts]
  /\ snapshot \in Texts /\ parsed \in Texts
  /\ records \in Seq(Records) /\ Result \in {0, 1}
  /\ exit \in {"no", "ok", "error", "killed"} /\ edits \in Nat

Refused == ManyToOne \/ SameArtifact \/ ReceiptConflict

\* A run whose paths conflict ends before it writes anything.
Preflight ==
  /\ Refused => pc \in {"preflight", "exit"} /\ exit # "ok" /\ receipt \in {"none", "old"}
                /\ \A p \in Paths : disk[p].state # "receipt"
  /\ pc = "exit" <=> exit # "no"
  /\ pc = "open" => rpath # NoReceipt

\* The loop is at input pos of a list of requested inputs, and has recorded the
\* ones before it.
Loop ==
  /\ Range(queue) \subseteq Range(requested)
  /\ pc \in Early => pos = 1
  /\ pc \in Early \cup {"resolve"} \cup Converting => Len(records) = pos - 1
  /\ pc \in Late => Len(records) = Len(queue)
  /\ Len(records) <= Len(queue)
  /\ \A i \in DOMAIN records : records[i].input = queue[i]
  /\ Result = 0 => \A i \in DOMAIN records : records[i].ok
  /\ exit = "ok" => Len(records) = Len(queue) /\ Result = 0

\* Only a source with a directory, beside a bare one, is not in the list.
NoneLost == Range(requested) \ Range(queue) \subseteq Droppable

\* Before the receipt of the run is on disk, nothing is written.
Opened ==
  rpath # NoReceipt /\ receipt \in {"none", "old"} =>
    /\ pc \in {"preflight", "open", "exit"}
    /\ \A p \in Paths : disk[p].state # "torn" /\ disk[p].n = 0

\* When each receipt is on disk.
Receipts ==
  /\ receipt = "succeeded" => pc \in {"return", "exit"} /\ Len(records) = Len(queue)
                              /\ \A i \in DOMAIN records : records[i].ok
  /\ pc = "return" /\ Result = 0 /\ rpath # NoReceipt => receipt = "succeeded"
  /\ exit = "ok" /\ rpath # NoReceipt => receipt = "succeeded"
  /\ \A p \in Paths : disk[p].state = "receipt" => p = rpath

\* What is converted is one version of the current source.
OneVersion ==
  /\ pc \in {"verify", "write", "close"} => parsed = snapshot
  /\ pc \in {"write", "close"} => mode # "none"

\* While no input has failed, dst is the current input's own output.
Aimed ==
  Result = 0 =>
    /\ pc \in Early \cup {"resolve"} =>
         dst = NoPath \/ (mode = "file" /\ dst = Out(requested[1]))
    /\ pc \in Converting => dst = OwnOutput(src)

\* While no input has failed, sources hold their own text, and outputs of the
\* inputs before hold whole translations unless they are being written again.
Delivered ==
  ~Refused /\ Result = 0 /\ exit \in {"no", "ok"} =>
    /\ \A s \in Range(requested) : disk[Src(s)].of = s
    /\ pc \in {"parse", "verify", "write", "close"} => snapshot.of = src
    /\ mode # "none" =>
         \A i \in DOMAIN records :
           LET held == disk[OwnOutput(queue[i])] IN
           \/ pc = "close" /\ queue[i] = src
           \/ held.state = "whole" /\ held.of = queue[i] /\ held.n > 0

IInv ==
  /\ TypeOK
  /\ Preflight
  /\ Loop
  /\ NoneLost
  /\ Opened
  /\ Receipts
  /\ OneVersion
  /\ Aimed
  /\ Delivered
  /\ NoMixedVersions

-----------------------------------------------------------------------------
(* Paths and lists *)

\* The file names do not change during a run, so neither do the paths.
LEMMA SamePaths == base' = base => Paths' = Paths
BY DEF Paths, Src, Out, InDir

\* Every output is a path, and no output is a receipt's own place.
LEMMA PathFacts ==
  ASSUME NEW s \in Sources
  PROVE  Src(s) \in Paths /\ Out(s) \in Paths /\ InDir(s) \in Paths /\ OwnOutput(s) \in Paths
BY DEF Paths, OwnOutput, Src, Out, InDir

\* The requested sources are sources, and a run has at least one.
LEMMA RequestFacts ==
  ASSUME requested \in Requests
  PROVE  /\ requested \in Seq(Sources) /\ requested # <<>> /\ 1 \in DOMAIN requested
         /\ Range(requested) \subseteq Sources
BY DriverAssumption DEF Range

\* A translation of one version is whole and keeps its source.
LEMMA TranslationFacts ==
  ASSUME NEW x \in Texts, NEW y \in Texts
  PROVE  /\ Translation(x, y) \in Texts /\ Translation(x, y).of = x.of
         /\ Translation(x, y).n > 0 /\ Translation(x, y).state # "receipt"
         /\ x = y => Translation(x, y).state = "whole"
BY DEF Translation, Text, Texts, States

\* The texts a run makes are texts.
LEMMA TextFacts ==
  /\ Nothing \in Texts /\ ReceiptText \in Texts
  /\ \A s \in Sources, v \in Nat, n \in Nat, st \in States : Text(st, s, v, n) \in Texts
BY DEF Nothing, ReceiptText, Text, Texts, States

\* A reversed list has the members of the list.
LEMMA ReverseFacts ==
  ASSUME NEW S, NEW x \in Seq(S)
  PROVE  Reverse(x) \in Seq(S) /\ Len(Reverse(x)) = Len(x) /\ Range(Reverse(x)) = Range(x)
<1>1. /\ Len(x) \in Nat /\ DOMAIN x = 1..Len(x) /\ \A i \in 1..Len(x) : x[i] \in S
      /\ Reverse(x) = [i \in 1..Len(x) |-> x[(Len(x) - i) + 1]]
  BY DEF Reverse
<1>2. \A i \in 1..Len(x) : (Len(x) - i) + 1 \in 1..Len(x) /\ (Len(x) - ((Len(x) - i) + 1)) + 1 = i
  BY <1>1
<1>3. Reverse(x) \in Seq(S) /\ Len(Reverse(x)) = Len(x) /\ DOMAIN Reverse(x) = 1..Len(x)
  BY <1>1, <1>2
<1>4. \A i \in 1..Len(x) : /\ Reverse(x)[i] = x[(Len(x) - i) + 1]
                           /\ Reverse(x)[(Len(x) - i) + 1] = x[i]
  BY <1>1, <1>2
<1> DEFINE rev == Reverse(x)
<1>5. DOMAIN rev = 1..Len(x) /\ Range(rev) = {rev[i] : i \in 1..Len(x)}
  BY <1>3 DEF Range
<1> HIDE DEF rev
<1>6. Range(rev) \subseteq Range(x)
  <2> SUFFICES ASSUME NEW i \in 1..Len(x) PROVE rev[i] \in Range(x)
    BY <1>5
  <2> QED
    BY <1>1, <1>2, <1>4 DEF Range, rev
<1>7. Range(x) \subseteq Range(rev)
  <2> SUFFICES ASSUME NEW i \in 1..Len(x) PROVE x[i] \in Range(rev)
    BY <1>1 DEF Range
  <2> QED
    BY <1>2, <1>4, <1>5 DEF rev
<1> QED
  BY <1>3, <1>6, <1>7 DEF rev

\* The list Init makes of the driver's jobs holds requested bare sources, and all
\* of them.
LEMMA OrderFacts ==
  ASSUME requested \in Requests, base \in Bases, NEW jobs \in DriverJobs, jobs # <<>>
  PROVE  LET made == Reverse(SortedFiles(jobs))
         IN  made \in Seq(Sources) /\ made # <<>> /\ Range(made) = Range(requested) \cap Bare
<1> DEFINE kept == Range(requested) \cap Bare
           name(n) == CHOOSE t \in Spelled(requested[n]) : TRUE
           files == SortedFiles(jobs)
<1>1. /\ jobs \in SeqOf(Named, 2 * Len(requested))
      /\ \A n \in Named : Cardinality({i \in DOMAIN jobs : jobs[i] = n}) \in 1..2
  BY DEF DriverJobs
<1>2. jobs \in Seq(Named) /\ Len(jobs) \in Nat \ {0} /\ DOMAIN jobs = 1..Len(jobs)
  <2>1. PICK m \in 0..(2 * Len(requested)) : jobs \in [1..m -> Named]
    BY <1>1 DEF SeqOf
  <2>2. m \in Nat
    OBVIOUS
  <2> QED
    BY <2>1, <2>2
<1>3. ASSUME NEW n \in Named PROVE \E i \in DOMAIN jobs : jobs[i] = n
  BY <1>1, FS_EmptySet
<1>4. ASSUME NEW n \in Named
      PROVE  name(n) \in kept /\ (requested[n] \in Bare => name(n) = requested[n])
  <2>1. name(n) \in Spelled(requested[n])
    BY DEF Named
  <2>2. name(n) \in kept /\ base[name(n)] = base[requested[n]]
    BY <2>1 DEF Spelled
  <2> QED
    BY <2>2, DriverAssumption
<1>5. files = [i \in 1..Len(jobs) |-> name(jobs[i])]
  BY <1>2 DEF SortedFiles
<1>6. \A i \in 1..Len(jobs) : jobs[i] \in Named
  BY <1>2
<1> HIDE DEF name, files
<1>7. files \in Seq(kept) /\ Len(files) = Len(jobs) /\ DOMAIN files = 1..Len(jobs)
  BY <1>2, <1>4, <1>5, <1>6
<1>8. kept \subseteq Range(files)
  <2> SUFFICES ASSUME NEW s \in kept PROVE \E i \in 1..Len(jobs) : files[i] = s
    BY <1>7 DEF Range
  <2>1. PICK n \in DOMAIN requested : requested[n] = s
    BY DEF Range
  <2>2. n \in Named
    BY <2>1 DEF Named, Spelled
  <2>3. PICK i \in 1..Len(jobs) : jobs[i] = n
    BY <1>2, <1>3, <2>2
  <2> QED
    BY <1>4, <1>5, <2>1, <2>2, <2>3
<1>9. Range(files) \subseteq kept
  BY <1>7 DEF Range
<1>10. Reverse(files) \in Seq(kept) /\ Len(Reverse(files)) = Len(jobs) /\ Range(Reverse(files)) = Range(files)
  BY <1>7, ReverseFacts
<1>11. kept \subseteq Sources
  BY RequestFacts
<1> HIDE DEF kept
<1>12. Reverse(files) \in Seq(Sources) /\ Reverse(files) # <<>>
  BY <1>2, <1>10, <1>11
<1> QED
  BY <1>8, <1>9, <1>10, <1>12 DEF files, kept

\* The reordered list: requested sources, at least one, and all that are not
\* droppable.
LEMMA ListFacts ==
  ASSUME requested \in Requests, base \in Bases, OrderInputs
  PROVE  /\ queue' \in Seq(Sources) /\ queue' # <<>>
         /\ Range(queue') \subseteq Range(requested)
         /\ Range(requested) \ Range(queue') \subseteq Droppable
<1>1. PICK jobs \in DriverJobs :
         queue' = IF Len(requested) < 2 \/ jobs = <<>> THEN requested
                                                       ELSE Reverse(SortedFiles(jobs))
  BY DEF OrderInputs
<1>2. CASE queue' = requested
  BY <1>2, RequestFacts
<1>3. CASE queue' = Reverse(SortedFiles(jobs)) /\ jobs # <<>>
  <2>1. queue' \in Seq(Sources) /\ queue' # <<>> /\ Range(queue') = Range(requested) \cap Bare
    BY <1>3, OrderFacts
  <2>2. 1 \in DOMAIN queue'
    BY <2>1
  <2>3. Range(queue') # {}
    BY <2>2 DEF Range
  <2> QED
    BY <2>1, <2>3 DEF Droppable
<1> QED
  BY <1>1, <1>2, <1>3

-----------------------------------------------------------------------------
(* The start *)

\* A run starts before its preflight, with its sources as the user left them.
LEMMA IInvInit == Init => IInv
<1> SUFFICES ASSUME Init PROVE IInv
  OBVIOUS
<1> USE DEF Init
<1>1. \A p \in Paths : p[2] = "src" => p[1] \in Sources
  BY DEF Paths, Src, Out, InDir
<1>2. disk \in [Paths -> Texts]
  BY <1>1, TextFacts DEF States
<1>3. TypeOK
  BY <1>2, RequestFacts, PathFacts, TextFacts DEF TypeOK, Early
<1>4. \A p \in Paths : disk[p].state \in {"whole", "absent"}
  BY DEF Text, Nothing
<1>5. \A s \in Sources : disk[Src(s)].of = s
  <2> TAKE s \in Sources
  <2>1. disk[Src(s)] = Text("whole", s, 1, 0)
    BY PathFacts DEF Src
  <2> QED
    BY <2>1 DEF Text
<1>6. NoMixedVersions
  BY <1>4 DEF NoMixedVersions
<1>7. Receipts
  BY <1>4 DEF Receipts
<1>8. Delivered
  BY <1>5, RequestFacts DEF Delivered
<1>9. Preflight
  BY <1>4 DEF Preflight
<1>10. Loop
  <2>1. Len(records) = 0 /\ DOMAIN records = {} /\ Len(queue) \in Nat
    BY RequestFacts
  <2> QED
    BY <2>1 DEF Loop, Early, Converting, Late
<1>11. Aimed
  BY DEF Aimed, Early, Converting
<1>12. OneVersion
  BY DEF OneVersion
<1>13. NoneLost
  BY DEF NoneLost
<1>14. Opened
  <2>1. \A p \in Paths : disk[p].n = 0 /\ disk[p].state # "torn"
    BY DEF Text, Nothing
  <2> QED
    BY <2>1 DEF Opened
<1> QED
  BY <1>3, <1>6, <1>7, <1>8, <1>9, <1>10, <1>11, <1>12, <1>13, <1>14 DEF IInv

-----------------------------------------------------------------------------
(* Every step *)

\* The request, the file names and the options stay what they are.
LEMMA Options == [Next]_vars => UNCHANGED optionVars /\ Paths' = Paths /\ Records' = Records
<1>1. [Next]_vars => UNCHANGED optionVars
  BY DEF Next, Step, vars, optionVars, PreflightRefuses, PreflightAdmits, OpenReceipt, OrderInputs,
         ResolveFails, Resolve, PrepareFailed, Prepare, ConvertClosure, Capture, Parse, Verify,
         OpenOutput, CloseOutput, Finish, ReturnFromMain, UserEdits, Crash
<1>2. UNCHANGED optionVars => Paths' = Paths
  BY SamePaths DEF optionVars
<1>3. Paths' = Paths => Records' = Records
  BY DEF Records
<1> QED
  BY <1>1, <1>2, <1>3

\* A record appended to the results.
LEMMA AppendFacts ==
  ASSUME records \in Seq(Records), NEW r \in Records
  PROVE  /\ Append(records, r) \in Seq(Records) /\ Len(records) \in Nat
         /\ Len(Append(records, r)) = Len(records) + 1
         /\ DOMAIN Append(records, r) = DOMAIN records \cup {Len(records) + 1}
         /\ Append(records, r)[Len(records) + 1] = r
         /\ \A i \in DOMAIN records : Append(records, r)[i] = records[i] /\ i # Len(records) + 1
OBVIOUS

\* An iteration that ends, early or not, leaves the loop inside its list.
LEMMA AdvanceFacts ==
  ASSUME TypeOK, queue' = queue, Advance
  PROVE  /\ pc' \in {"resolve", "finish"} /\ pos' \in DOMAIN queue' /\ src \in Sources
         /\ pc' = "resolve" => pos' = pos + 1
         /\ pc' = "finish" => pos = Len(queue)
BY DEF Advance, TypeOK, src

\* EndInput appends one record and clears dst.
LEMMA EndFacts ==
  ASSUME TypeOK, queue' = queue, NEW ok \in BOOLEAN, EndInput(ok)
  PROVE  /\ Advance /\ records' \in Seq(Records) /\ Result' \in {0, 1} /\ dst' = NoPath
         /\ Len(records') = Len(records) + 1
         /\ DOMAIN records' = DOMAIN records \cup {Len(records) + 1}
         /\ records'[Len(records) + 1].input = src /\ records'[Len(records) + 1].ok = ok
         /\ \A i \in DOMAIN records : records'[i] = records[i]
         /\ Result' = IF ok THEN Result ELSE 1
<1> DEFINE r == [input |-> src, output |-> OutputPath, ok |-> ok]
<1>1. src \in Sources /\ OutputPath \in Paths \cup {NoPath}
  BY DEF TypeOK, src, OutputPath
<1>2. r \in Records
  BY <1>1 DEF Records
<1>3. records' = Append(records, r) /\ Advance /\ dst' = NoPath
      /\ Result' = IF ok THEN Result ELSE 1
  BY DEF EndInput
<1>4. r.input = src /\ r.ok = ok
  OBVIOUS
<1> HIDE DEF r
<1> QED
  BY <1>2, <1>3, <1>4, AppendFacts DEF TypeOK

\* GiveUp appends the record of a failure.
LEMMA GiveUpFacts ==
  ASSUME TypeOK, queue' = queue, NEW p \in Paths \cup {NoPath}, GiveUp(p)
  PROVE  /\ Advance /\ records' \in Seq(Records) /\ Result' = 1
         /\ Len(records') = Len(records) + 1
         /\ DOMAIN records' = DOMAIN records \cup {Len(records) + 1}
         /\ records'[Len(records) + 1].input = src
         /\ \A i \in DOMAIN records : records'[i] = records[i]
<1> DEFINE r == [input |-> src, output |-> p, ok |-> FALSE]
<1>1. src \in Sources
  BY DEF TypeOK, src
<1>2. r \in Records
  BY <1>1 DEF Records
<1>3. records' = Append(records, r) /\ Advance /\ Result' = 1
  BY DEF GiveUp
<1>4. r.input = src
  OBVIOUS
<1> HIDE DEF r
<1> QED
  BY <1>2, <1>3, <1>4, AppendFacts DEF TypeOK

\* Every step keeps the types.
LEMMA TypeNext == IInv /\ [Next]_vars => TypeOK'
<1> SUFFICES ASSUME IInv, [Next]_vars PROVE TypeOK'
  OBVIOUS
<1> USE DEF IInv, TypeOK, optionVars, convVars, Early, Converting, Late
<1> USE Options
<1>1. ASSUME PreflightRefuses PROVE TypeOK'
  BY <1>1 DEF PreflightRefuses, Stop
<1>2. ASSUME PreflightAdmits PROVE TypeOK'
  BY <1>2 DEF PreflightAdmits
<1>3. ASSUME OpenReceipt PROVE TypeOK'
  <2>1. disk' \in [Paths -> Texts]
    BY <1>3, TextFacts DEF OpenReceipt, PublishReceipt
  <2> QED
    BY <1>3, <2>1 DEF OpenReceipt, PublishReceipt, Stop
<1>4. ASSUME OrderInputs PROVE TypeOK'
  <2>2. queue' \in Seq(Sources) /\ queue' # <<>>
    BY <1>4, ListFacts
  <2>3. pos = 1 /\ pos' = pos
    BY <1>4 DEF OrderInputs, Loop
  <2>4. pos' \in DOMAIN queue'
    BY <2>2, <2>3
  <2> QED
    BY <1>4, <2>2, <2>4 DEF OrderInputs
<1>5. ASSUME ResolveFails PROVE TypeOK'
  <2>1. NoPath \in Paths \cup {NoPath} /\ OutputPath \in Paths \cup {NoPath}
    BY DEF OutputPath
  <2>2. /\ records' \in Seq(Records) /\ Result' = 1 /\ Advance /\ queue' = queue
        /\ UNCHANGED <<receipt, dst, disk, convVars, exit, edits>>
    BY <1>5, <2>1, GiveUpFacts DEF ResolveFails, TypeOK
  <2> QED
    BY <2>2, AdvanceFacts DEF TypeOK
<1>6. ASSUME Resolve PROVE TypeOK'
  <2>1. src \in Sources
    BY DEF src
  <2>2. OwnOutput(src) \in Paths
    BY <2>1, PathFacts
  <2> QED
    BY <1>6, <2>2 DEF Resolve
<1>7. ASSUME PrepareFailed PROVE TypeOK'
  <2>1. NoPath \in Paths \cup {NoPath} /\ OutputPath \in Paths \cup {NoPath}
    BY DEF OutputPath
  <2>2. /\ records' \in Seq(Records) /\ Result' = 1 /\ Advance /\ queue' = queue
        /\ UNCHANGED <<receipt, dst, disk, convVars, exit, edits>>
    BY <1>7, <2>1, GiveUpFacts DEF PrepareFailed, TypeOK
  <2> QED
    BY <2>2, AdvanceFacts DEF TypeOK
<1>8. ASSUME Prepare PROVE TypeOK'
  BY <1>8 DEF Prepare
<1>9. ASSUME ConvertClosure PROVE TypeOK'
  <2>1. src \in Sources /\ queue' = queue
    BY <1>9 DEF ConvertClosure, src
  <2>2. disk' \in [Paths -> Texts] /\ snapshot' \in Texts /\ parsed' \in Texts
    <3>1. disk[Src(src)] \in Texts
      BY <2>1, PathFacts
    <3>2. Translation(disk[Src(src)], disk[Src(src)]) \in Texts
      BY <3>1, TranslationFacts
    <3> QED
      BY <1>9, <3>2 DEF ConvertClosure
  <2>3. \/ \E ok \in BOOLEAN : EndInput(ok)
        \/ /\ UNCHANGED <<pos, dst, records, Result>>
           /\ pc' \in {"parse", "verify", "write", "close", "exit"}
    BY <1>9 DEF ConvertClosure, Stop
  <2>4. /\ records' \in Seq(Records) /\ Result' \in {0, 1} /\ dst' \in Paths \cup {NoPath}
        /\ pos' \in DOMAIN queue'
        /\ pc' \in {"resolve", "finish", "parse", "verify", "write", "close", "exit"}
    BY <2>1, <2>3, EndFacts, AdvanceFacts
  <2>5. exit' \in {"no", "ok", "error", "killed"} /\ UNCHANGED <<receipt, edits>>
    BY <1>9 DEF ConvertClosure, Stop
  <2> QED
    BY <2>1, <2>2, <2>4, <2>5
<1>10. ASSUME Capture PROVE TypeOK'
  <2>1. src \in Sources /\ queue' = queue
    BY <1>10 DEF Capture, src
  <2>2. disk' \in [Paths -> Texts] /\ snapshot' \in Texts /\ parsed' \in Texts
    <3>1. disk[Src(src)] \in Texts
      BY <2>1, PathFacts
    <3> QED
      BY <1>10, <3>1 DEF Capture
  <2>3. \/ \E ok \in BOOLEAN : EndInput(ok)
        \/ /\ UNCHANGED <<pos, dst, records, Result>>
           /\ pc' \in {"parse", "verify", "write", "close", "exit"}
    BY <1>10 DEF Capture, Stop
  <2>4. /\ records' \in Seq(Records) /\ Result' \in {0, 1} /\ dst' \in Paths \cup {NoPath}
        /\ pos' \in DOMAIN queue'
        /\ pc' \in {"resolve", "finish", "parse", "verify", "write", "close", "exit"}
    BY <2>1, <2>3, EndFacts, AdvanceFacts
  <2>5. exit' \in {"no", "ok", "error", "killed"} /\ UNCHANGED <<receipt, edits>>
    BY <1>10 DEF Capture, Stop
  <2> QED
    BY <2>1, <2>2, <2>4, <2>5
<1>11. ASSUME Parse PROVE TypeOK'
  <2>1. src \in Sources /\ queue' = queue
    BY <1>11 DEF Parse, src
  <2>2. disk' \in [Paths -> Texts] /\ snapshot' \in Texts /\ parsed' \in Texts
    BY <1>11, <2>1, TranslationFacts, TextFacts, PathFacts DEF Parse, States
  <2>3. \/ \E ok \in BOOLEAN : EndInput(ok)
        \/ /\ UNCHANGED <<pos, dst, records, Result>>
           /\ pc' \in {"parse", "verify", "write", "close", "exit"}
    BY <1>11 DEF Parse, Stop
  <2>4. /\ records' \in Seq(Records) /\ Result' \in {0, 1} /\ dst' \in Paths \cup {NoPath}
        /\ pos' \in DOMAIN queue'
        /\ pc' \in {"resolve", "finish", "parse", "verify", "write", "close", "exit"}
    BY <2>1, <2>3, EndFacts, AdvanceFacts
  <2>5. exit' \in {"no", "ok", "error", "killed"} /\ UNCHANGED <<receipt, edits>>
    BY <1>11 DEF Parse, Stop
  <2> QED
    BY <2>1, <2>2, <2>4, <2>5
<1>12. ASSUME Verify PROVE TypeOK'
  <2>1. src \in Sources /\ queue' = queue
    BY <1>12 DEF Verify, src
  <2>2. disk' \in [Paths -> Texts] /\ snapshot' \in Texts /\ parsed' \in Texts
    BY <1>12, <2>1, TranslationFacts, TextFacts, PathFacts DEF Verify, States
  <2>3. \/ \E ok \in BOOLEAN : EndInput(ok)
        \/ /\ UNCHANGED <<pos, dst, records, Result>>
           /\ pc' \in {"parse", "verify", "write", "close", "exit"}
    BY <1>12 DEF Verify, Stop
  <2>4. /\ records' \in Seq(Records) /\ Result' \in {0, 1} /\ dst' \in Paths \cup {NoPath}
        /\ pos' \in DOMAIN queue'
        /\ pc' \in {"resolve", "finish", "parse", "verify", "write", "close", "exit"}
    BY <2>1, <2>3, EndFacts, AdvanceFacts
  <2>5. exit' \in {"no", "ok", "error", "killed"} /\ UNCHANGED <<receipt, edits>>
    BY <1>12 DEF Verify, Stop
  <2> QED
    BY <2>1, <2>2, <2>4, <2>5
<1>13. ASSUME OpenOutput PROVE TypeOK'
  <2>1. src \in Sources /\ queue' = queue
    BY <1>13 DEF OpenOutput, src
  <2>2. disk' \in [Paths -> Texts] /\ snapshot' \in Texts /\ parsed' \in Texts
    <3>1. Text("torn", src, snapshot.v, snapshot.n) \in Texts
      BY <2>1 DEF Text, Texts, States
    <3> QED
      BY <1>13, <3>1 DEF OpenOutput
  <2>3. \/ \E ok \in BOOLEAN : EndInput(ok)
        \/ /\ UNCHANGED <<pos, dst, records, Result>>
           /\ pc' \in {"parse", "verify", "write", "close", "exit"}
    BY <1>13 DEF OpenOutput, Stop
  <2>4. /\ records' \in Seq(Records) /\ Result' \in {0, 1} /\ dst' \in Paths \cup {NoPath}
        /\ pos' \in DOMAIN queue'
        /\ pc' \in {"resolve", "finish", "parse", "verify", "write", "close", "exit"}
    BY <2>1, <2>3, EndFacts, AdvanceFacts
  <2>5. exit' \in {"no", "ok", "error", "killed"} /\ UNCHANGED <<receipt, edits>>
    BY <1>13 DEF OpenOutput, Stop
  <2> QED
    BY <2>1, <2>2, <2>4, <2>5
<1>14. ASSUME CloseOutput PROVE TypeOK'
  <2>1. src \in Sources /\ queue' = queue
    BY <1>14 DEF CloseOutput, src
  <2>2. disk' \in [Paths -> Texts] /\ snapshot' \in Texts /\ parsed' \in Texts
    BY <1>14, <2>1, TranslationFacts, TextFacts, PathFacts DEF CloseOutput, States
  <2>3. \/ \E ok \in BOOLEAN : EndInput(ok)
        \/ /\ UNCHANGED <<pos, dst, records, Result>>
           /\ pc' \in {"parse", "verify", "write", "close", "exit"}
    BY <1>14 DEF CloseOutput, Stop
  <2>4. /\ records' \in Seq(Records) /\ Result' \in {0, 1} /\ dst' \in Paths \cup {NoPath}
        /\ pos' \in DOMAIN queue'
        /\ pc' \in {"resolve", "finish", "parse", "verify", "write", "close", "exit"}
    BY <2>1, <2>3, EndFacts, AdvanceFacts
  <2>5. exit' \in {"no", "ok", "error", "killed"} /\ UNCHANGED <<receipt, edits>>
    BY <1>14 DEF CloseOutput, Stop
  <2> QED
    BY <2>1, <2>2, <2>4, <2>5
<1>15. ASSUME Finish PROVE TypeOK'
  <2>1. disk' \in [Paths -> Texts]
    BY <1>15, TextFacts DEF Finish, PublishReceipt
  <2> QED
    BY <1>15, <2>1 DEF Finish, PublishReceipt, Stop
<1>16. ASSUME ReturnFromMain PROVE TypeOK'
  BY <1>16 DEF ReturnFromMain, Stop
<1>17. ASSUME UserEdits PROVE TypeOK'
  <2>1. PICK s \in Sources, v \in 1..2 : disk' = [disk EXCEPT ![Src(s)] = Text("whole", s, v, 0)]
    BY <1>17, RequestFacts DEF UserEdits
  <2>2. Text("whole", s, v, 0) \in Texts
    BY TextFacts DEF States
  <2>3. disk' \in [Paths -> Texts]
    BY <2>1, <2>2
  <2> QED
    BY <1>17, <2>3 DEF UserEdits
<1>18. ASSUME Crash PROVE TypeOK'
  BY <1>18 DEF Crash, Stop
<1>19. ASSUME UNCHANGED vars PROVE TypeOK'
  BY <1>19 DEF vars
<1> QED
  BY <1>1, <1>2, <1>3, <1>4, <1>5, <1>6, <1>7, <1>8, <1>9,
     <1>10, <1>11, <1>12, <1>13, <1>14, <1>15, <1>16, <1>17, <1>18, <1>19
     DEF Next, Step

\* What a step of a conversion does to the loop: the input ends with a record, or
\* its conversion goes on, or the process ends.
LEMMA ConvertFacts ==
  ASSUME TypeOK,
         ConvertClosure \/ Capture \/ Parse \/ Verify \/ OpenOutput \/ CloseOutput
  PROVE  /\ UNCHANGED <<optionVars, receipt, queue, edits>> /\ pc \in Converting
         /\ \/ (\E ok \in BOOLEAN : EndInput(ok)) /\ exit' = exit
            \/ /\ UNCHANGED <<pos, dst, records, Result, exit>>
               /\ pc' \in {"parse", "verify", "write", "close"}
            \/ UNCHANGED <<pos, dst, records, Result>> /\ pc' = "exit" /\ exit' = "error"
<1> USE DEF optionVars, convVars, Converting
<1>1. CASE ConvertClosure
  BY <1>1 DEF ConvertClosure
<1>2. CASE Capture
  BY <1>2 DEF Capture
<1>3. CASE Parse
  BY <1>3 DEF Parse
<1>4. CASE Verify
  BY <1>4 DEF Verify
<1>5. CASE OpenOutput
  BY <1>5 DEF OpenOutput
<1>6. CASE CloseOutput
  BY <1>6 DEF CloseOutput, Stop
<1> QED
  BY <1>1, <1>2, <1>3, <1>4, <1>5, <1>6

\* An input that fails before its conversion ends with a record of the failure.
LEMMA FailFacts ==
  ASSUME TypeOK, ResolveFails \/ PrepareFailed
  PROVE  /\ UNCHANGED <<optionVars, receipt, queue, dst, disk, convVars, exit, edits>>
         /\ pc \in {"resolve"} \cup Converting
         /\ \E p \in Paths \cup {NoPath} : GiveUp(p)
<1> USE DEF optionVars, convVars, Converting
<1>1. CASE ResolveFails
  BY <1>1 DEF ResolveFails
<1>2. OutputPath \in Paths \cup {NoPath}
  BY DEF OutputPath, TypeOK
<1>3. CASE PrepareFailed
  BY <1>2, <1>3 DEF PrepareFailed
<1> QED
  BY <1>1, <1>3

\* One more record keeps the loop's bookkeeping.
LEMMA LoopRecord ==
  ASSUME TypeOK, Loop, pc \in {"resolve"} \cup Converting, exit # "ok", Advance,
         UNCHANGED <<queue, requested, exit>>,
         Len(records') = Len(records) + 1,
         DOMAIN records' = DOMAIN records \cup {Len(records) + 1},
         records'[Len(records) + 1].input = src,
         \A i \in DOMAIN records : records'[i] = records[i],
         Result' = 0 => Result = 0 /\ records'[Len(records) + 1].ok
  PROVE  Loop'
<1>1. Len(records) = pos - 1 /\ pos \in Nat /\ Len(queue) \in Nat /\ pos <= Len(queue)
  BY DEF Loop, TypeOK
<1>2. /\ pc' \in {"resolve", "finish"}
      /\ pc' = "resolve" => pos' = pos + 1
      /\ pc' = "finish" => pos = Len(queue)
  BY AdvanceFacts
<1>3. Len(records') = pos
  BY <1>1
<1>4. \A i \in DOMAIN records' : records'[i].input = queue'[i]
  BY <1>1 DEF Loop, src
<1>5. Result' = 0 => \A i \in DOMAIN records' : records'[i].ok
  BY DEF Loop
<1>6. Range(queue') \subseteq Range(requested')
  BY DEF Loop
<1>7. pc' \notin Early \cup Late \/ (pc' = "finish" /\ Len(records') = Len(queue'))
  BY <1>2, <1>3 DEF Early, Late
<1>8. pc' \in Early \cup {"resolve"} \cup Converting => pc' = "resolve"
  BY <1>2 DEF Early, Converting
<1>9. Len(records') <= Len(queue') /\ (pc' = "resolve" => Len(records') = pos' - 1)
  BY <1>1, <1>2, <1>3
<1> QED
  BY <1>2, <1>4, <1>5, <1>6, <1>7, <1>8, <1>9 DEF Loop, Early, Late

\* A run whose paths conflict stays unpublished.
LEMMA PreflightNext == IInv /\ [Next]_vars => Preflight'
<1> SUFFICES ASSUME IInv, [Next]_vars PROVE Preflight'
  OBVIOUS
<1> USE DEF IInv, Preflight, optionVars
<1> USE Options
<1>0. Refused' = Refused
  BY DEF Refused, ManyToOne, SameArtifact, ReceiptConflict, OwnOutput, Src, Out, InDir, optionVars
<1> USE <1>0
<1>1. ASSUME PreflightRefuses PROVE Preflight'
  BY <1>1 DEF PreflightRefuses, Stop
<1>2. ASSUME PreflightAdmits PROVE Preflight'
  BY <1>2 DEF PreflightAdmits, Refused
<1>3. ASSUME OpenReceipt PROVE Preflight'
  <2>1. ~Refused /\ pc # "exit"
    BY <1>3 DEF OpenReceipt
  <2> QED
    BY <1>3, <2>1 DEF OpenReceipt, Stop
<1>4. ASSUME OrderInputs PROVE Preflight'
  <2>1. ~Refused /\ pc # "exit"
    BY <1>4 DEF OrderInputs
  <2> QED
    BY <1>4, <2>1 DEF OrderInputs, Stop
<1>5. ASSUME ResolveFails \/ PrepareFailed PROVE Preflight'
  <2>1. pc' \in {"resolve", "finish"} /\ exit' = exit /\ ~Refused /\ pc # "exit"
    BY <1>5, FailFacts, GiveUpFacts, AdvanceFacts DEF Converting
  <2> QED
    BY <2>1
<1>6. ASSUME Resolve PROVE Preflight'
  <2>1. ~Refused /\ pc # "exit"
    BY <1>6 DEF Resolve
  <2> QED
    BY <1>6, <2>1 DEF Resolve, Stop
<1>7. ASSUME Prepare PROVE Preflight'
  <2>1. ~Refused /\ pc # "exit"
    BY <1>7 DEF Prepare
  <2> QED
    BY <1>7, <2>1 DEF Prepare, Stop
<1>8. ASSUME ConvertClosure \/ Capture \/ Parse \/ Verify \/ OpenOutput \/ CloseOutput PROVE Preflight'
  <2>1. ~Refused /\ pc # "exit"
    BY <1>8, ConvertFacts DEF Converting
  <2>2. \/ pc' = "exit" /\ exit' = "error"
        \/ pc' \notin {"exit", "open"} /\ exit' = exit
    BY <1>8, ConvertFacts, EndFacts, AdvanceFacts
  <2> QED
    BY <2>1, <2>2
<1>9. ASSUME Finish PROVE Preflight'
  <2>1. ~Refused /\ pc # "exit"
    BY <1>9 DEF Finish
  <2> QED
    BY <1>9, <2>1 DEF Finish, Stop
<1>10. ASSUME ReturnFromMain PROVE Preflight'
  BY <1>10 DEF ReturnFromMain, Stop
<1>11. ASSUME UserEdits PROVE Preflight'
  <2>1. /\ UNCHANGED <<receipt, pc, exit>>
        /\ \A p \in Paths : disk[p].state # "receipt" => disk'[p].state # "receipt"
    BY <1>11 DEF UserEdits, Text
  <2> QED
    BY <2>1
<1>12. ASSUME Crash PROVE Preflight'
  BY <1>12 DEF Crash, Stop
<1>13. ASSUME UNCHANGED vars PROVE Preflight'
  BY <1>13 DEF vars
<1> QED
  BY <1>1, <1>2, <1>3, <1>4, <1>5, <1>6, <1>7, <1>8, <1>9,
     <1>10, <1>11, <1>12, <1>13
     DEF Next, Step

\* The list, the position in it and the records go together.
LEMMA LoopNext == IInv /\ [Next]_vars => Loop'
<1> SUFFICES ASSUME IInv, [Next]_vars PROVE Loop'
  OBVIOUS
<1> USE DEF IInv, TypeOK, Loop, Preflight, optionVars, Early, Converting, Late
<1> USE Options
<1>1. ASSUME PreflightRefuses PROVE Loop'
  BY <1>1 DEF PreflightRefuses, Stop
<1>2. ASSUME PreflightAdmits PROVE Loop'
  BY <1>2 DEF PreflightAdmits
<1>3. ASSUME OpenReceipt PROVE Loop'
  BY <1>3 DEF OpenReceipt, Stop
<1>4. ASSUME OrderInputs PROVE Loop'
  <2>2. queue' \in Seq(Sources) /\ queue' # <<>> /\ Range(queue') \subseteq Range(requested)
    BY <1>4, ListFacts
  <2>3. pos' = 1 /\ pc' = "resolve" /\ exit' = "no" /\ UNCHANGED <<records, Result, requested>>
    BY <1>4 DEF OrderInputs, Preflight
  <2>4. Len(records) = 0 /\ DOMAIN records = {} /\ Len(queue') \in Nat
    BY <1>4, <2>2 DEF OrderInputs
  <2> QED
    BY <2>2, <2>3, <2>4
<1>5. ASSUME ResolveFails \/ PrepareFailed PROVE Loop'
  <2>1. PICK p \in Paths \cup {NoPath} : GiveUp(p)
    BY <1>5, FailFacts
  <2>2. /\ Advance /\ Result' = 1 /\ Len(records') = Len(records) + 1
        /\ DOMAIN records' = DOMAIN records \cup {Len(records) + 1}
        /\ records'[Len(records) + 1].input = src
        /\ \A i \in DOMAIN records : records'[i] = records[i]
        /\ queue' = queue /\ exit' = exit
    BY <1>5, <2>1, FailFacts, GiveUpFacts
  <2>3. pc \in {"resolve"} \cup Converting /\ exit # "ok"
    BY <1>5, FailFacts
  <2> QED
    BY <2>2, <2>3, LoopRecord
<1>6. ASSUME Resolve PROVE Loop'
  BY <1>6 DEF Resolve
<1>7. ASSUME Prepare PROVE Loop'
  BY <1>7 DEF Prepare
<1>8. ASSUME ConvertClosure \/ Capture \/ Parse \/ Verify \/ OpenOutput \/ CloseOutput PROVE Loop'
  <2>1. Len(records) = pos - 1 /\ exit # "ok" /\ queue' = queue
    BY <1>8, ConvertFacts
  <2>2. CASE (\E ok \in BOOLEAN : EndInput(ok)) /\ exit' = exit
    <3>1. PICK ok \in BOOLEAN : EndInput(ok)
      BY <2>2
    <3>2. /\ Advance /\ Len(records') = Len(records) + 1
          /\ DOMAIN records' = DOMAIN records \cup {Len(records) + 1}
          /\ records'[Len(records) + 1].input = src /\ records'[Len(records) + 1].ok = ok
          /\ \A i \in DOMAIN records : records'[i] = records[i]
          /\ Result' = IF ok THEN Result ELSE 1
      BY <2>1, <3>1, EndFacts
    <3> QED
      BY <1>8, <2>1, <2>2, <3>2, LoopRecord, ConvertFacts
  <2>3. CASE /\ UNCHANGED <<pos, dst, records, Result, exit>>
             /\ pc' \in {"parse", "verify", "write", "close"}
    BY <2>1, <2>3
  <2>4. CASE UNCHANGED <<pos, dst, records, Result>> /\ pc' = "exit" /\ exit' = "error"
    BY <2>1, <2>4
  <2> QED
    BY <1>8, <2>2, <2>3, <2>4, ConvertFacts
<1>9. ASSUME Finish PROVE Loop'
  BY <1>9 DEF Finish
<1>10. ASSUME ReturnFromMain PROVE Loop'
  BY <1>10 DEF ReturnFromMain, Stop
<1>11. ASSUME UserEdits PROVE Loop'
  BY <1>11 DEF UserEdits
<1>12. ASSUME Crash PROVE Loop'
  BY <1>12 DEF Crash, Stop
<1>13. ASSUME UNCHANGED vars PROVE Loop'
  BY <1>13 DEF vars
<1> QED
  BY <1>1, <1>2, <1>3, <1>4, <1>5, <1>6, <1>7, <1>8, <1>9,
     <1>10, <1>11, <1>12, <1>13
     DEF Next, Step

-----------------------------------------------------------------------------
(* What is written *)

\* Two requested sources with one output are one source.
LEMMA OwnOutputs ==
  ASSUME TypeOK, ~Refused, NEW x \in Range(requested), NEW y \in Range(requested),
         mode # "none", OwnOutput(x) = OwnOutput(y)
  PROVE  x = y
<1>1. PICK i \in DOMAIN requested, j \in DOMAIN requested : requested[i] = x /\ requested[j] = y
  BY DEF Range
<1>2. CASE mode = "file"
  <2>1. Len(requested) <= 1 /\ requested \in Seq(Sources)
    BY <1>2, RequestFacts DEF Refused, ManyToOne, TypeOK
  <2>2. i = j
    BY <2>1
  <2> QED
    BY <1>1, <2>2
<1>3. CASE mode = "dir"
  <2>1. base[x] = base[y]
    BY <1>3 DEF OwnOutput, InDir
  <2>2. i = j
    BY <1>1, <1>3, <2>1 DEF Refused, SameArtifact
  <2> QED
    BY <1>1, <2>2
<1>4. CASE mode = "inplace"
  BY <1>4 DEF OwnOutput, Src
<1>5. CASE mode = "side"
  BY <1>5 DEF OwnOutput, Out
<1> QED
  BY <1>2, <1>3, <1>4, <1>5 DEF TypeOK, Modes

\* Only the output of a source converted in place is a source.
LEMMA OwnSource ==
  ASSUME NEW s, NEW x, OwnOutput(x) = Src(s)
  PROVE  s = x /\ mode = "inplace"
BY DEF OwnOutput, Src, Out, InDir

\* A step of a conversion writes nothing, opens the output, or leaves a whole
\* translation in it; it leaves one whenever the input ends well.
WritesNothing ==
  /\ disk' = disk
  /\ pc' \in {"resolve", "finish"} /\ Result' = 0 => mode = "none"
  /\ pc' # "close" /\ (pc = "close" => pc' \in {"resolve", "finish", "exit"})
Opens ==
  /\ mode # "none" /\ pc = "write" /\ pc' = "close"
  /\ disk' = [disk EXCEPT ![dst] = Text("torn", src, snapshot.v, snapshot.n)]
Translates(x) ==
  /\ mode # "none" /\ pc' \in {"resolve", "finish"}
  /\ disk' = [disk EXCEPT ![dst] = Translation(x, x)]

LEMMA OutputFacts ==
  ASSUME TypeOK, OneVersion,
         ConvertClosure \/ Capture \/ Parse \/ Verify \/ OpenOutput \/ CloseOutput
  PROVE  \/ WritesNothing
         \/ Opens
         \/ pc = "closure" /\ Translates(disk[Src(src)])
         \/ pc = "close" /\ Translates(snapshot)
<1>1. /\ EndInput(TRUE) => pc' \in {"resolve", "finish"}
      /\ EndInput(FALSE) => pc' \in {"resolve", "finish"} /\ Result' = 1
  BY DEF EndInput, Advance
<1> USE DEF optionVars, convVars
<1>2. CASE ConvertClosure
  <2>1. CASE EndInput(FALSE) /\ disk' = disk
    BY <1>2, <1>1, <2>1 DEF ConvertClosure, WritesNothing
  <2>2. CASE EndInput(TRUE) /\ mode = "none"
    BY <1>1, <1>2, <2>2 DEF ConvertClosure, WritesNothing
  <2>3. CASE EndInput(TRUE) /\ mode # "none"
             /\ disk' = [disk EXCEPT ![dst] = Translation(disk[Src(src)], disk[Src(src)])]
    BY <1>1, <1>2, <2>3 DEF ConvertClosure, Translates
  <2> QED
    BY <1>2, <2>1, <2>2, <2>3 DEF ConvertClosure
<1>3. CASE Capture
  <2>1. CASE EndInput(FALSE) /\ disk' = disk
    BY <1>3, <1>1, <2>1 DEF Capture, WritesNothing
  <2>2. CASE pc' = "parse" /\ disk' = disk
    BY <1>3, <2>2 DEF Capture, WritesNothing
  <2> QED
    BY <1>3, <2>1, <2>2 DEF Capture
<1>4. CASE Parse
  <2>1. CASE EndInput(FALSE) /\ disk' = disk
    BY <1>4, <1>1, <2>1 DEF Parse, WritesNothing
  <2>2. CASE pc' = "verify" /\ disk' = disk
    BY <1>4, <2>2 DEF Parse, WritesNothing
  <2> QED
    BY <1>4, <2>1, <2>2 DEF Parse
<1>5. CASE Verify
  <2>1. disk' = disk
    BY <1>5 DEF Verify
  <2>2. CASE EndInput(FALSE)
    BY <1>5, <1>1, <2>1, <2>2 DEF Verify, WritesNothing
  <2>3. CASE mode = "none" /\ EndInput(TRUE)
    BY <1>5, <1>1, <2>1, <2>3 DEF Verify, WritesNothing
  <2>4. CASE pc' = "write"
    BY <1>5, <2>1, <2>4 DEF Verify, WritesNothing
  <2>5. EndInput(FALSE) \/ (mode = "none" /\ EndInput(TRUE)) \/ pc' = "write"
    BY <1>5, Zenon DEF Verify
  <2> QED
    BY <2>2, <2>3, <2>4, <2>5
<1>6. CASE OpenOutput
  <2>1. CASE EndInput(FALSE) /\ disk' = disk
    BY <1>6, <1>1, <2>1 DEF OpenOutput, WritesNothing
  <2>2. CASE pc' = "close" /\ disk' = [disk EXCEPT ![dst] = Text("torn", src, snapshot.v, snapshot.n)]
    BY <1>6, <2>2 DEF OpenOutput, Opens, OneVersion
  <2> QED
    BY <1>6, <2>1, <2>2 DEF OpenOutput
<1>7. CASE CloseOutput
  <2>1. CASE EndInput(TRUE) /\ disk' = [disk EXCEPT ![dst] = Translation(snapshot, parsed)]
    BY <1>1, <1>7, <2>1 DEF CloseOutput, Translates, OneVersion
  <2>2. CASE EndInput(FALSE) /\ disk' = disk
    BY <1>7, <1>1, <2>2 DEF CloseOutput, WritesNothing
  <2>3. CASE pc' = "exit" /\ disk' = disk
    BY <1>7, <2>3 DEF CloseOutput, WritesNothing
  <2> QED
    BY <1>7, <2>1, <2>2, <2>3 DEF CloseOutput, Stop
<1> QED
  BY <1>2, <1>3, <1>4, <1>5, <1>6, <1>7

\* A written path holds a torn or a whole text.
LEMMA WrittenFacts ==
  ASSUME TypeOK, OneVersion, NEW p \in Paths,
         ConvertClosure \/ Capture \/ Parse \/ Verify \/ OpenOutput \/ CloseOutput
  PROVE  disk'[p] = disk[p] \/ disk'[p].state \in {"torn", "whole"}
<1>1. src \in Sources
  BY DEF src, TypeOK
<1>2. disk[Src(src)] \in Texts /\ snapshot \in Texts
  BY <1>1, PathFacts DEF TypeOK
<1>3. /\ Translation(disk[Src(src)], disk[Src(src)]).state = "whole"
      /\ Translation(snapshot, snapshot).state = "whole"
  BY <1>2, TranslationFacts
<1>4. Text("torn", src, snapshot.v, snapshot.n).state = "torn"
  BY DEF Text
<1>5. disk \in [Paths -> Texts]
  BY DEF TypeOK
<1> QED
  BY <1>3, <1>4, <1>5, OutputFacts DEF WritesNothing, Opens, Translates

\* A succeeded receipt comes last, and receipts stay at their own path.
LEMMA ReceiptsNext == IInv /\ [Next]_vars => Receipts'
<1> SUFFICES ASSUME IInv, [Next]_vars PROVE Receipts'
  OBVIOUS
<1> USE DEF IInv, TypeOK, Receipts, Preflight, Loop, optionVars, convVars, Converting
<1> USE Options
<1>1. ASSUME PreflightRefuses PROVE Receipts'
  BY <1>1 DEF PreflightRefuses, Stop, Late
<1>2. ASSUME PreflightAdmits PROVE Receipts'
  BY <1>2 DEF PreflightAdmits
<1>3. ASSUME OpenReceipt PROVE Receipts'
  <2>1. \A p \in Paths : disk'[p].state = "receipt" => p = rpath
    BY <1>3, TextFacts DEF OpenReceipt, PublishReceipt
  <2> QED
    BY <1>3, <2>1 DEF OpenReceipt, PublishReceipt, Stop, Late
<1>4. ASSUME OrderInputs PROVE Receipts'
  BY <1>4 DEF OrderInputs
<1>5. ASSUME ResolveFails \/ PrepareFailed PROVE Receipts'
  <2>1. UNCHANGED <<receipt, disk, exit>> /\ pc \in {"resolve"} \cup Converting
    BY <1>5, FailFacts
  <2>2. pc' \in {"resolve", "finish"}
    BY <1>5, FailFacts, GiveUpFacts, AdvanceFacts
  <2> QED
    BY <2>1, <2>2
<1>6. ASSUME Resolve PROVE Receipts'
  BY <1>6 DEF Resolve
<1>7. ASSUME Prepare PROVE Receipts'
  BY <1>7 DEF Prepare
<1>8. ASSUME ConvertClosure \/ Capture \/ Parse \/ Verify \/ OpenOutput \/ CloseOutput PROVE Receipts'
  <2>1. receipt' = receipt /\ pc \in Converting /\ exit' # "ok" /\ pc' # "return"
    BY <1>8, ConvertFacts, EndFacts, AdvanceFacts
  <2>2. \A p \in Paths : disk'[p].state = "receipt" => disk[p].state = "receipt"
    BY <1>8, WrittenFacts
  <2> QED
    BY <2>1, <2>2
<1>9. ASSUME Finish PROVE Receipts'
  <2>1. \A p \in Paths : disk'[p].state = "receipt" => p = rpath
    BY <1>9, TextFacts DEF Finish, PublishReceipt
  <2> QED
    BY <1>9, <2>1 DEF Finish, PublishReceipt, Stop, Late
<1>10. ASSUME ReturnFromMain PROVE Receipts'
  BY <1>10 DEF ReturnFromMain, Stop, Late
<1>11. ASSUME UserEdits PROVE Receipts'
  <2>1. \A p \in Paths : disk'[p].state = "receipt" => disk[p].state = "receipt"
    BY <1>11 DEF UserEdits, Text
  <2> QED
    BY <1>11, <2>1 DEF UserEdits
<1>12. ASSUME Crash PROVE Receipts'
  BY <1>12 DEF Crash, Stop, Late
<1>13. ASSUME UNCHANGED vars PROVE Receipts'
  BY <1>13 DEF vars
<1> QED
  BY <1>1, <1>2, <1>3, <1>4, <1>5, <1>6, <1>7, <1>8, <1>9,
     <1>10, <1>11, <1>12, <1>13
     DEF Next, Step

\* No requested source but a droppable one leaves the list.
LEMMA NoneLostNext == IInv /\ [Next]_vars => NoneLost'
<1> SUFFICES ASSUME IInv, [Next]_vars PROVE NoneLost'
  OBVIOUS
<1>1. requested' = requested /\ Droppable' = Droppable
  BY Options DEF optionVars, Droppable
<1>2. CASE queue' = queue
  BY <1>1, <1>2 DEF IInv, NoneLost
<1>3. CASE OrderInputs
  BY <1>1, <1>3, ListFacts DEF IInv, TypeOK, NoneLost
<1>4. queue' = queue \/ OrderInputs
  BY DEF Next, Step, vars, PreflightRefuses, PreflightAdmits, OpenReceipt,
         ResolveFails, Resolve, PrepareFailed, Prepare, ConvertClosure, Capture, Parse, Verify,
         OpenOutput, CloseOutput, Finish, ReturnFromMain, UserEdits, Crash
<1> QED
  BY <1>2, <1>3, <1>4

\* Nothing is written before the receipt of the run is on disk.
LEMMA OpenedNext == IInv /\ [Next]_vars => Opened'
<1> SUFFICES ASSUME IInv, [Next]_vars, rpath' # NoReceipt, receipt' \in {"none", "old"}
             PROVE  /\ pc' \in {"preflight", "open", "exit"}
                    /\ \A p \in Paths' : disk'[p].state # "torn" /\ disk'[p].n = 0
  BY DEF Opened
<1> USE DEF IInv, optionVars, convVars
<1>1. rpath' = rpath /\ Paths' = Paths
  BY Options
<1>2. CASE PreflightRefuses \/ PreflightAdmits \/ (OpenReceipt /\ disk' = disk)
           \/ Crash \/ UNCHANGED vars
  BY <1>1, <1>2 DEF PreflightRefuses, PreflightAdmits, OpenReceipt, PublishReceipt, Crash, Stop,
                    vars, Opened
<1>3. CASE OpenReceipt /\ receipt' # receipt
  BY <1>3 DEF OpenReceipt, PublishReceipt
<1>4. CASE UserEdits
  <2>1. pc' = pc /\ receipt' = receipt
    BY <1>4 DEF UserEdits
  <2>2. PICK s \in Range(requested), v \in 1..2 :
          disk' = [disk EXCEPT ![Src(s)] = Text("whole", s, v, 0)]
    BY <1>4 DEF UserEdits
  <2>3. \A p \in Paths : disk'[p] = disk[p] \/ disk'[p] = Text("whole", s, v, 0)
    BY <2>2 DEF TypeOK
  <2> QED
    BY <1>1, <2>1, <2>3 DEF Opened, Text
<1>5. CASE pc \notin {"preflight", "open", "exit"} /\ receipt' = receipt
  BY <1>1, <1>5 DEF Opened
<1>6. CASE Finish /\ receipt' # receipt
  BY <1>6 DEF Finish, PublishReceipt
<1>7. \/ PreflightRefuses \/ PreflightAdmits \/ OpenReceipt \/ Finish
      \/ UserEdits \/ Crash \/ UNCHANGED vars
      \/ pc \notin {"preflight", "open", "exit"} /\ receipt' = receipt
  BY DEF Next, Step, OrderInputs, ResolveFails, Resolve, PrepareFailed, Prepare, ConvertClosure,
         Capture, Parse, Verify, OpenOutput, CloseOutput, ReturnFromMain
<1>8. OpenReceipt => disk' = disk \/ receipt' # receipt
  BY DEF OpenReceipt, PublishReceipt, Opened, Receipts
<1>9. Finish => pc = "finish"
  BY DEF Finish
<1> QED
  BY <1>2, <1>3, <1>4, <1>5, <1>6, <1>7, <1>8, <1>9

\* Only one version of a source goes into an output.
LEMMA VersionNext == IInv /\ [Next]_vars => (OneVersion /\ NoMixedVersions)'
<1> SUFFICES ASSUME IInv, [Next]_vars PROVE (OneVersion /\ NoMixedVersions)'
  OBVIOUS
<1> USE DEF IInv, TypeOK, OneVersion, NoMixedVersions, optionVars, convVars
<1> USE Options
<1>1. ASSUME PreflightRefuses PROVE (OneVersion /\ NoMixedVersions)'
  BY <1>1 DEF PreflightRefuses, Stop
<1>2. ASSUME PreflightAdmits PROVE (OneVersion /\ NoMixedVersions)'
  BY <1>2 DEF PreflightAdmits
<1>3. ASSUME OpenReceipt PROVE (OneVersion /\ NoMixedVersions)'
  BY <1>3, TextFacts DEF OpenReceipt, PublishReceipt, ReceiptText, Text, Stop
<1>4. ASSUME OrderInputs PROVE (OneVersion /\ NoMixedVersions)'
  BY <1>4 DEF OrderInputs
<1>5. ASSUME ResolveFails \/ PrepareFailed PROVE (OneVersion /\ NoMixedVersions)'
  <2>1. disk' = disk /\ pc' \in {"resolve", "finish"}
    BY <1>5, FailFacts, GiveUpFacts, AdvanceFacts
  <2> QED
    BY <2>1
<1>6. ASSUME Resolve PROVE (OneVersion /\ NoMixedVersions)'
  BY <1>6 DEF Resolve
<1>7. ASSUME Prepare PROVE (OneVersion /\ NoMixedVersions)'
  BY <1>7 DEF Prepare
<1>8. ASSUME ConvertClosure PROVE (OneVersion /\ NoMixedVersions)'
  <2>1. \A p \in Paths : disk'[p].state # "mixed"
    BY <1>8, WrittenFacts
  <2>2. OneVersion'
    <3>1. CASE (\E ok \in BOOLEAN : EndInput(ok))
      BY <3>1, <1>8, ConvertFacts, EndFacts, AdvanceFacts
    <3>2. CASE ~(\E ok \in BOOLEAN : EndInput(ok))
      BY <3>2, <1>8 DEF ConvertClosure, Stop
    <3> QED
      BY <3>1, <3>2
  <2> QED
    BY <2>1, <2>2
<1>9. ASSUME Capture PROVE (OneVersion /\ NoMixedVersions)'
  <2>1. \A p \in Paths : disk'[p].state # "mixed"
    BY <1>9, WrittenFacts
  <2>2. OneVersion'
    <3>1. CASE (\E ok \in BOOLEAN : EndInput(ok))
      BY <3>1, <1>9, ConvertFacts, EndFacts, AdvanceFacts
    <3>2. CASE ~(\E ok \in BOOLEAN : EndInput(ok))
      BY <3>2, <1>9 DEF Capture, Stop
    <3> QED
      BY <3>1, <3>2
  <2> QED
    BY <2>1, <2>2
<1>10. ASSUME Parse PROVE (OneVersion /\ NoMixedVersions)'
  <2>1. \A p \in Paths : disk'[p].state # "mixed"
    BY <1>10, WrittenFacts
  <2>2. OneVersion'
    <3>1. CASE (\E ok \in BOOLEAN : EndInput(ok))
      BY <3>1, <1>10, ConvertFacts, EndFacts, AdvanceFacts
    <3>2. CASE ~(\E ok \in BOOLEAN : EndInput(ok))
      BY <3>2, <1>10 DEF Parse, Stop
    <3> QED
      BY <3>1, <3>2
  <2> QED
    BY <2>1, <2>2
<1>11. ASSUME Verify PROVE (OneVersion /\ NoMixedVersions)'
  <2>1. \A p \in Paths : disk'[p].state # "mixed"
    BY <1>11, WrittenFacts
  <2>2. OneVersion'
    <3>1. CASE (\E ok \in BOOLEAN : EndInput(ok))
      BY <3>1, <1>11, ConvertFacts, EndFacts, AdvanceFacts
    <3>2. CASE ~(\E ok \in BOOLEAN : EndInput(ok))
      BY <3>2, <1>11 DEF Verify, Stop
    <3> QED
      BY <3>1, <3>2
  <2> QED
    BY <2>1, <2>2
<1>12. ASSUME OpenOutput PROVE (OneVersion /\ NoMixedVersions)'
  <2>1. \A p \in Paths : disk'[p].state # "mixed"
    BY <1>12, WrittenFacts
  <2>2. OneVersion'
    <3>1. CASE (\E ok \in BOOLEAN : EndInput(ok))
      BY <3>1, <1>12, ConvertFacts, EndFacts, AdvanceFacts
    <3>2. CASE ~(\E ok \in BOOLEAN : EndInput(ok))
      BY <3>2, <1>12 DEF OpenOutput, Stop
    <3> QED
      BY <3>1, <3>2
  <2> QED
    BY <2>1, <2>2
<1>13. ASSUME CloseOutput PROVE (OneVersion /\ NoMixedVersions)'
  <2>1. \A p \in Paths : disk'[p].state # "mixed"
    BY <1>13, WrittenFacts
  <2>2. OneVersion'
    <3>1. CASE (\E ok \in BOOLEAN : EndInput(ok))
      BY <3>1, <1>13, ConvertFacts, EndFacts, AdvanceFacts
    <3>2. CASE ~(\E ok \in BOOLEAN : EndInput(ok))
      BY <3>2, <1>13 DEF CloseOutput, Stop
    <3> QED
      BY <3>1, <3>2
  <2> QED
    BY <2>1, <2>2
<1>14. ASSUME Finish PROVE (OneVersion /\ NoMixedVersions)'
  BY <1>14, TextFacts DEF Finish, PublishReceipt, ReceiptText, Text, Stop
<1>15. ASSUME ReturnFromMain PROVE (OneVersion /\ NoMixedVersions)'
  BY <1>15 DEF ReturnFromMain, Stop
<1>16. ASSUME UserEdits PROVE (OneVersion /\ NoMixedVersions)'
  BY <1>16 DEF UserEdits, Text
<1>17. ASSUME Crash PROVE (OneVersion /\ NoMixedVersions)'
  BY <1>17 DEF Crash, Stop
<1>18. ASSUME UNCHANGED vars PROVE (OneVersion /\ NoMixedVersions)'
  BY <1>18 DEF vars
<1> QED
  BY <1>1, <1>2, <1>3, <1>4, <1>5, <1>6, <1>7, <1>8, <1>9,
     <1>10, <1>11, <1>12, <1>13, <1>14, <1>15, <1>16, <1>17, <1>18
     DEF Next, Step

\* While nothing has failed, dst is never another input's.
LEMMA AimedNext == IInv /\ [Next]_vars => Aimed'
<1> SUFFICES ASSUME IInv, [Next]_vars PROVE Aimed'
  OBVIOUS
<1> USE DEF IInv, TypeOK, Aimed, Preflight, Loop, optionVars, convVars, Early, Converting
<1> USE Options
<1>1. ASSUME PreflightRefuses PROVE Aimed'
  BY <1>1 DEF PreflightRefuses, Stop, Out
<1>2. ASSUME PreflightAdmits PROVE Aimed'
  BY <1>2 DEF PreflightAdmits, Out
<1>3. ASSUME OpenReceipt PROVE Aimed'
  BY <1>3 DEF OpenReceipt, Stop, Out
<1>4. ASSUME OrderInputs PROVE Aimed'
  BY <1>4 DEF OrderInputs, Out
<1>5. ASSUME ResolveFails \/ PrepareFailed PROVE Aimed'
  <2>1. Result' = 1
    BY <1>5, FailFacts, GiveUpFacts
  <2> QED
    BY <2>1
<1>6. ASSUME Resolve PROVE Aimed'
  <2>1. ~Refused /\ src \in Range(queue) /\ src \in Range(requested)
    BY <1>6 DEF Resolve, src, Range
  <2>2. UNCHANGED <<queue, pos, base, mode, requested, Result>> /\ pc' = "prepare"
    BY <1>6 DEF Resolve
  <2>3. src' = src /\ OwnOutput(src)' = OwnOutput(src)
    BY <2>2 DEF src, OwnOutput, Src, Out, InDir
  <2>4. Result = 0 => dst' = OwnOutput(src)
    <3>1. CASE dst = NoPath
      BY <1>6, <3>1 DEF Resolve
    <3>2. CASE dst # NoPath /\ Result = 0
      <4>1. mode = "file" /\ dst = Out(requested[1]) /\ dst' = dst
        BY <1>6, <3>2 DEF Resolve
      <4>2. Len(requested) <= 1 /\ requested \in Seq(Sources)
        BY <2>1, <4>1, RequestFacts DEF Refused, ManyToOne
      <4>3. src = requested[1]
        BY <2>1, <4>2 DEF Range
      <4> QED
        BY <4>1, <4>3 DEF OwnOutput
    <3> QED
      BY <3>1, <3>2
  <2> QED
    BY <2>2, <2>3, <2>4
<1>7. ASSUME Prepare PROVE Aimed'
  <2>1. src' = src /\ OwnOutput(src)' = OwnOutput(src)
    BY <1>7 DEF Prepare, src, OwnOutput, Src, Out, InDir
  <2> QED
    BY <1>7, <2>1 DEF Prepare
<1>8. ASSUME ConvertClosure \/ Capture \/ Parse \/ Verify \/ OpenOutput \/ CloseOutput PROVE Aimed'
  <2>1. UNCHANGED <<queue, base, mode, requested>> /\ pc \in Converting
    BY <1>8, ConvertFacts
  <2>2. CASE (\E ok \in BOOLEAN : EndInput(ok))
    BY <2>1, <2>2, EndFacts, AdvanceFacts
  <2>3. CASE UNCHANGED <<pos, dst, records, Result>> /\ pc' \in {"parse", "verify", "write", "close", "exit"}
    <3>1. src' = src /\ OwnOutput(src)' = OwnOutput(src)
      BY <2>1, <2>3 DEF src, OwnOutput, Src, Out, InDir
    <3> QED
      BY <2>1, <2>3, <3>1
  <2> QED
    BY <1>8, <2>2, <2>3, ConvertFacts
<1>9. ASSUME Finish PROVE Aimed'
  BY <1>9 DEF Finish, Stop, Out
<1>10. ASSUME ReturnFromMain PROVE Aimed'
  BY <1>10 DEF ReturnFromMain, Stop, Out
<1>11. ASSUME UserEdits PROVE Aimed'
  <2>1. src' = src /\ OwnOutput(src)' = OwnOutput(src)
    BY <1>11 DEF UserEdits, src, OwnOutput, Src, Out, InDir
  <2> QED
    BY <1>11, <2>1 DEF UserEdits, Out
<1>12. ASSUME Crash PROVE Aimed'
  BY <1>12 DEF Crash, Stop, Out
<1>13. ASSUME UNCHANGED vars PROVE Aimed'
  BY <1>13 DEF vars, src, OwnOutput, Src, Out, InDir
<1> QED
  BY <1>1, <1>2, <1>3, <1>4, <1>5, <1>6, <1>7, <1>8, <1>9,
     <1>10, <1>11, <1>12, <1>13
     DEF Next, Step

\* What Delivered says of an input that is done.
Done(s) ==
  LET held == disk[OwnOutput(s)] IN
  held.state = "whole" /\ held.of = s /\ held.n > 0

\* What a conversion writes while no input has failed: a text of its own source,
\* torn until it is whole.
LEMMA OwnText ==
  ASSUME IInv, ~Refused, Result = 0, exit = "no", src \in Range(requested),
         ConvertClosure \/ Capture \/ Parse \/ Verify \/ OpenOutput \/ CloseOutput
  PROVE  \/ WritesNothing
         \/ /\ mode # "none"
            /\ \E x \in Texts :
                 /\ disk' = [disk EXCEPT ![dst] = x] /\ x.of = src
                 /\ \/ x.state = "torn" /\ pc' = "close"
                    \/ x.state = "whole" /\ x.n > 0 /\ pc' \in {"resolve", "finish"}
<1>1. src \in Sources /\ disk[Src(src)] \in Texts /\ snapshot \in Texts
  BY PathFacts DEF IInv, TypeOK, src
<1>2. disk[Src(src)].of = src /\ (pc \in {"write", "close"} => snapshot.of = src)
  BY DEF IInv, Delivered
<1>3. CASE Opens
  <2> DEFINE x == Text("torn", src, snapshot.v, snapshot.n)
  <2>1. x \in Texts /\ x.of = src /\ x.state = "torn"
    BY <1>1 DEF Text, Texts, States
  <2> HIDE DEF x
  <2>2. mode # "none" /\ disk' = [disk EXCEPT ![dst] = x] /\ pc' = "close"
    BY <1>3 DEF Opens, x
  <2> QED
    BY <2>1, <2>2
<1>4. CASE pc = "closure" /\ Translates(disk[Src(src)])
  <2> DEFINE x == Translation(disk[Src(src)], disk[Src(src)])
  <2>1. x \in Texts /\ x.of = src /\ x.state = "whole" /\ x.n > 0
    BY <1>1, <1>2, TranslationFacts
  <2> HIDE DEF x
  <2>2. mode # "none" /\ disk' = [disk EXCEPT ![dst] = x] /\ pc' \in {"resolve", "finish"}
    BY <1>4 DEF Translates, x
  <2> QED
    BY <2>1, <2>2
<1>5. CASE pc = "close" /\ Translates(snapshot)
  <2> DEFINE x == Translation(snapshot, snapshot)
  <2>1. x \in Texts /\ x.of = src /\ x.state = "whole" /\ x.n > 0
    BY <1>1, <1>2, <1>5, TranslationFacts
  <2> HIDE DEF x
  <2>2. mode # "none" /\ disk' = [disk EXCEPT ![dst] = x] /\ pc' \in {"resolve", "finish"}
    BY <1>5 DEF Translates, x
  <2> QED
    BY <2>1, <2>2
<1> QED
  BY <1>3, <1>4, <1>5, OutputFacts DEF IInv

\* A step of a conversion keeps what is delivered, and delivers.
LEMMA ConvertDelivers ==
  ASSUME IInv, ~Refused, Result' = 0, exit' \in {"no", "ok"},
         ConvertClosure \/ Capture \/ Parse \/ Verify \/ OpenOutput \/ CloseOutput
  PROVE  /\ \A s \in Range(requested) : disk'[Src(s)].of = s
         /\ pc' \in {"parse", "verify", "write", "close"} => snapshot'.of = src'
         /\ mode # "none" =>
              \A i \in DOMAIN records' :
                \/ pc' = "close" /\ queue[i] = src'
                \/ Done(queue[i])'
<1> USE DEF IInv
<1>1. /\ UNCHANGED <<requested, base, mode, queue>> /\ pc \in Converting /\ exit = "no"
      /\ \/ /\ pc' \in {"resolve", "finish"} /\ Result = 0
            /\ DOMAIN records' = DOMAIN records \cup {pos}
         \/ /\ pc' \in {"parse", "verify", "write", "close"} /\ Result = 0
            /\ records' = records /\ pos' = pos
  <2>1. UNCHANGED <<requested, base, mode, queue>> /\ pc \in Converting
    BY ConvertFacts DEF optionVars
  <2>2. exit = "no" /\ Len(records) + 1 = pos
    BY <2>1 DEF Preflight, Loop, Converting, TypeOK
  <2>3. CASE \E ok \in BOOLEAN : EndInput(ok)
    BY <2>1, <2>2, <2>3, EndFacts, AdvanceFacts DEF TypeOK
  <2>4. CASE UNCHANGED <<pos, dst, records, Result, exit>>
             /\ pc' \in {"parse", "verify", "write", "close"}
    BY <2>1, <2>2, <2>4
  <2> QED
    BY <2>1, <2>2, <2>3, <2>4, ConvertFacts
<1>2. src \in Range(queue) /\ src \in Range(requested) /\ Range(requested) \subseteq Sources
  BY RequestFacts DEF src, Range, TypeOK, Loop
<1>3. dst = OwnOutput(src) /\ dst \in Paths
  BY <1>1, <1>2, PathFacts DEF Aimed
<1>4. \A s : Src(s)' = Src(s) /\ OwnOutput(s)' = OwnOutput(s)
  BY <1>1 DEF OwnOutput, Src, Out, InDir
<1>5. pc' \in {"parse", "verify", "write", "close"} => src' = src
  BY <1>1 DEF src
<1>6. disk \in [Paths -> Texts] /\ \A s \in Range(requested) : Src(s) \in Paths /\ OwnOutput(s) \in Paths
  BY <1>2, PathFacts DEF TypeOK
<1>7. /\ \A s \in Range(requested) : disk[Src(s)].of = s
      /\ pc \in {"parse", "verify", "write", "close"} => snapshot.of = src
      /\ mode # "none" =>
           \A i \in DOMAIN records : (pc = "close" /\ queue[i] = src) \/ Done(queue[i])
  BY <1>1 DEF Delivered, Done
<1>8. \A i \in DOMAIN records' : queue[i] \in Range(requested) /\ (i \in DOMAIN records \/ queue[i] = src)
  <2>1. DOMAIN records \subseteq DOMAIN queue /\ pos \in DOMAIN queue
    BY DEF Loop, TypeOK
  <2>2. \A i \in DOMAIN queue : queue[i] \in Range(requested)
    BY DEF Loop, Range
  <2> QED
    BY <1>1, <2>1, <2>2 DEF src
<1>9. CASE WritesNothing
  <2>1. disk' = disk /\ (pc' \in {"resolve", "finish"} => mode = "none")
        /\ pc' # "close" /\ (pc = "close" => pc' \in {"resolve", "finish", "exit"})
    BY <1>9 DEF WritesNothing
  <2>2. \A s \in Range(requested) : disk'[Src(s)].of = s
    BY <1>7, <2>1
  <2>3. pc' \in {"parse", "verify", "write", "close"} => snapshot'.of = src'
    <3>1. CASE Capture
      <4>1. EndInput(FALSE) => pc' \in {"resolve", "finish"}
        BY DEF EndInput, Advance
      <4> QED
        BY <1>2, <1>5, <1>7, <3>1, <4>1 DEF Capture
    <3>2. CASE ~Capture /\ pc' \in {"parse", "verify", "write", "close"}
      <4>1. pc \in {"parse", "verify", "write", "close"} /\ snapshot' = snapshot
        <5>1. ~ConvertClosure
          BY <3>2, EndFacts, AdvanceFacts DEF ConvertClosure
        <5> QED
          BY <3>2, <5>1 DEF Parse, Verify, OpenOutput, CloseOutput, convVars
      <4> QED
        BY <1>5, <1>7, <3>2, <4>1
    <3> QED
      BY <3>1, <3>2
  <2>4. ASSUME mode # "none", NEW i \in DOMAIN records' PROVE Done(queue[i])'
    <3>1. i \in DOMAIN records /\ pc # "close"
      BY <1>1, <2>1, <2>4
    <3>2. Done(queue[i])
      BY <1>7, <2>4, <3>1
    <3> QED
      BY <1>1, <1>4, <2>1, <3>2 DEF Done
  <2> QED
    BY <2>2, <2>3, <2>4
<1>10. CASE mode # "none" /\ \E x \in Texts :
              /\ disk' = [disk EXCEPT ![dst] = x] /\ x.of = src
              /\ \/ x.state = "torn" /\ pc' = "close"
                 \/ x.state = "whole" /\ x.n > 0 /\ pc' \in {"resolve", "finish"}
  <2>1. PICK x \in Texts :
              /\ disk' = [disk EXCEPT ![dst] = x] /\ x.of = src
              /\ \/ x.state = "torn" /\ pc' = "close"
                 \/ x.state = "whole" /\ x.n > 0 /\ pc' \in {"resolve", "finish"}
    BY <1>10
  <2>2. ASSUME NEW s \in Range(requested) PROVE disk'[Src(s)].of = s
    <3>1. CASE Src(s) = dst
      BY <1>3, <1>6, <2>1, <3>1, OwnSource
    <3>2. CASE Src(s) # dst
      BY <1>6, <1>7, <2>1, <3>2
    <3> QED
      BY <3>1, <3>2
  <2>3. pc' \in {"parse", "verify", "write", "close"} => snapshot'.of = src'
    <3>1. pc' \in {"parse", "verify", "write", "close"} => OpenOutput
      <4>1. ~CloseOutput \/ pc' \notin {"parse", "verify", "write", "close"}
        BY <1>1, EndFacts, AdvanceFacts DEF CloseOutput, Stop
      <4>2. ~ConvertClosure \/ pc' \notin {"parse", "verify", "write", "close"}
        BY <1>1, EndFacts, AdvanceFacts DEF ConvertClosure
      <4>3. pc' = "close" => ~(Capture \/ Parse \/ Verify)
        BY EndFacts, AdvanceFacts DEF Capture, Parse, Verify
      <4> QED
        BY <2>1, <4>1, <4>2, <4>3
    <3> QED
      BY <1>5, <1>7, <3>1 DEF OpenOutput, convVars
  <2>4. ASSUME NEW i \in DOMAIN records'
        PROVE  (pc' = "close" /\ queue[i] = src') \/ Done(queue[i])'
    <3>1. queue[i] \in Range(requested)
      BY <1>8, <2>4
    <3>2. CASE queue[i] = src
      <4>1. disk'[OwnOutput(queue[i])] = x
        BY <1>3, <1>6, <2>1, <3>2
      <4>2. queue'[i] = queue[i] /\ OwnOutput(queue[i])' = OwnOutput(queue[i])
        BY <1>1, <1>4
      <4> QED
        BY <1>5, <2>1, <3>2, <4>1, <4>2 DEF Done
    <3>3. CASE queue[i] # src
      <4>1. OwnOutput(queue[i]) # dst
        BY <1>2, <1>3, <1>10, <3>1, <3>3, OwnOutputs
      <4>2. disk'[OwnOutput(queue[i])] = disk[OwnOutput(queue[i])]
        BY <1>6, <2>1, <3>1, <4>1
      <4>3. Done(queue[i])
        BY <1>7, <1>8, <1>10, <2>4, <3>3
      <4>4. queue'[i] = queue[i] /\ OwnOutput(queue[i])' = OwnOutput(queue[i])
        BY <1>1, <1>4
      <4> QED
        BY <4>2, <4>3, <4>4 DEF Done
    <3> QED
      BY <3>2, <3>3
  <2> QED
    BY <2>2, <2>3, <2>4
<1> QED
  BY <1>1, <1>2, <1>9, <1>10, OwnText

\* What Delivered promises, without its conditions.
DeliveredAll ==
  /\ \A s \in Range(requested) : disk[Src(s)].of = s
  /\ pc \in {"parse", "verify", "write", "close"} => snapshot.of = src
  /\ mode # "none" =>
       \A i \in DOMAIN records : (pc = "close" /\ queue[i] = src) \/ Done(queue[i])

\* What is recorded was requested.
LEMMA RecordedFacts ==
  ASSUME TypeOK, Loop
  PROVE  \A i \in DOMAIN records : queue[i] \in Range(requested)
<1>1. DOMAIN records \subseteq DOMAIN queue
  BY DEF Loop, TypeOK
<1> QED
  BY <1>1 DEF Loop, Range

\* While nothing has failed, what has been recorded has been delivered.
LEMMA DeliveredNext == IInv /\ [Next]_vars => Delivered'
<1> SUFFICES ASSUME IInv, [Next]_vars PROVE Delivered'
  OBVIOUS
<1> USE DEF IInv, TypeOK, Preflight, Loop, optionVars, convVars, Early
<1> USE Options
<1>0. /\ Refused' = Refused
      /\ Delivered <=> (~Refused /\ Result = 0 /\ exit \in {"no", "ok"} => DeliveredAll)
      /\ Delivered' <=> (~Refused /\ Result' = 0 /\ exit' \in {"no", "ok"} => DeliveredAll')
  <2>1. Refused' = Refused
    BY DEF Refused, ManyToOne, SameArtifact, ReceiptConflict, OwnOutput, Src, Out, InDir
  <2> QED
    BY <2>1 DEF Delivered, DeliveredAll, Done
<1> USE <1>0
<1>1. ASSUME PreflightRefuses PROVE Delivered'
  BY <1>1 DEF PreflightRefuses, Stop
<1>2. ASSUME PreflightAdmits PROVE Delivered'
  <2>1. /\ UNCHANGED <<disk, queue, records, base, mode, requested>> /\ pc # "close"
        /\ pc' \notin {"parse", "verify", "write", "close"}
        /\ Result' = 0 /\ exit' \in {"no", "ok"} => Result = 0 /\ exit \in {"no", "ok"}
    BY <1>2 DEF PreflightAdmits, Stop
  <2>2. \A s : Src(s)' = Src(s) /\ OwnOutput(s)' = OwnOutput(s)
    BY <2>1 DEF OwnOutput, Src, Out, InDir
  <2> QED
    BY <1>0, <2>1, <2>2 DEF DeliveredAll, Done
<1>3. ASSUME OpenReceipt PROVE Delivered'
  <2> SUFFICES ASSUME ~Refused, Result' = 0, exit' \in {"no", "ok"} PROVE DeliveredAll'
    BY <1>0
  <2>1. /\ UNCHANGED <<queue, records, base, mode, requested>> /\ Result = 0 /\ exit = "no"
        /\ pc' \notin {"parse", "verify", "write", "close"} /\ pc # "close"
    BY <1>3 DEF OpenReceipt, Stop
  <2>2. \A s : Src(s)' = Src(s) /\ OwnOutput(s)' = OwnOutput(s)
    BY <2>1 DEF OwnOutput, Src, Out, InDir
  <2>3. disk' = disk \/ disk' = [disk EXCEPT ![rpath] = ReceiptText]
    BY <1>3 DEF OpenReceipt, PublishReceipt
  <2>4. \A s \in Range(requested) : rpath # Src(s) /\ (mode # "none" => rpath # OwnOutput(s))
    BY DEF Refused, ReceiptConflict
  <2>5. \A s \in Range(requested) : Src(s) \in Paths /\ OwnOutput(s) \in Paths
    BY RequestFacts, PathFacts
  <2>6. \A s \in Range(requested) :
          /\ disk'[Src(s)] = disk[Src(s)]
          /\ mode # "none" => disk'[OwnOutput(s)] = disk[OwnOutput(s)]
    BY <2>3, <2>4, <2>5
  <2>7. \A i \in DOMAIN records : queue[i] \in Range(requested)
    BY RecordedFacts
  <2>8. DeliveredAll
    BY <2>1 DEF DeliveredAll
  <2> QED
    BY <2>1, <2>2, <2>6, <2>7, <2>8 DEF DeliveredAll, Done
<1>4. ASSUME OrderInputs PROVE Delivered'
  <2>1. /\ UNCHANGED <<disk, records, base, mode, requested, Result, exit>> /\ pc' = "resolve"
        /\ pc = "order"
    BY <1>4 DEF OrderInputs
  <2>2. Len(records) = 0 /\ DOMAIN records = {}
    BY <2>1
  <2>3. \A s : Src(s)' = Src(s)
    BY DEF Src
  <2> QED
    BY <1>0, <2>1, <2>2, <2>3 DEF DeliveredAll
<1>5. ASSUME ResolveFails \/ PrepareFailed PROVE Delivered'
  <2>1. Result' = 1
    BY <1>5, FailFacts, GiveUpFacts
  <2> QED
    BY <2>1
<1>6. ASSUME Resolve PROVE Delivered'
  <2>1. /\ UNCHANGED <<disk, queue, records, base, mode, requested>> /\ pc # "close"
        /\ pc' \notin {"parse", "verify", "write", "close"}
        /\ Result' = 0 /\ exit' \in {"no", "ok"} => Result = 0 /\ exit \in {"no", "ok"}
    BY <1>6 DEF Resolve, Stop
  <2>2. \A s : Src(s)' = Src(s) /\ OwnOutput(s)' = OwnOutput(s)
    BY <2>1 DEF OwnOutput, Src, Out, InDir
  <2> QED
    BY <1>0, <2>1, <2>2 DEF DeliveredAll, Done
<1>7. ASSUME Prepare PROVE Delivered'
  <2>1. /\ UNCHANGED <<disk, queue, records, base, mode, requested>> /\ pc # "close"
        /\ pc' \notin {"parse", "verify", "write", "close"}
        /\ Result' = 0 /\ exit' \in {"no", "ok"} => Result = 0 /\ exit \in {"no", "ok"}
    BY <1>7 DEF Prepare, Stop
  <2>2. \A s : Src(s)' = Src(s) /\ OwnOutput(s)' = OwnOutput(s)
    BY <2>1 DEF OwnOutput, Src, Out, InDir
  <2> QED
    BY <1>0, <2>1, <2>2 DEF DeliveredAll, Done
<1>8. ASSUME ConvertClosure \/ Capture \/ Parse \/ Verify \/ OpenOutput \/ CloseOutput PROVE Delivered'
  <2> SUFFICES ASSUME ~Refused, Result' = 0, exit' \in {"no", "ok"} PROVE DeliveredAll'
    BY <1>0
  <2>1. queue' = queue
    BY <1>8, ConvertFacts
  <2>2. \A s : Src(s)' = Src(s)
    BY DEF Src
  <2> QED
    BY <1>8, <2>1, <2>2, ConvertDelivers DEF DeliveredAll, Done
<1>9. ASSUME Finish PROVE Delivered'
  <2> SUFFICES ASSUME ~Refused, Result' = 0, exit' \in {"no", "ok"} PROVE DeliveredAll'
    BY <1>0
  <2>1. /\ UNCHANGED <<queue, records, base, mode, requested>> /\ Result = 0 /\ exit = "no"
        /\ pc' \notin {"parse", "verify", "write", "close"} /\ pc # "close"
    BY <1>9 DEF Finish, Stop
  <2>2. \A s : Src(s)' = Src(s) /\ OwnOutput(s)' = OwnOutput(s)
    BY <2>1 DEF OwnOutput, Src, Out, InDir
  <2>3. disk' = disk \/ disk' = [disk EXCEPT ![rpath] = ReceiptText]
    BY <1>9 DEF Finish, PublishReceipt
  <2>4. \A s \in Range(requested) : rpath # Src(s) /\ (mode # "none" => rpath # OwnOutput(s))
    BY DEF Refused, ReceiptConflict
  <2>5. \A s \in Range(requested) : Src(s) \in Paths /\ OwnOutput(s) \in Paths
    BY RequestFacts, PathFacts
  <2>6. \A s \in Range(requested) :
          /\ disk'[Src(s)] = disk[Src(s)]
          /\ mode # "none" => disk'[OwnOutput(s)] = disk[OwnOutput(s)]
    BY <2>3, <2>4, <2>5
  <2>7. \A i \in DOMAIN records : queue[i] \in Range(requested)
    BY RecordedFacts
  <2>8. DeliveredAll
    BY <2>1 DEF DeliveredAll
  <2> QED
    BY <2>1, <2>2, <2>6, <2>7, <2>8 DEF DeliveredAll, Done
<1>10. ASSUME ReturnFromMain PROVE Delivered'
  <2>1. /\ UNCHANGED <<disk, queue, records, base, mode, requested>> /\ pc # "close"
        /\ pc' \notin {"parse", "verify", "write", "close"}
        /\ Result' = 0 /\ exit' \in {"no", "ok"} => Result = 0 /\ exit \in {"no", "ok"}
    BY <1>10 DEF ReturnFromMain, Stop
  <2>2. \A s : Src(s)' = Src(s) /\ OwnOutput(s)' = OwnOutput(s)
    BY <2>1 DEF OwnOutput, Src, Out, InDir
  <2> QED
    BY <1>0, <2>1, <2>2 DEF DeliveredAll, Done
<1>11. ASSUME UserEdits PROVE Delivered'
  <2> SUFFICES ASSUME ~Refused, Result' = 0, exit' \in {"no", "ok"} PROVE DeliveredAll'
    BY <1>0
  <2>1. /\ UNCHANGED <<queue, records, base, mode, requested, pc, pos, snapshot>>
        /\ Result = 0 /\ exit \in {"no", "ok"}
    BY <1>11 DEF UserEdits
  <2>2. /\ src' = src
        /\ \A s : Src(s)' = Src(s) /\ OwnOutput(s)' = OwnOutput(s)
    BY <2>1 DEF src, OwnOutput, Src, Out, InDir
  <2>3. PICK u \in Sources, v \in 1..2 :
          disk[Src(u)].n = 0 /\ disk' = [disk EXCEPT ![Src(u)] = Text("whole", u, v, 0)]
    BY <1>11, RequestFacts DEF UserEdits
  <2>4. \A s \in Range(requested) : Src(s) \in Paths /\ OwnOutput(s) \in Paths
    BY RequestFacts, PathFacts
  <2>5. DeliveredAll
    BY <2>1 DEF DeliveredAll
  <2>6. ASSUME NEW s \in Range(requested) PROVE disk'[Src(s)].of = s
    <3>1. CASE s = u
      BY <2>3, <2>4, <3>1 DEF Text
    <3>2. CASE s # u
      <4>1. Src(s) # Src(u)
        BY <3>2 DEF Src
      <4> QED
        BY <2>3, <2>4, <2>5, <4>1 DEF DeliveredAll
    <3> QED
      BY <3>1, <3>2
  <2>7. ASSUME mode # "none", NEW i \in DOMAIN records
        PROVE  (pc = "close" /\ queue[i] = src) \/ Done(queue[i])'
    <3>1. queue[i] \in Range(requested)
      BY RecordedFacts
    <3>2. (pc = "close" /\ queue[i] = src) \/ Done(queue[i])
      BY <2>5, <2>7 DEF DeliveredAll
    <3>3. CASE Done(queue[i])
      <4>1. OwnOutput(queue[i]) # Src(u)
        BY <2>3, <3>3 DEF Done
      <4>2. disk'[OwnOutput(queue[i])] = disk[OwnOutput(queue[i])]
        BY <2>3, <2>4, <3>1, <4>1
      <4>3. queue'[i] = queue[i] /\ OwnOutput(queue[i])' = OwnOutput(queue[i])
        BY <2>1, <2>2
      <4> QED
        BY <3>3, <4>2, <4>3 DEF Done
    <3> QED
      BY <3>2, <3>3
  <2> QED
    BY <2>1, <2>2, <2>5, <2>6, <2>7 DEF DeliveredAll
<1>12. ASSUME Crash PROVE Delivered'
  BY <1>12 DEF Crash, Stop
<1>13. ASSUME UNCHANGED vars PROVE Delivered'
  BY <1>13 DEF vars, DeliveredAll, Done, src, OwnOutput, Src, Out, InDir
<1> QED
  BY <1>1, <1>2, <1>3, <1>4, <1>5, <1>6, <1>7, <1>8, <1>9,
     <1>10, <1>11, <1>12, <1>13
     DEF Next, Step

-----------------------------------------------------------------------------
(* The results *)

\* Every step of the run, the user's edits and a crash preserve the invariant.
LEMMA IInvNext == IInv /\ [Next]_vars => IInv'
BY TypeNext, PreflightNext, LoopNext, NoneLostNext, OpenedNext, ReceiptsNext, VersionNext,
   AimedNext, DeliveredNext DEF IInv

\* The inputs a run answers for are those in the list.
LEMMA KeptFacts == IInv => Kept = Range(queue)
BY DEF IInv, Loop, NoneLost, Kept, Droppable

\* What the invariant says at the exit.
LEMMA IInvReports == IInv => SuccessMeansDelivered
<1> SUFFICES ASSUME IInv PROVE SuccessMeansDelivered
  OBVIOUS
<1> USE DEF IInv
<1>0. ASSUME Len(records) = Len(queue)
      PROVE  /\ DOMAIN records = DOMAIN queue
             /\ \A s \in Kept : \E i \in DOMAIN records : records[i].input = s /\ queue[i] = s
  <2>1. DOMAIN records = DOMAIN queue
    BY <1>0 DEF TypeOK
  <2>2. \A s \in Kept : \E i \in DOMAIN queue : queue[i] = s
    BY KeptFacts DEF Range
  <2> QED
    BY <2>1, <2>2 DEF Loop
<1>1. ExitMeansDelivered
  <2> SUFFICES ASSUME exit = "ok", mode # "none", NEW s \in Kept
               PROVE  Done(s)
    BY DEF ExitMeansDelivered, Done
  <2>1. ~Refused /\ Result = 0 /\ pc = "exit" /\ Len(records) = Len(queue)
    BY DEF Preflight, Loop
  <2>2. PICK i \in DOMAIN records : queue[i] = s
    BY <1>0, <2>1
  <2> QED
    BY <2>1, <2>2 DEF Delivered, Done
<1>2. ReceiptTracksRun
  BY <1>0 DEF Receipts, ReceiptTracksRun
<1>3. EveryInputReported
  <2> SUFFICES ASSUME pc \in {"finish", "return"}
               PROVE  /\ Len(records) = Len(queue)
                      /\ \A i \in DOMAIN queue : records[i].input = queue[i]
                      /\ \A s \in Kept : \E i \in DOMAIN records : records[i].input = s
    BY DEF EveryInputReported
  <2>1. Len(records) = Len(queue)
    BY DEF Loop, Late
  <2> QED
    BY <1>0, <2>1 DEF Loop
<1>4. ReceiptKeepsOff
  <2> SUFFICES ASSUME NEW s \in Range(requested)
               PROVE  /\ disk[Src(s)].state # "receipt"
                      /\ mode # "none" => disk[OwnOutput(s)].state # "receipt"
    BY DEF ReceiptKeepsOff
  <2>1. Src(s) \in Paths /\ OwnOutput(s) \in Paths
    BY RequestFacts, PathFacts DEF TypeOK
  <2>2. CASE Refused
    BY <2>1, <2>2 DEF Preflight
  <2>3. CASE ~Refused
    BY <2>1, <2>3 DEF Receipts, Refused, ReceiptConflict
  <2> QED
    BY <2>2, <2>3
<1>5. OutputsUnderOpenReceipt
  BY DEF TypeOK, Texts, Opened, OutputsUnderOpenReceipt
<1> QED
  BY <1>1, <1>2, <1>3, <1>4, <1>5 DEF SuccessMeansDelivered

\* The loop, the files, the receipt and the records keep their types.
THEOREM TypeCorrect == Spec => []TypeOK
<1>1. IInv => TypeOK
  BY DEF IInv
<1> QED
  BY <1>1, IInvInit, IInvNext, PTL DEF Spec

\* For every list of sources, whatever fails, is edited or is reordered, a run that
\* reports success has delivered and recorded every requested input, except one with
\* a directory beside a bare one, and its receipt kept off their paths; wherever a
\* run is killed, an output of it lies beside a receipt of its own.
THEOREM SuccessIsDelivered == Spec => []SuccessMeansDelivered
BY IInvInit, IInvNext, IInvReports, PTL DEF Spec

\* For every number of edits during the run, no output is the bytes of one version
\* of a source under the edits of another.
THEOREM VersionsNeverMix == Spec => []NoMixedVersions
<1>1. IInv => NoMixedVersions
  BY DEF IInv
<1> QED
  BY <1>1, IInvInit, IInvNext, PTL DEF Spec
=============================================================================
