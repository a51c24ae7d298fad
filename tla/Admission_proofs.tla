--------------------------- MODULE Admission_proofs ---------------------------
(***************************************************************************)
(* Proofs about what the translator admits on the evidence its callbacks   *)
(* collected, for every input: the removal of SDK includes, the profiler   *)
(* availability block, the cooperative-groups projection, the pragmas of a *)
(* removed header, the removal of the sample helper's include, the layout  *)
(* of packed records, and the dynamic groups of a kernel.  Then, for every *)
(* block and every sequence of calls, that the block reductions admitted   *)
(* kernels run give every lane the total of its tile.                      *)
(***************************************************************************)
EXTENDS SdkBoundary, ProfilerBlock, CgProjection, PragmaAudit, HelperMacros,
        PackedRecords, DynamicAdmission, BlockReduction, FiniteSetTheorems, WellFoundedInduction, TLAPS

\* Induction over the numbers 0 .. N, on the set of those that have a property.
LEMMA Induction ==
    ASSUME NEW N \in Nat, NEW S, 0 \in S,
           \A k \in 1 .. N : k - 1 \in S => k \in S
    PROVE  \A k \in 0 .. N : k \in S
<1> DEFINE R == {ss \in Nat \X Nat : ss[1] < ss[2]}
           T == {k \in 0 .. N : k \notin S}
<1>1. IsWellFoundedOn(R, Nat)
    BY NatLessThanWellFounded DEF OpToRel
<1>2. SUFFICES ASSUME T # {} PROVE FALSE
    OBVIOUS
<1>3. T \subseteq Nat
    OBVIOUS
<1> HIDE DEF R, T
<1>4. PICK m \in T : \A k \in T : ~(<<k, m>> \in R)
    BY <1>1, <1>2, <1>3, WFMin
<1>5. m \in 1 .. N /\ m \notin S
    BY DEF T
<1>6. m - 1 \notin T
    <2>1. <<m - 1, m>> \in R
        BY <1>5 DEF R
    <2> QED
        BY <2>1, <1>4
<1> QED
    BY <1>5, <1>6 DEF T

\* f is a at 0 and takes one more step at each later number.
Iterates(f, N, a, step) == f = [k \in 0 .. N |-> IF k = 0 THEN a ELSE step[f[k - 1]]]

\* A definition by recursion over 0 .. N defines a function.
LEMMA Recursion ==
    ASSUME NEW N \in Nat, NEW A, NEW a \in A, NEW step \in [A -> A]
    PROVE  \E f \in [0 .. N -> A] : Iterates(f, N, a, step)
<1> DEFINE Good(f, n) == f[0] = a /\ \A k \in 1 .. n : f[k] = step[f[k - 1]]
           S == {n \in 0 .. N : \E f \in [0 .. N -> A] : Good(f, n)}
<1>1. 0 \in S
  <2> DEFINE f == [k \in 0 .. N |-> a]
  <2>1. f \in [0 .. N -> A] /\ Good(f, 0)
      OBVIOUS
  <2> HIDE DEF f, Good
  <2> QED
      BY <2>1
<1>2. ASSUME NEW n \in 1 .. N, n - 1 \in S
      PROVE  n \in S
  <2>1. PICK f \in [0 .. N -> A] : Good(f, n - 1)
      BY <1>2
  <2> DEFINE g == [f EXCEPT ![n] = step[f[n - 1]]]
  <2>2. g \in [0 .. N -> A]
      OBVIOUS
  <2>3. g[0] = a
      BY <2>1
  <2>4. \A k \in 1 .. n : g[k] = step[g[k - 1]]
      BY <2>1
  <2> HIDE DEF g
  <2> QED
      BY <2>2, <2>3, <2>4
<1>3. N \in S
  <2> HIDE DEF S
  <2> QED
      BY <1>1, <1>2, Induction
<1>4. PICK f \in [0 .. N -> A] : Good(f, N)
    BY <1>3
<1>5. Iterates(f, N, a, step)
    BY <1>4 DEF Iterates
<1> QED
    BY <1>5

-----------------------------------------------------------------------------
(* The SDK boundary                                                        *)

Steps == Cardinality(AllNames)

LEMMA StepsPositive == Steps \in Nat /\ Steps >= 1 /\ AllNames # {}
<1>1. IsFiniteSet(AllNames)
    BY SdkBoundaryAssumption, FS_AddElement DEF AllNames
<1>2. AllNames # {}
    BY DEF AllNames
<1> QED
    BY <1>1, <1>2, FS_CardinalityType, FS_EmptySet DEF Steps

Seeds(api) == api.paste \cup api.sdkMacros
                 \cup {n \in {Condition} : \E m \in AllNames : n \in api.depends[m]}

Spread(api) == [S \in SUBSET AllNames |-> S \cup {m \in AllNames : api.depends[m] \cap S # {}}]

\* The names found to depend on a seed, by at most k definitions.
Taint(api) == CHOOSE taint : taint = [k \in 0 .. Steps |->
                 IF k = 0 THEN Seeds(api)
                 ELSE taint[k - 1] \cup {m \in AllNames : api.depends[m] \cap taint[k - 1] # {}}]

ApiOK(api) ==
    /\ api.depends \in [AllNames -> SUBSET AllNames]
    /\ api.paste \in SUBSET AllNames /\ api.sdkMacros \in SUBSET AllNames

LEMMA TaintRecursion ==
    ASSUME NEW api, ApiOK(api)
    PROVE  /\ Taint(api) \in [0 .. Steps -> SUBSET AllNames]
           /\ Taint(api)[0] = Seeds(api)
           /\ \A k \in 1 .. Steps : Taint(api)[k] = Taint(api)[k - 1]
                 \cup {m \in AllNames : api.depends[m] \cap Taint(api)[k - 1] # {}}
<1> DEFINE A == SUBSET AllNames
           Is(t) == t = [k \in 0 .. Steps |->
                 IF k = 0 THEN Seeds(api)
                 ELSE t[k - 1] \cup {m \in AllNames : api.depends[m] \cap t[k - 1] # {}}]
<1>1. Steps \in Nat
    BY StepsPositive
<1>2. Seeds(api) \in A
    BY DEF ApiOK, Seeds, AllNames
<1>3. Spread(api) \in [A -> A]
    BY DEF Spread
<1>4. PICK f \in [0 .. Steps -> A] : Iterates(f, Steps, Seeds(api), Spread(api))
  <2> HIDE DEF A
  <2> QED
    BY <1>1, <1>2, <1>3, Recursion
<1>5. Is(f)
  <2>1. \A k \in 0 .. Steps : k # 0 => f[k - 1] \in SUBSET AllNames
      BY <1>1
  <2>2. \A k \in 0 .. Steps : k # 0 => Spread(api)[f[k - 1]] =
            f[k - 1] \cup {m \in AllNames : api.depends[m] \cap f[k - 1] # {}}
      BY <2>1 DEF Spread
  <2> QED
      BY <1>4, <2>2 DEF Iterates
<1>6. Is(Taint(api))
    BY <1>5 DEF Taint
<1> DEFINE t == Taint(api)
<1>7. t[0] = Seeds(api)
    BY <1>1, <1>6
<1>8. ASSUME NEW k \in 1 .. Steps
      PROVE  t[k] = t[k - 1] \cup {m \in AllNames : api.depends[m] \cap t[k - 1] # {}}
  <2>1. k \in 0 .. Steps /\ k # 0
      BY <1>1
  <2> HIDE DEF t
  <2>2. Is(t)
      BY <1>6 DEF t
  <2> QED
      BY <2>1, <2>2
<1> DEFINE S == {k \in 0 .. Steps : t[k] \in A}
<1>9. \A k \in 0 .. Steps : k \in S
  <2>1. 0 \in S
      BY <1>1, <1>2, <1>7
  <2>2. ASSUME NEW k \in 1 .. Steps, k - 1 \in S PROVE k \in S
      BY <1>8, <2>2
  <2> HIDE DEF S
  <2> QED
      BY <1>1, <2>1, <2>2, Induction
<1>10. t = [k \in 0 .. Steps |-> t[k]]
  BY <1>6
<1> HIDE DEF t
<1>11. t \in [0 .. Steps -> A]
  BY <1>9, <1>10
<1> QED
    BY <1>7, <1>8, <1>11 DEF t

LEMMA UnprovedIsTaint == UnprovedRetained = Taint(runtimeApi)[Steps]
    BY DEF UnprovedRetained, Taint, Seeds, Steps

LEMMA TaintGrowsWithDepth ==
    ASSUME NEW api, ApiOK(api)
    PROVE  \A k \in 0 .. Steps : Seeds(api) \subseteq Taint(api)[k]
<1> DEFINE S == {k \in 0 .. Steps : Seeds(api) \subseteq Taint(api)[k]}
<1>1. Steps \in Nat
    BY StepsPositive
<1>2. 0 \in S
    BY <1>1, TaintRecursion
<1>3. ASSUME NEW k \in 1 .. Steps, k - 1 \in S PROVE k \in S
    BY <1>3, <1>1, TaintRecursion
<1>4. \A k \in 0 .. Steps : k \in S
  <2> HIDE DEF S
  <2> QED
    BY <1>1, <1>2, <1>3, Induction
<1> QED
    BY <1>4

LEMMA TaintDeeper ==
    ASSUME NEW api, ApiOK(api), NEW k \in 0 .. Steps - 1
    PROVE  Taint(api)[k] \subseteq Taint(api)[Steps - 1]
<1> DEFINE S == {j \in 0 .. Steps - 1 : k <= j => Taint(api)[k] \subseteq Taint(api)[j]}
<1>1. Steps \in Nat /\ Steps >= 1 /\ Steps - 1 \in Nat
    BY StepsPositive
<1>2. 0 \in S
    BY <1>1
<1>3. ASSUME NEW j \in 1 .. Steps - 1, j - 1 \in S PROVE j \in S
  <2>1. CASE k <= j - 1
    <3>1. Taint(api)[k] \subseteq Taint(api)[j - 1]
        BY <1>3, <2>1
    <3>2. j \in 1 .. Steps
        BY <1>1
    <3> QED
      BY <3>1, <3>2, TaintRecursion
  <2>2. CASE k = j
    BY <2>2
  <2> QED
    BY <2>1, <2>2
<1>4. Steps - 1 \in S
  <2> HIDE DEF S
  <2> QED
    BY <1>1, <1>2, <1>3, Induction
<1> QED
    BY <1>4, <1>1

LEMMA TaintGrowsWithEvidence ==
    ASSUME NEW api, NEW more, ApiOK(api), ApiOK(more),
           api.paste \subseteq more.paste, api.sdkMacros \subseteq more.sdkMacros,
           \A m \in AllNames : api.depends[m] \subseteq more.depends[m]
    PROVE  Taint(api)[Steps] \subseteq Taint(more)[Steps]
<1> DEFINE S == {k \in 0 .. Steps : Taint(api)[k] \subseteq Taint(more)[k]}
<1>1. Steps \in Nat
    BY StepsPositive
<1>2. 0 \in S
  <2>1. Seeds(api) \subseteq Seeds(more)
      BY DEF Seeds
  <2> QED
      BY <1>1, <2>1, TaintRecursion
<1>3. ASSUME NEW k \in 1 .. Steps, k - 1 \in S PROVE k \in S
  <2>1. Taint(api)[k - 1] \subseteq Taint(more)[k - 1]
      BY <1>3
  <2>2. \A m \in AllNames : api.depends[m] \cap Taint(api)[k - 1] # {}
                               => more.depends[m] \cap Taint(more)[k - 1] # {}
      BY <2>1
  <2>3. /\ Taint(api)[k] = Taint(api)[k - 1]
              \cup {m \in AllNames : api.depends[m] \cap Taint(api)[k - 1] # {}}
        /\ Taint(more)[k] = Taint(more)[k - 1]
              \cup {m \in AllNames : more.depends[m] \cap Taint(more)[k - 1] # {}}
      BY TaintRecursion
  <2> QED
      BY <2>1, <2>2, <2>3
<1>4. Steps \in S
  <2> HIDE DEF S
  <2> QED
    BY <1>1, <1>2, <1>3, Induction
<1> QED
    BY <1>4

-----------------------------------------------------------------------------
Files == Headers \cup {"predefines", "wrapper", "main"}

MacrosOK ==
    macros \in [AllNames -> [is : BOOLEAN, body : SUBSET AllNames, paste : BOOLEAN,
                             lost : BOOLEAN, file : Files]]

Reached(pasted) ==
    [S \in SUBSET AllNames |->
        S \cup (UNION {macros[m].body : m \in {x \in S : macros[x].is}})
          \cup (IF \E m \in S : macros[m].is /\ macros[m].paste THEN {pasted} ELSE {})]

\* The names that k expansions reach from n.
Closure(n, pasted) ==
    LET step(S) == S \cup (UNION {macros[m].body : m \in {x \in S : macros[x].is}})
                     \cup (IF \E m \in S : macros[m].is /\ macros[m].paste THEN {pasted} ELSE {})
    IN  CHOOSE chain : chain = [k \in 0 .. Steps |-> IF k = 0 THEN {n} ELSE step(chain[k - 1])]

LEMMA ExpansionIsClosure ==
    ASSUME NEW n, NEW pasted
    PROVE  Expansion(n, pasted) = {m \in Closure(n, pasted)[Steps] : macros[m].is}
    BY DEF Expansion, Closure, Steps

LEMMA ClosureRecursion ==
    ASSUME MacrosOK, NEW n \in AllNames, NEW pasted \in AllNames
    PROVE  /\ Closure(n, pasted) \in [0 .. Steps -> SUBSET AllNames]
           /\ Closure(n, pasted)[0] = {n}
           /\ \A k \in 1 .. Steps : Closure(n, pasted)[k] = Reached(pasted)[Closure(n, pasted)[k - 1]]
<1> DEFINE A == SUBSET AllNames
           grow(S) == S \cup (UNION {macros[m].body : m \in {x \in S : macros[x].is}})
                     \cup (IF \E m \in S : macros[m].is /\ macros[m].paste THEN {pasted} ELSE {})
           Is(d) == d = [k \in 0 .. Steps |-> IF k = 0 THEN {n} ELSE grow(d[k - 1])]
<1>1. Steps \in Nat
    BY StepsPositive
<1>2. {n} \in A
    OBVIOUS
<1>3. Reached(pasted) \in [A -> A]
  <2>1. \A S \in A : UNION {macros[m].body : m \in {x \in S : macros[x].is}} \in A
      BY DEF MacrosOK
  <2>2. ASSUME NEW S \in A PROVE grow(S) \in A
    <3> DEFINE X == UNION {macros[m].body : m \in {x \in S : macros[x].is}}
               Y == IF \E m \in S : macros[m].is /\ macros[m].paste THEN {pasted} ELSE {}
    <3>1. X \in A
        BY <2>1
    <3>2. Y \in A
        OBVIOUS
    <3>3. grow(S) = S \cup X \cup Y
        OBVIOUS
    <3> HIDE DEF X, Y, grow
    <3> QED
        BY <3>1, <3>2, <3>3
  <2>3. Reached(pasted) = [S \in A |-> grow(S)]
      BY DEF Reached
  <2> HIDE DEF grow, A
  <2> QED
      BY <2>2, <2>3
<1>a. \A S \in A : Reached(pasted)[S] = grow(S)
    BY DEF Reached
<1>4. PICK f \in [0 .. Steps -> A] : Iterates(f, Steps, {n}, Reached(pasted))
  <2> HIDE DEF A, grow
  <2> QED
    BY <1>1, <1>2, <1>3, Recursion
<1>5. Is(f)
  <2>1. \A k \in 0 .. Steps : k # 0 => f[k - 1] \in A
      BY <1>1
  <2>2. \A k \in 0 .. Steps : k # 0 => Reached(pasted)[f[k - 1]] = grow(f[k - 1])
      BY <2>1, <1>a
  <2> HIDE DEF grow, A
  <2> QED
      BY <1>4, <2>2 DEF Iterates
<1> DEFINE c == Closure(n, pasted)
<1>6. Is(c)
  <2>1. c = CHOOSE d : Is(d)
      BY DEF Closure
  <2> HIDE DEF Is, c
  <2> QED
      BY <1>5, <2>1
<1> HIDE DEF c
<1>7. c[0] = {n}
    BY <1>1, <1>6
<1>8. ASSUME NEW k \in 1 .. Steps
      PROVE  c[k] = grow(c[k - 1])
  <2>1. k \in 0 .. Steps /\ k # 0
      BY <1>1
  <2> HIDE DEF grow
  <2> QED
      BY <2>1, <1>6
<1> DEFINE S == {k \in 0 .. Steps : c[k] \in A}
<1>9. \A k \in 0 .. Steps : k \in S
  <2>1. 0 \in S
      BY <1>1, <1>2, <1>7
  <2>2. ASSUME NEW k \in 1 .. Steps, k - 1 \in S PROVE k \in S
    <3>1. c[k - 1] \in A
        BY <2>2
    <3> HIDE DEF A, grow
    <3>2. c[k] \in A
        BY <3>1, <1>8, <1>a, <1>3
    <3> QED
        BY <3>2, <1>1
  <2> HIDE DEF S
  <2> QED
      BY <1>1, <2>1, <2>2, Induction
<1> HIDE DEF grow
<1>10. c = [k \in 0 .. Steps |-> c[k]]
  BY <1>6
<1>11. c \in [0 .. Steps -> A]
  BY <1>9, <1>10
<1>12. \A k \in 1 .. Steps : c[k] = Reached(pasted)[c[k - 1]]
  <2>1. \A k \in 1 .. Steps : k - 1 \in 0 .. Steps
      BY <1>1
  <2> HIDE DEF A
  <2> QED
      BY <2>1, <1>8, <1>9, <1>a
<1> QED
    BY <1>7, <1>11, <1>12 DEF c

\* What the callbacks keep of a macro that the SDK did not define.
Noted ==
    \A m \in AllNames : (macros[m].is /\ m \notin runtimeApi.sdkMacros) =>
        /\ macros[m].body \subseteq runtimeApi.depends[m]
        /\ macros[m].paste => m \in runtimeApi.paste

\* The audit has nothing against the macro n itself.
Clean(n) ==
    macros[n].is =>
        /\ n \notin runtimeApi.sdkMacros /\ ~macros[n].paste
        /\ macros[n].body \cap Taint(runtimeApi)[Steps - 1] = {}

\* From a macro the audit accepts, no expansion reaches one of the SDK or the compiler condition.
LEMMA CleanClosure ==
    ASSUME MacrosOK, ApiOK(runtimeApi), Noted,
           NEW n \in AllNames, Clean(n), NEW pasted \in AllNames
    PROVE  \A m \in Closure(n, pasted)[Steps] :
              m = n \/ (m \notin runtimeApi.sdkMacros /\ m # Condition)
<1> DEFINE c == Closure(n, pasted)
           t == Taint(runtimeApi)
           Fine(m, j) == m = n \/ (m \notin t[Steps - j] /\ m # Condition)
           S == {j \in 0 .. Steps : \A m \in c[j] : Fine(m, j)}
<1>1. Steps \in Nat /\ Steps >= 1
    BY StepsPositive
<1>2. 0 \in S
    BY <1>1, ClosureRecursion
<1>3. ASSUME NEW j \in 1 .. Steps, j - 1 \in S PROVE j \in S
  <2> SUFFICES ASSUME NEW m \in c[j], m # n PROVE m \notin t[Steps - j] /\ m # Condition
      BY <1>1
  <2> DEFINE d == c[j - 1]
  <2>1. c[j] = Reached(pasted)[d] /\ d \in SUBSET AllNames
      BY <1>1, ClosureRecursion
  <2>2. \A x \in d : x = n \/ (x \notin t[Steps - (j - 1)] /\ x # Condition)
      BY <1>3
  <2>3. Steps - (j - 1) \in 1 .. Steps /\ (Steps - (j - 1)) - 1 = Steps - j /\ Steps - j \in 0 .. Steps - 1
      BY <1>1
  <2>4. t[Steps - (j - 1)] = t[Steps - j]
              \cup {x \in AllNames : runtimeApi.depends[x] \cap t[Steps - j] # {}}
      BY <2>3, TaintRecursion
  <2>5. /\ Seeds(runtimeApi) \subseteq t[Steps - (j - 1)]
        /\ Seeds(runtimeApi) \subseteq t[Steps - j] /\ Seeds(runtimeApi) \subseteq t[Steps - 1]
      BY <1>1, <2>3, TaintGrowsWithDepth
  <2> HIDE DEF d, t, c, S
  <2>6. \A x \in d : macros[x].is => ~macros[x].paste
    <3> SUFFICES ASSUME NEW x \in d, macros[x].is, macros[x].paste, x # n PROVE FALSE
        BY DEF Clean
    <3>1. x \in AllNames /\ x \notin Seeds(runtimeApi)
        BY <2>1, <2>2, <2>5
    <3> QED
        BY <3>1 DEF Seeds, Noted
  <2>7. m \in d \/ \E x \in d : macros[x].is /\ m \in macros[x].body
    <3>1. m \in d \cup (UNION {macros[x].body : x \in {y \in d : macros[y].is}})
      <4> DEFINE B == UNION {macros[x].body : x \in {y \in d : macros[y].is}}
                 F == IF \E x \in d : macros[x].is /\ macros[x].paste THEN {pasted} ELSE {}
      <4>1. Reached(pasted)[d] = d \cup B \cup F
          BY <2>1 DEF Reached
      <4>2. F = {}
          BY <2>6
      <4> HIDE DEF B, F
      <4>3. m \in d \cup B
          BY <2>1, <4>1, <4>2
      <4> QED
          BY <4>3 DEF B
    <3> QED
        BY <3>1
  <2>8. CASE m \in d
      BY <2>2, <2>4, <2>8
  <2>9. ASSUME NEW x \in d, macros[x].is, m \in macros[x].body
        PROVE  m \notin t[Steps - j] /\ m # Condition
    <3>1. x \in AllNames
        BY <2>1
    <3>2. x \notin runtimeApi.sdkMacros
      <4>1. CASE x = n
          BY <2>9, <4>1 DEF Clean
      <4>2. CASE x # n
          BY <2>2, <2>5, <4>2 DEF Seeds
      <4> QED
          BY <4>1, <4>2
    <3>3. macros[x].body \subseteq runtimeApi.depends[x]
        BY <2>9, <3>1, <3>2 DEF Noted
    <3>4. m = Condition => m \in Seeds(runtimeApi)
        BY <2>9, <3>1, <3>3 DEF Seeds
    <3>5. CASE x = n
      <4>1. macros[n].body \cap t[Steps - 1] = {}
          BY <2>9, <3>5 DEF Clean, t
      <4>2. m \notin t[Steps - 1]
          BY <2>9, <3>5, <4>1
      <4>3. t[Steps - j] \subseteq t[Steps - 1]
          BY <1>1, <2>3, TaintDeeper DEF t
      <4> QED
          BY <2>5, <3>4, <4>2, <4>3
    <3>6. CASE x # n
      <4>1. x \notin t[Steps - (j - 1)]
          BY <2>2, <3>6
      <4>2. m \notin t[Steps - j]
          BY <2>4, <2>9, <3>1, <3>3, <4>1
      <4> QED
          BY <2>5, <3>4, <4>2
    <3> QED
        BY <3>5, <3>6
  <2> QED
      BY <2>7, <2>8, <2>9
<1>4. Steps \in S
  <2> HIDE DEF S
  <2> QED
    BY <1>1, <1>2, <1>3, Induction
<1>5. SUFFICES ASSUME NEW m \in c[Steps], m # n
               PROVE  m \notin runtimeApi.sdkMacros /\ m # Condition
    OBVIOUS
<1>6. m \notin t[Steps - Steps] /\ m # Condition
    BY <1>4, <1>5
<1>7. Steps - Steps = 0 /\ t[0] = Seeds(runtimeApi)
    BY <1>1, TaintRecursion
<1> HIDE DEF t
<1> QED
    BY <1>6, <1>7 DEF Seeds

-----------------------------------------------------------------------------
RawTokens == [name : AllNames \cup {"##"}, directive : BOOLEAN, native : BOOLEAN]

ApiType ==
    runtimeApi \in [sdkFiles : SUBSET SdkRoles, sdkMacros : SUBSET AllNames,
                    depends : [AllNames -> SUBSET AllNames], paste : SUBSET AllNames,
                    uses : SUBSET AllNames, tokens : SUBSET RawTokens, roots : BOOLEAN,
                    admitted : BOOLEAN, boundaryFailed : BOOLEAN, identityFailure : BOOLEAN]

\* An SDK file that the callbacks did not recognise has been audited as the caller's.
Doomed ==
    \/ runtimeApi.identityFailure
    \/ [name |-> Condition, directive |-> TRUE, native |-> FALSE] \in runtimeApi.tokens

StackOK ==
    /\ stack \in Seq([file : Files, lost : BOOLEAN]) /\ Len(stack) >= 1
    /\ stack[Len(stack)].file \in {"predefines", "wrapper", "main"}
    /\ \A i \in 1 .. Len(stack) : stack[i].file \in SdkRoles =>
          stack[i].file \in runtimeApi.sdkFiles \/ Doomed

LostKnown ==
    \A m \in AllNames : macros[m].lost => m \in runtimeApi.sdkMacros \cup {Condition} \/ Doomed

\* The audit reads what a retained definition mentions.
DefinitionsRead ==
    \A m \in AllNames :
        (macros[m].is /\ m \notin runtimeApi.sdkMacros /\ macros[m].file # "predefines") =>
            /\ \A b \in macros[m].body :
                  [name |-> b, directive |-> TRUE, native |-> FALSE] \in runtimeApi.tokens
            /\ macros[m].paste =>
                  [name |-> "##", directive |-> TRUE, native |-> FALSE] \in runtimeApi.tokens

LeakRefused == leaked => ~SurfaceAdmitted

SdkInv ==
    /\ ApiType /\ StackOK /\ MacrosOK
    /\ LostKnown /\ Noted /\ DefinitionsRead
    /\ leaked \in BOOLEAN /\ LeakRefused
    /\ verdict = "accepted" => ~leaked

\* The callbacks only add to what the audit holds against a translation unit.
Grows ==
    /\ runtimeApi.identityFailure => runtimeApi'.identityFailure
    /\ runtimeApi.uses \subseteq runtimeApi'.uses
    /\ runtimeApi.tokens \subseteq runtimeApi'.tokens
    /\ runtimeApi.sdkMacros \subseteq runtimeApi'.sdkMacros
    /\ runtimeApi.paste \subseteq runtimeApi'.paste
    /\ \A m \in AllNames : runtimeApi.depends[m] \subseteq runtimeApi'.depends[m]

LEMMA UnprovedIsTaintNext == UnprovedRetained' = Taint(runtimeApi')[Steps]
    BY DEF UnprovedRetained, Taint, Seeds, Steps

LEMMA ApiTypeOK == ApiType => ApiOK(runtimeApi)
    BY DEF ApiType, ApiOK

LEMMA ApiTypeOKNext == ApiType' => ApiOK(runtimeApi')
    BY DEF ApiType, ApiOK

LEMMA RefusedStays ==
    ASSUME ApiType, ApiType', Grows, ~SurfaceAdmitted
    PROVE  ~SurfaceAdmitted'
<1>1. UnprovedRetained \subseteq UnprovedRetained'
    BY UnprovedIsTaint, UnprovedIsTaintNext, ApiTypeOK, ApiTypeOKNext, TaintGrowsWithEvidence DEF Grows
<1>2. \A n, d : ObservesSdk(n, d) => ObservesSdk(n, d)'
    BY DEF ObservesSdk, Grows
<1>3. SUFFICES ASSUME SurfaceAdmitted' PROVE SurfaceAdmitted
    OBVIOUS
<1>4. ~runtimeApi.identityFailure
    BY <1>3 DEF SurfaceAdmitted, Grows, ApiType
<1>5. \A n \in runtimeApi.uses : ~ObservesSdk(n, FALSE)
    BY <1>2, <1>3 DEF SurfaceAdmitted, Grows
<1>6. ASSUME NEW t \in runtimeApi.tokens
      PROVE  /\ ~ObservesSdk(t.name, t.directive)
             /\ ~t.native => /\ t.name # "##"
                             /\ t.name \in UnprovedRetained => ~t.directive /\ t.name \in Admitted
  <2>1. t \in runtimeApi'.tokens
      BY DEF Grows
  <2>2. /\ ~ObservesSdk(t.name, t.directive)'
        /\ ~t.native => /\ t.name # "##"
                        /\ t.name \in UnprovedRetained' => ~t.directive /\ t.name \in Admitted
      BY <1>3, <2>1 DEF SurfaceAdmitted
  <2> QED
      BY <1>1, <1>2, <2>2
<1> QED
    BY <1>4, <1>5, <1>6 DEF SurfaceAdmitted

LEMMA DoomedRefused ==
    ASSUME Doomed PROVE ~SurfaceAdmitted
    BY DEF Doomed, SurfaceAdmitted, ObservesSdk

\* A use that observes what the output loses is refused.
LEMMA LeakIsRefused ==
    ASSUME SdkInv, ApiType', NEW n \in AllNames, NEW kind, NEW pasted \in AllNames,
           Use(n, kind, pasted), ~leaked, leaked'
    PROVE  ~SurfaceAdmitted'
<1> SUFFICES ASSUME SurfaceAdmitted' PROVE FALSE
    OBVIOUS
<1> DEFINE native == Top = "native.h"
           token == [name |-> n, directive |-> kind # "code", native |-> native]
<1>1. /\ runtimeApi'.tokens = runtimeApi.tokens \cup {token}
      /\ runtimeApi'.sdkMacros = runtimeApi.sdkMacros /\ runtimeApi'.depends = runtimeApi.depends
      /\ runtimeApi'.paste = runtimeApi.paste
      /\ runtimeApi'.identityFailure = runtimeApi.identityFailure
  <2>1. Tokens({n}, kind # "code") = {token}
      BY DEF Use, Tokens
  <2> HIDE DEF token
  <2> QED
      BY <2>1 DEF Use, SdkInv, ApiType
<1>2. ~(kind = "code" /\ n \in Admitted)
    BY DEF Use
<1>3. ~Doomed
  <2>1. Doomed => Doomed'
      BY <1>1 DEF Doomed
  <2>2. Doomed' => ~SurfaceAdmitted'
      BY DEF Doomed, SurfaceAdmitted, ObservesSdk
  <2> QED
      BY <2>1, <2>2
<1>4. n \notin runtimeApi.sdkMacros /\ n # Condition
  <2>1. token \in runtimeApi'.tokens
      BY <1>1
  <2>2. ~ObservesSdk(n, kind # "code")'
      BY <2>1 DEF SurfaceAdmitted
  <2> QED
      BY <1>1, <1>2, <2>2 DEF ObservesSdk
<1>5. PICK m \in AllNames : macros[m].lost /\ (m = n \/ m \in Expansion(n, pasted))
  <2>1. \A m \in Expansion(n, pasted) : m \in AllNames
    <3>1. Steps \in 0 .. Steps
        BY StepsPositive
    <3> QED
        BY <3>1, ExpansionIsClosure, ClosureRecursion DEF SdkInv
  <2> QED
      BY <2>1 DEF Use
<1>6. m # n
    BY <1>3, <1>4, <1>5 DEF SdkInv, LostKnown
<1>7. UnprovedRetained' = Taint(runtimeApi)[Steps]
    BY <1>1, UnprovedIsTaintNext DEF Taint, Seeds
<1>8. /\ Taint(runtimeApi)[Steps] = Taint(runtimeApi)[Steps - 1]
           \cup {x \in AllNames : runtimeApi.depends[x] \cap Taint(runtimeApi)[Steps - 1] # {}}
      /\ Seeds(runtimeApi) \subseteq Taint(runtimeApi)[Steps]
    BY StepsPositive, TaintRecursion, TaintGrowsWithDepth, ApiTypeOK DEF SdkInv
<1>9. Clean(n)
  <2> SUFFICES ASSUME macros[n].is
               PROVE  ~macros[n].paste /\ macros[n].body \cap Taint(runtimeApi)[Steps - 1] = {}
      BY <1>4 DEF Clean
  <2>1. /\ macros[n].body \subseteq runtimeApi.depends[n]
        /\ macros[n].paste => n \in runtimeApi.paste
      BY <1>4 DEF SdkInv, Noted
  <2>2. CASE ~native
    <3>1. n \notin UnprovedRetained'
      <4>1. token \in runtimeApi'.tokens
          BY <1>1
      <4> QED
          BY <1>2, <2>2, <4>1 DEF SurfaceAdmitted
    <3> QED
        BY <1>7, <1>8, <2>1, <3>1 DEF Seeds
  <2>3. CASE native
    <3>1. NativeName(n)
        BY <2>3 DEF Use
    <3>2. CASE macros[n].file = "predefines"
        BY <3>1, <3>2 DEF NativeName
    <3>3. CASE macros[n].file # "predefines"
      <4>1. /\ \A b \in macros[n].body :
                  [name |-> b, directive |-> TRUE, native |-> FALSE] \in runtimeApi'.tokens
            /\ macros[n].paste =>
                  [name |-> "##", directive |-> TRUE, native |-> FALSE] \in runtimeApi'.tokens
          BY <1>1, <1>4, <3>3 DEF SdkInv, DefinitionsRead
      <4>2. ~macros[n].paste
          BY <4>1 DEF SurfaceAdmitted
      <4>3. \A b \in macros[n].body : b \notin UnprovedRetained'
          BY <4>1 DEF SurfaceAdmitted
      <4> QED
          BY <1>7, <1>8, <4>2, <4>3
    <3> QED
        BY <3>2, <3>3
  <2> QED
      BY <2>2, <2>3
<1>10. m \in Closure(n, pasted)[Steps]
    BY <1>5, <1>6, ExpansionIsClosure
<1>11. m \notin runtimeApi.sdkMacros /\ m # Condition
    BY <1>6, <1>9, <1>10, CleanClosure, ApiTypeOK DEF SdkInv
<1> QED
    BY <1>3, <1>5, <1>11 DEF SdkInv, LostKnown

LEMMA LeakStaysRefused ==
    ASSUME SdkInv, ApiType', Grows, leaked' = leaked
    PROVE  LeakRefused'
    BY RefusedStays DEF SdkInv, LeakRefused

\* A macro table and a stack that stay are described by a record that grows.
LEMMA TableStays ==
    ASSUME SdkInv, ApiType', Grows, macros' = macros,
           runtimeApi'.sdkMacros = runtimeApi.sdkMacros
    PROVE  MacrosOK' /\ LostKnown' /\ Noted' /\ DefinitionsRead'
<1>1. MacrosOK'
    BY DEF SdkInv, MacrosOK
<1>2. Doomed => Doomed'
    BY DEF Doomed, Grows
<1>3. LostKnown'
    BY <1>2 DEF SdkInv, LostKnown
<1>4. Noted'
    BY DEF SdkInv, Noted, Grows
<1>5. DefinitionsRead'
    BY DEF SdkInv, DefinitionsRead, Grows
<1> QED
    BY <1>1, <1>3, <1>4, <1>5

LEMMA StackStays ==
    ASSUME SdkInv, Grows, stack' = stack, runtimeApi.sdkFiles \subseteq runtimeApi'.sdkFiles
    PROVE  StackOK'
<1>1. Doomed => Doomed'
    BY DEF Doomed, Grows
<1> QED
    BY <1>1 DEF SdkInv, StackOK

LEMMA TopOK ==
    ASSUME SdkInv
    PROVE  /\ Top \in Files /\ Head(stack).lost \in BOOLEAN
           /\ Top \in SdkRoles => Top \in runtimeApi.sdkFiles \/ Doomed
<1>1. Head(stack) = stack[1] /\ 1 \in 1 .. Len(stack) /\ stack[1] \in [file : Files, lost : BOOLEAN]
  <2> DEFINE E == [file : Files, lost : BOOLEAN]
  <2>1. stack \in Seq(E) /\ Len(stack) >= 1
      BY DEF SdkInv, StackOK
  <2> HIDE DEF E
  <2>2. Head(stack) = stack[1] /\ 1 \in 1 .. Len(stack) /\ stack[1] \in E
      BY <2>1
  <2> QED
      BY <2>2 DEF E
<1>2. stack[1].file \in Files /\ stack[1].lost \in BOOLEAN
    BY <1>1
<1> QED
    BY <1>1, <1>2 DEF SdkInv, StackOK, Top

LEMMA SdkInitInv == SdkInit => SdkInv
<1> SUFFICES ASSUME SdkInit PROVE SdkInv
    OBVIOUS
<1>1. ApiType
    BY DEF SdkInit, ApiType
<1>2. StackOK
    BY DEF SdkInit, StackOK, Files, SdkRoles
<1>3. MacrosOK
  <2> DEFINE Macro == [is : BOOLEAN, body : SUBSET AllNames, paste : BOOLEAN, lost : BOOLEAN,
                       file : Files]
  <2>a. Undefined \in Macro
      BY DEF Undefined, Files
  <2>b. \A u \in Macro : [u EXCEPT !.is = TRUE, !.lost = TRUE] \in Macro
      OBVIOUS
  <2>1. Undefined \in Macro /\ [Undefined EXCEPT !.is = TRUE, !.lost = TRUE] \in Macro
    <3> HIDE DEF Macro
    <3> QED
      BY <2>a, <2>b
  <2> HIDE DEF Macro
  <2>2. macros \in [AllNames -> Macro]
      BY <2>1 DEF SdkInit
  <2> QED
      BY <2>2 DEF MacrosOK, Macro
<1>4. \A m \in AllNames : macros[m].body = {} /\ ~macros[m].paste
                          /\ (macros[m].lost => m = Condition)
    BY DEF SdkInit, Undefined
<1>5. LostKnown /\ Noted /\ DefinitionsRead
    BY <1>4 DEF LostKnown, Noted, DefinitionsRead
<1> QED
    BY <1>1, <1>2, <1>3, <1>5 DEF SdkInv, LeakRefused, SdkInit

LEMMA IncludeInv ==
    ASSUME SdkInv, NEW asked \in Headers, NEW f \in Headers, NEW plain \in BOOLEAN,
           NEW real \in BOOLEAN, Include(asked, f, plain, real)
    PROVE  SdkInv'
<1> DEFINE said == InclusionDirective(runtimeApi, asked, f, plain, Top)
           root == plain /\ said.roots /\ Top = "main"
           intoFile == EnterFile(said, f, Top, root, real)
           same(a) == /\ a.sdkMacros = runtimeApi.sdkMacros /\ a.depends = runtimeApi.depends
                      /\ a.paste = runtimeApi.paste /\ a.uses = runtimeApi.uses
                      /\ runtimeApi.tokens \subseteq a.tokens
                      /\ runtimeApi.sdkFiles \subseteq a.sdkFiles
                      /\ runtimeApi.identityFailure => a.identityFailure
           Facts == [sdkFiles : SUBSET SdkRoles, sdkMacros : SUBSET AllNames,
                    depends : [AllNames -> SUBSET AllNames], paste : SUBSET AllNames,
                    uses : SUBSET AllNames, tokens : SUBSET RawTokens, roots : BOOLEAN,
                    admitted : BOOLEAN, boundaryFailed : BOOLEAN, identityFailure : BOOLEAN]
<1>1. said \in Facts /\ same(said)
  <2>1. runtimeApi \in Facts
      BY DEF SdkInv, ApiType
  <2> DEFINE swapped == (Top \in runtimeApi.sdkFiles \/ Owned(Top)) /\ asked \in SdkRoles /\ f # asked
             b == [runtimeApi EXCEPT !.identityFailure = @ \/ swapped]
  <2>2. swapped \in BOOLEAN
      OBVIOUS
  <2> HIDE DEF swapped
  <2>3. b \in Facts /\ same(b)
      BY <2>1, <2>2
  <2> DEFINE rooted == b.roots \/ (lang = "host" /\ plain /\ f = asked)
  <2>4. rooted \in BOOLEAN
      OBVIOUS
  <2>5. said = b \/ said = [b EXCEPT !.roots = rooted] \/ said = [b EXCEPT !.admitted = TRUE]
           \/ said = [b EXCEPT !.boundaryFailed = TRUE]
      BY DEF InclusionDirective, swapped
  <2> HIDE DEF b, rooted
  <2> QED
      BY <2>3, <2>4, <2>5
<1> HIDE DEF said
<1>2. intoFile \in Facts /\ same(intoFile)
  <2>1. [name |-> Condition, directive |-> TRUE, native |-> FALSE] \in RawTokens
      BY DEF RawTokens, AllNames
  <2>2. \/ f \in SdkRoles /\ intoFile = [said EXCEPT !.sdkFiles = @ \cup {f}]
        \/ intoFile = [said EXCEPT !.identityFailure = TRUE]
        \/ intoFile = [said EXCEPT !.tokens = @ \cup {[name |-> Condition, directive |-> TRUE, native |-> FALSE]}]
        \/ intoFile = said
      BY DEF EnterFile, SdkRole
  <2> HIDE DEF intoFile
  <2>3. CASE f \in SdkRoles /\ intoFile = [said EXCEPT !.sdkFiles = @ \cup {f}]
      BY <1>1, <2>3
  <2>4. CASE intoFile = [said EXCEPT !.identityFailure = TRUE]
      BY <1>1, <2>4
  <2>5. CASE intoFile = [said EXCEPT !.tokens = @ \cup {[name |-> Condition, directive |-> TRUE, native |-> FALSE]}]
    <3> DEFINE o == [name |-> Condition, directive |-> TRUE, native |-> FALSE]
    <3> HIDE DEF o
    <3>1. o \in RawTokens /\ intoFile = [said EXCEPT !.tokens = @ \cup {o}]
        BY <2>1, <2>5 DEF o
    <3> QED
        BY <1>1, <3>1
  <2>6. CASE intoFile = said
      BY <1>1, <2>6
  <2> QED
      BY <2>2, <2>3, <2>4, <2>5, <2>6
<1>3. f \in SdkRoles => \/ f \in intoFile.sdkFiles \/ intoFile.identityFailure
                        \/ [name |-> Condition, directive |-> TRUE, native |-> FALSE] \in intoFile.tokens
    BY <1>1 DEF EnterFile, SdkRole
<1>4. \/ runtimeApi' = said /\ stack' = stack
      \/ /\ runtimeApi' = intoFile
         /\ stack' = <<[file |-> f, lost |-> LostInOutput(f, Top)]>> \o stack
    BY DEF Include, said
<1> HIDE DEF intoFile
<1>5. ApiType'
    BY <1>1, <1>2, <1>4 DEF ApiType
<1>6. Grows /\ runtimeApi'.sdkMacros = runtimeApi.sdkMacros
      /\ runtimeApi.sdkFiles \subseteq runtimeApi'.sdkFiles
    BY <1>1, <1>2, <1>4 DEF Grows
<1>7. StackOK'
  <2>1. CASE stack' = stack
      BY <1>6, <2>1, StackStays
  <2>2. CASE runtimeApi' = intoFile /\ stack' = <<[file |-> f, lost |-> LostInOutput(f, Top)]>> \o stack
    <3> DEFINE e == [file |-> f, lost |-> LostInOutput(f, Top)]
    <3>1. LostInOutput(f, Top) \in BOOLEAN
        BY TopOK DEF LostInOutput, Owned
    <3>2. e \in [file : Files, lost : BOOLEAN] /\ e.file = f
        BY <3>1 DEF Files
    <3>3. f \in SdkRoles => f \in runtimeApi'.sdkFiles \/ Doomed'
        BY <1>3, <2>2 DEF Doomed
    <3>4. stack' = <<e>> \o stack
        BY <2>2
    <3> HIDE DEF e
    <3>5. /\ stack' \in Seq([file : Files, lost : BOOLEAN])
          /\ Len(stack') = Len(stack) + 1 /\ stack'[1] = e
          /\ \A i \in 2 .. Len(stack) + 1 : stack'[i] = stack[i - 1]
        BY <3>2, <3>4 DEF SdkInv, StackOK
    <3>6. Doomed => Doomed'
        BY <1>6 DEF Doomed, Grows
    <3>7. stack'[Len(stack')].file \in {"predefines", "wrapper", "main"}
        BY <3>5 DEF SdkInv, StackOK
    <3>8. \A i \in 1 .. Len(stack') : stack'[i].file \in SdkRoles =>
             stack'[i].file \in runtimeApi'.sdkFiles \/ Doomed'
      <4> SUFFICES ASSUME NEW i \in 1 .. Len(stack'), stack'[i].file \in SdkRoles
                   PROVE  stack'[i].file \in runtimeApi'.sdkFiles \/ Doomed'
          OBVIOUS
      <4>1. CASE i = 1
          BY <3>2, <3>3, <3>5, <4>1
      <4>2. CASE i # 1
        <5>1. i \in 2 .. Len(stack) + 1 /\ i - 1 \in 1 .. Len(stack)
            BY <3>5, <4>2 DEF SdkInv, StackOK
        <5> QED
            BY <1>6, <3>5, <3>6, <5>1 DEF SdkInv, StackOK
      <4> QED
          BY <4>1, <4>2
    <3> QED
        BY <3>5, <3>7, <3>8 DEF SdkInv, StackOK
  <2> QED
      BY <1>4, <2>1, <2>2
<1>8. macros' = macros /\ leaked' = leaked /\ verdict' = verdict
    BY DEF Include
<1>9. MacrosOK' /\ LostKnown' /\ Noted' /\ DefinitionsRead'
    BY <1>5, <1>6, <1>8, TableStays
<1>10. LeakRefused'
    BY <1>5, <1>6, <1>8, LeakStaysRefused
<1> QED
    BY <1>5, <1>7, <1>8, <1>9, <1>10 DEF SdkInv

LEMMA LeaveInv == ASSUME SdkInv, Leave PROVE SdkInv'
<1>1. runtimeApi' = runtimeApi /\ macros' = macros /\ leaked' = leaked /\ verdict' = verdict
    BY DEF Leave
<1>2. ApiType' /\ Grows
    BY <1>1 DEF SdkInv, ApiType, Grows
<1>3. StackOK'
  <2>1. Doomed' = Doomed /\ runtimeApi'.sdkFiles = runtimeApi.sdkFiles
      BY <1>1 DEF Doomed
  <2>2. CASE Top \in {"predefines", "wrapper"}
    <3>1. \/ stack' = <<[file |-> "wrapper", lost |-> TRUE]>>
          \/ stack' = <<[file |-> "main", lost |-> FALSE]>>
      <4>1. CASE Top = "predefines" /\ lang = "cuda"
          BY <4>1 DEF Leave
      <4>2. CASE ~(Top = "predefines" /\ lang = "cuda")
          BY <2>2, <4>2 DEF Leave
      <4> QED
          BY <4>1, <4>2
    <3>2. \A f \in {"wrapper", "main"}, b \in BOOLEAN :
             LET s == <<[file |-> f, lost |-> b]>>
             IN  /\ s \in Seq([file : Files, lost : BOOLEAN]) /\ Len(s) = 1
                 /\ s[1].file = f /\ f \notin SdkRoles
        BY DEF Files, SdkRoles
    <3>3. /\ stack' \in Seq([file : Files, lost : BOOLEAN]) /\ Len(stack') = 1
          /\ stack'[1].file \in {"wrapper", "main"} /\ stack'[1].file \notin SdkRoles
        BY <3>1, <3>2
    <3> QED
        BY <3>3 DEF StackOK
  <2>3. CASE Top \notin {"predefines", "wrapper"}
    <3>1. stack' = Tail(stack) /\ Top # "main"
        BY <2>3 DEF Leave
    <3>2. Len(stack) > 1
        BY <2>3, <3>1 DEF SdkInv, StackOK, Top
    <3>3. /\ stack' \in Seq([file : Files, lost : BOOLEAN]) /\ Len(stack') = Len(stack) - 1
          /\ \A i \in 1 .. Len(stack) - 1 : stack'[i] = stack[i + 1]
        BY <3>1, <3>2 DEF SdkInv, StackOK
    <3> QED
        BY <2>1, <3>2, <3>3 DEF SdkInv, StackOK
  <2> QED
      BY <2>2, <2>3
<1>4. MacrosOK' /\ LostKnown' /\ Noted' /\ DefinitionsRead'
    BY <1>1, <1>2, TableStays
<1>5. LeakRefused'
    BY <1>1, <1>2, LeakStaysRefused
<1> QED
    BY <1>1, <1>2, <1>3, <1>4, <1>5 DEF SdkInv

ApiTypes == [sdkFiles : SUBSET SdkRoles, sdkMacros : SUBSET AllNames,
             depends : [AllNames -> SUBSET AllNames], paste : SUBSET AllNames,
             uses : SUBSET AllNames, tokens : SUBSET RawTokens, roots : BOOLEAN,
             admitted : BOOLEAN, boundaryFailed : BOOLEAN, identityFailure : BOOLEAN]

LEMMA TokensType ==
    ASSUME NEW S \in SUBSET (AllNames \cup {"##"}), NEW d \in BOOLEAN
    PROVE  Tokens(S, d) \in SUBSET RawTokens
<1> DEFINE native == Top = "native.h"
           read == {[name |-> n, directive |-> d, native |-> native] : n \in S}
<1>1. native \in BOOLEAN
    OBVIOUS
<1>2. Tokens(S, d) = read \/ Tokens(S, d) = {}
    BY DEF Tokens
<1> HIDE DEF native
<1>3. read \in SUBSET RawTokens
    BY <1>1 DEF RawTokens
<1> HIDE DEF read
<1> QED
    BY <1>2, <1>3

\* A step is not taken in a unit the audit is bound to refuse.
LEMMA StepNotDoomed ==
    ASSUME SdkInv, Step PROVE ~Doomed
    BY DEF Step, Doomed

LEMMA DefineInv ==
    ASSUME SdkInv, NEW n \in Names, NEW body \in SUBSET AllNames, NEW paste \in BOOLEAN,
           Define(n, body, paste)
    PROVE  SdkInv'
<1> DEFINE newMacro == [is |-> TRUE, body |-> body, paste |-> paste,
                     lost |-> Head(stack).lost /\ Top \in SdkRoles, file |-> Top]
           ofSdk == Top \in runtimeApi.sdkFiles
           mentions == Tokens({n} \cup body, TRUE) \cup Tokens(IF paste THEN {"##"} ELSE {}, TRUE)
           pasting == IF paste THEN runtimeApi.paste \cup {n} ELSE runtimeApi.paste
<1>0. ~Doomed
    BY StepNotDoomed DEF Define, TextStep
<1>1. /\ macros' = [macros EXCEPT ![n] = newMacro]
      /\ stack' = stack /\ leaked' = leaked /\ verdict' = verdict
      /\ Top # "wrapper" /\ (Top = "native.h" => body = {} /\ ~paste)
    BY DEF Define
<1>2. /\ n \in AllNames /\ Top \in Files
      /\ newMacro \in [is : BOOLEAN, body : SUBSET AllNames, paste : BOOLEAN, lost : BOOLEAN, file : Files]
  <2>1. Top \in Files /\ (Head(stack).lost /\ Top \in SdkRoles) \in BOOLEAN
      BY TopOK
  <2> QED
      BY <2>1 DEF AllNames
<1>3. /\ newMacro.is /\ newMacro.body = body /\ newMacro.paste = paste /\ newMacro.file = Top
      /\ newMacro.lost => Top \in SdkRoles
    OBVIOUS
<1>4. \/ ofSdk /\ runtimeApi' = [runtimeApi EXCEPT !.sdkMacros = @ \cup {n}]
      \/ /\ ~ofSdk
         /\ runtimeApi' = [runtimeApi EXCEPT !.depends[n] = @ \cup body, !.paste = pasting,
                                             !.tokens = @ \cup mentions]
  <2>1. CASE ofSdk
      BY <2>1 DEF Define
  <2>2. CASE ~ofSdk
    <3>1. runtimeApi' = [runtimeApi EXCEPT !.depends[n] = @ \cup body,
                                   !.paste = IF paste THEN @ \cup {n} ELSE @,
                                   !.tokens = @ \cup Tokens({n} \cup body, TRUE)
                                                \cup Tokens(IF paste THEN {"##"} ELSE {}, TRUE)]
        BY <2>2 DEF Define
    <3> QED
        BY <2>2, <3>1
  <2> QED
      BY <2>1, <2>2
<1>5. mentions \in SUBSET RawTokens /\ pasting \in SUBSET AllNames
      /\ runtimeApi.paste \subseteq pasting /\ (paste => n \in pasting)
  <2>1. Tokens({n} \cup body, TRUE) \in SUBSET RawTokens
      BY <1>2, TokensType
  <2>2. Tokens(IF paste THEN {"##"} ELSE {}, TRUE) \in SUBSET RawTokens
    <3>1. (IF paste THEN {"##"} ELSE {}) \in SUBSET (AllNames \cup {"##"})
        OBVIOUS
    <3> QED
        BY <3>1, TokensType
  <2>3. pasting \in SUBSET AllNames /\ runtimeApi.paste \subseteq pasting /\ (paste => n \in pasting)
      BY <1>2 DEF SdkInv, ApiType
  <2> QED
      BY <2>1, <2>2, <2>3
<1>6. (~ofSdk /\ Top # "predefines") =>
         /\ \A b \in body : [name |-> b, directive |-> TRUE, native |-> FALSE] \in mentions
         /\ paste => [name |-> "##", directive |-> TRUE, native |-> FALSE] \in mentions
  <2> SUFFICES ASSUME ~ofSdk, Top # "predefines"
               PROVE  /\ \A b \in body : [name |-> b, directive |-> TRUE, native |-> FALSE] \in mentions
                      /\ paste => [name |-> "##", directive |-> TRUE, native |-> FALSE] \in mentions
      OBVIOUS
  <2>1. CASE Top = "native.h"
      BY <1>1, <2>1
  <2>2. CASE Top # "native.h"
    <3>1. Retained(Top) /\ (Top = "native.h") = FALSE
        BY <1>1, <2>2 DEF Retained, Owned
    <3>2. \A b \in body : [name |-> b, directive |-> TRUE, native |-> FALSE] \in Tokens({n} \cup body, TRUE)
        BY <3>1 DEF Tokens
    <3>3. paste => [name |-> "##", directive |-> TRUE, native |-> FALSE]
                       \in Tokens(IF paste THEN {"##"} ELSE {}, TRUE)
        BY <3>1 DEF Tokens
    <3> QED
        BY <3>2, <3>3
  <2> QED
      BY <2>1, <2>2
<1> HIDE DEF newMacro, mentions, pasting
<1>7. runtimeApi \in ApiTypes
    BY DEF SdkInv, ApiType, ApiTypes
<1>8. /\ runtimeApi' \in ApiTypes
      /\ runtimeApi'.identityFailure = runtimeApi.identityFailure
      /\ runtimeApi'.sdkFiles = runtimeApi.sdkFiles
      /\ runtimeApi'.uses = runtimeApi.uses
      /\ runtimeApi.tokens \subseteq runtimeApi'.tokens
      /\ runtimeApi.sdkMacros \subseteq runtimeApi'.sdkMacros
      /\ runtimeApi.paste \subseteq runtimeApi'.paste
      /\ \A m \in AllNames : runtimeApi.depends[m] \subseteq runtimeApi'.depends[m]
      /\ \A m \in AllNames : m # n => (m \in runtimeApi'.sdkMacros <=> m \in runtimeApi.sdkMacros)
      /\ ofSdk => n \in runtimeApi'.sdkMacros
      /\ ~ofSdk => /\ body \subseteq runtimeApi'.depends[n] /\ (paste => n \in runtimeApi'.paste)
                 /\ mentions \subseteq runtimeApi'.tokens
  <2>1. CASE ofSdk /\ runtimeApi' = [runtimeApi EXCEPT !.sdkMacros = @ \cup {n}]
      BY <1>2, <1>7, <2>1 DEF ApiTypes
  <2>2. CASE ~ofSdk /\ runtimeApi' = [runtimeApi EXCEPT !.depends[n] = @ \cup body, !.paste = pasting,
                                             !.tokens = @ \cup mentions]
    <3>1. runtimeApi.depends[n] \cup body \in SUBSET AllNames
        BY <1>2, <1>7 DEF ApiTypes
    <3>2. /\ runtimeApi'.depends = [runtimeApi.depends EXCEPT ![n] = @ \cup body]
          /\ runtimeApi'.paste = pasting /\ runtimeApi'.tokens = runtimeApi.tokens \cup mentions
          /\ runtimeApi'.identityFailure = runtimeApi.identityFailure
          /\ runtimeApi'.sdkFiles = runtimeApi.sdkFiles
          /\ runtimeApi'.uses = runtimeApi.uses /\ runtimeApi'.sdkMacros = runtimeApi.sdkMacros
        BY <1>7, <2>2 DEF ApiTypes
    <3>3. runtimeApi' \in ApiTypes
      <4>1. [runtimeApi.depends EXCEPT ![n] = @ \cup body] \in [AllNames -> SUBSET AllNames]
          BY <1>7, <3>1 DEF ApiTypes
      <4>2. runtimeApi.tokens \cup mentions \in SUBSET RawTokens
          BY <1>5, <1>7 DEF ApiTypes
      <4> QED
          BY <1>5, <1>7, <2>2, <4>1, <4>2 DEF ApiTypes
    <3>4. \A m \in AllNames : runtimeApi'.depends[m] = IF m = n THEN runtimeApi.depends[n] \cup body
                                                       ELSE runtimeApi.depends[m]
        BY <1>2, <1>7, <3>2 DEF ApiTypes
    <3> QED
        BY <1>2, <1>5, <2>2, <3>2, <3>3, <3>4
  <2> QED
      BY <1>4, <2>1, <2>2
<1> HIDE DEF ofSdk
<1>9. ApiType' /\ Grows
    BY <1>8 DEF ApiType, ApiTypes, Grows
<1>10. MacrosOK' /\ macros'[n] = newMacro /\ \A m \in AllNames : m # n => macros'[m] = macros[m]
  <2> DEFINE E == [is : BOOLEAN, body : SUBSET AllNames, paste : BOOLEAN, lost : BOOLEAN, file : Files]
  <2>1. macros \in [AllNames -> E] /\ newMacro \in E
      BY <1>2 DEF SdkInv, MacrosOK
  <2> HIDE DEF E
  <2>2. macros' \in [AllNames -> E] /\ macros'[n] = newMacro
        /\ \A m \in AllNames : m # n => macros'[m] = macros[m]
      BY <1>1, <1>2, <2>1
  <2> QED
      BY <2>2 DEF MacrosOK, E
<1>11. LostKnown'
  <2> SUFFICES ASSUME NEW m \in AllNames, macros'[m].lost
               PROVE  m \in runtimeApi'.sdkMacros \cup {Condition} \/ Doomed'
      BY DEF LostKnown
  <2>1. CASE m = n
      BY <1>0, <1>3, <1>8, <1>10, <2>1, TopOK DEF ofSdk
  <2>2. CASE m # n
      BY <1>0, <1>8, <1>10, <2>2 DEF SdkInv, LostKnown
  <2> QED
      BY <2>1, <2>2
<1>12. Noted'
  <2> SUFFICES ASSUME NEW m \in AllNames, macros'[m].is, m \notin runtimeApi'.sdkMacros
               PROVE  macros'[m].body \subseteq runtimeApi'.depends[m]
                      /\ (macros'[m].paste => m \in runtimeApi'.paste)
      BY DEF Noted
  <2>1. CASE m = n
      BY <1>3, <1>8, <1>10, <2>1
  <2>2. CASE m # n
      BY <1>8, <1>10, <2>2 DEF SdkInv, Noted
  <2> QED
      BY <2>1, <2>2
<1>13. DefinitionsRead'
  <2> SUFFICES ASSUME NEW m \in AllNames, macros'[m].is, m \notin runtimeApi'.sdkMacros,
                      macros'[m].file # "predefines"
               PROVE  /\ \A b \in macros'[m].body :
                            [name |-> b, directive |-> TRUE, native |-> FALSE] \in runtimeApi'.tokens
                      /\ macros'[m].paste =>
                            [name |-> "##", directive |-> TRUE, native |-> FALSE] \in runtimeApi'.tokens
      BY DEF DefinitionsRead
  <2>1. CASE m = n
      BY <1>3, <1>6, <1>8, <1>10, <2>1
  <2>2. CASE m # n
      BY <1>8, <1>10, <2>2 DEF SdkInv, DefinitionsRead
  <2> QED
      BY <2>1, <2>2
<1>14. StackOK'
    BY <1>1, <1>8, <1>9, StackStays
<1>15. LeakRefused'
    BY <1>1, <1>9, LeakStaysRefused
<1> QED
    BY <1>1, <1>9, <1>10, <1>11, <1>12, <1>13, <1>14, <1>15 DEF SdkInv

LEMMA UndefineInv ==
    ASSUME SdkInv, NEW n \in Names, Undefine(n)
    PROVE  SdkInv'
<1>1. /\ n \in AllNames /\ macros' = [macros EXCEPT ![n] = Undefined]
      /\ runtimeApi' = [runtimeApi EXCEPT !.tokens = @ \cup Tokens({n}, TRUE)]
      /\ stack' = stack /\ leaked' = leaked /\ verdict' = verdict
    BY DEF Undefine, AllNames
<1>2. Tokens({n}, TRUE) \in SUBSET RawTokens
    BY <1>1, TokensType
<1>3. /\ ApiType'
      /\ runtimeApi'.sdkFiles = runtimeApi.sdkFiles /\ runtimeApi'.sdkMacros = runtimeApi.sdkMacros
      /\ runtimeApi'.depends = runtimeApi.depends /\ runtimeApi'.paste = runtimeApi.paste
      /\ runtimeApi'.uses = runtimeApi.uses
      /\ runtimeApi'.identityFailure = runtimeApi.identityFailure
      /\ runtimeApi.tokens \subseteq runtimeApi'.tokens
    BY <1>1, <1>2 DEF SdkInv, ApiType
<1>4. Grows
    BY <1>3 DEF Grows
<1>5. MacrosOK' /\ ~macros'[n].is /\ ~macros'[n].lost
      /\ \A m \in AllNames : m # n => macros'[m] = macros[m]
  <2> DEFINE E == [is : BOOLEAN, body : SUBSET AllNames, paste : BOOLEAN, lost : BOOLEAN, file : Files]
  <2>1. macros \in [AllNames -> E] /\ Undefined \in E /\ ~Undefined.is /\ ~Undefined.lost
      BY DEF SdkInv, MacrosOK, Undefined, Files
  <2> HIDE DEF E
  <2>2. macros' \in [AllNames -> E] /\ macros'[n] = Undefined
        /\ \A m \in AllNames : m # n => macros'[m] = macros[m]
      BY <1>1, <2>1
  <2> QED
      BY <2>1, <2>2 DEF MacrosOK, E
<1>6. Doomed => Doomed'
    BY <1>3 DEF Doomed
<1>7. LostKnown'
    BY <1>3, <1>5, <1>6 DEF SdkInv, LostKnown
<1>8. Noted'
    BY <1>3, <1>5 DEF SdkInv, Noted
<1>9. DefinitionsRead'
    BY <1>3, <1>5 DEF SdkInv, DefinitionsRead
<1>10. StackOK'
    BY <1>1, <1>3, <1>4, StackStays
<1>11. LeakRefused'
    BY <1>1, <1>3, <1>4, LeakStaysRefused
<1> QED
    BY <1>1, <1>3, <1>5, <1>7, <1>8, <1>9, <1>10, <1>11 DEF SdkInv

LEMMA UseInv ==
    ASSUME SdkInv, NEW n \in AllNames, NEW kind \in {"code", "if", "ifdef"},
           NEW pasted \in AllNames, Use(n, kind, pasted)
    PROVE  SdkInv'
<1> DEFINE expanded == IF kind = "ifdef" THEN {} ELSE Expansion(n, pasted)
           read == Tokens({n}, kind # "code")
<1>1. /\ runtimeApi' = [runtimeApi EXCEPT !.uses = @ \cup expanded, !.tokens = @ \cup read]
      /\ macros' = macros /\ stack' = stack /\ verdict' = verdict
    BY DEF Use
<1>2. expanded \in SUBSET AllNames
  <2>1. Steps \in 0 .. Steps
      BY StepsPositive
  <2> QED
      BY <2>1, ExpansionIsClosure, ClosureRecursion DEF SdkInv
<1>3. read \in SUBSET RawTokens
    BY TokensType
<1> HIDE DEF expanded, read
<1>4. /\ ApiType'
      /\ runtimeApi'.sdkFiles = runtimeApi.sdkFiles /\ runtimeApi'.sdkMacros = runtimeApi.sdkMacros
      /\ runtimeApi'.depends = runtimeApi.depends /\ runtimeApi'.paste = runtimeApi.paste
      /\ runtimeApi.uses \subseteq runtimeApi'.uses
      /\ runtimeApi'.identityFailure = runtimeApi.identityFailure
      /\ runtimeApi.tokens \subseteq runtimeApi'.tokens
    BY <1>1, <1>2, <1>3 DEF SdkInv, ApiType
<1>5. Grows
    BY <1>4 DEF Grows
<1>6. MacrosOK' /\ LostKnown' /\ Noted' /\ DefinitionsRead'
    BY <1>1, <1>4, <1>5, TableStays
<1>7. StackOK'
    BY <1>1, <1>4, <1>5, StackStays
<1>8. leaked' \in BOOLEAN
    BY DEF Use
<1>9. LeakRefused'
  <2>1. CASE leaked
    BY <1>4, <1>5, <2>1, RefusedStays DEF SdkInv, LeakRefused
  <2>2. CASE ~leaked
    BY <1>4, <2>2, LeakIsRefused DEF LeakRefused
  <2> QED
    BY <2>1, <2>2
<1>10. verdict # "accepted"
    BY DEF Use, TextStep, Step
<1> QED
    BY <1>1, <1>4, <1>6, <1>7, <1>8, <1>9, <1>10 DEF SdkInv

LEMMA AuditInv == ASSUME SdkInv, Audit PROVE SdkInv'
<1>1. /\ runtimeApi' = runtimeApi /\ macros' = macros /\ stack' = stack /\ leaked' = leaked
      /\ verdict' = "accepted" => SurfaceAdmitted
    BY DEF Audit
<1>2. ApiType' /\ Grows
    BY <1>1 DEF SdkInv, ApiType, Grows
<1>3. MacrosOK' /\ LostKnown' /\ Noted' /\ DefinitionsRead'
    BY <1>1, <1>2, TableStays
<1>4. StackOK'
    BY <1>1, <1>2, StackStays
<1>5. LeakRefused'
    BY <1>1, <1>2, LeakStaysRefused
<1>6. (verdict = "accepted" => ~leaked)'
    BY <1>1 DEF SdkInv, LeakRefused
<1> QED
    BY <1>1, <1>2, <1>3, <1>4, <1>5, <1>6 DEF SdkInv

LEMMA SdkNextInv == SdkInv /\ [SdkNext]_sdkVars => SdkInv'
<1> SUFFICES ASSUME SdkInv, [SdkNext]_sdkVars PROVE SdkInv'
    OBVIOUS
<1>1. ASSUME NEW asked \in Headers, NEW f \in Headers, NEW plain \in BOOLEAN,
             NEW real \in BOOLEAN, Include(asked, f, plain, real)
      PROVE  SdkInv'
    BY <1>1, IncludeInv
<1>2. CASE Leave
    BY <1>2, LeaveInv
<1>3. ASSUME NEW n \in Names, NEW body \in {{}} \cup {{m} : m \in AllNames}, NEW paste \in BOOLEAN,
             Define(n, body, paste)
      PROVE  SdkInv'
  <2>1. body \in SUBSET AllNames
      OBVIOUS
  <2> QED
      BY <1>3, <2>1, DefineInv
<1>4. ASSUME NEW n \in Names, Undefine(n) PROVE SdkInv'
    BY <1>4, UndefineInv
<1>5. ASSUME NEW n \in AllNames, NEW kind \in {"code", "if", "ifdef"}, NEW pasted \in AllNames,
             Use(n, kind, pasted)
      PROVE  SdkInv'
    BY <1>5, UseInv
<1>6. CASE Audit
    BY <1>6, AuditInv
<1>7. CASE UNCHANGED sdkVars
  <2>1. /\ runtimeApi' = runtimeApi /\ macros' = macros /\ stack' = stack /\ leaked' = leaked
        /\ verdict' = verdict
      BY <1>7 DEF sdkVars
  <2>2. ApiType' /\ Grows
      BY <2>1 DEF SdkInv, ApiType, Grows
  <2>3. MacrosOK' /\ LostKnown' /\ Noted' /\ DefinitionsRead' /\ StackOK' /\ LeakRefused'
      BY <2>1, <2>2, TableStays, StackStays, LeakStaysRefused
  <2> QED
      BY <2>1, <2>2, <2>3 DEF SdkInv
<1> QED
    BY <1>1, <1>2, <1>3, <1>4, <1>5, <1>6, <1>7 DEF SdkNext

\* Removing the SDK includes of an accepted unit is invisible: no directive or expansion
\* the parse saw outside the SDK depended on a macro of the removed headers, for any
\* names, include stacks and orders of events (AscifyAction.cpp, macro provenance).
THEOREM AcceptedRemovalInvisible == SdkSpec => []SdkRemovalInvisible
<1>1. SdkInv => SdkRemovalInvisible
    BY DEF SdkInv, SdkRemovalInvisible
<1> QED
    BY <1>1, SdkInitInv, SdkNextInv, PTL DEF SdkSpec

-----------------------------------------------------------------------------
(* The profiler block                                                      *)

LEMMA OutputRecursion ==
    ASSUME NEW t \in Seq(LineKinds), NEW c
    PROVE  /\ OutputAfter(t, c)[0] = OutputStart
           /\ \A i \in 1 .. Len(t) : OutputAfter(t, c)[i] = OutputLine(t, c, OutputAfter(t, c)[i - 1], i)
<1> DEFINE N == Len(t)
           Is(f) == f = [i \in 0 .. N |-> IF i = 0 THEN OutputStart ELSE OutputLine(t, c, f[i - 1], i)]
           Upto(f, n) == f[0] = OutputStart /\ \A i \in 1 .. n : f[i] = OutputLine(t, c, f[i - 1], i)
           S == {n \in 0 .. N : \E f : Upto(f, n)}
<1>1. N \in Nat
    OBVIOUS
<1> HIDE DEF N
<1>2. 0 \in S
  <2> DEFINE f == [i \in 0 .. N |-> OutputStart]
  <2>1. f[0] = OutputStart
      BY <1>1
  <2> HIDE DEF f
  <2>2. Upto(f, 0)
      BY <2>1
  <2> HIDE DEF Upto
  <2> QED
      BY <1>1, <2>2
<1>3. ASSUME NEW n \in 1 .. N, n - 1 \in S PROVE n \in S
  <2>1. PICK f : Upto(f, n - 1)
      BY <1>3
  <2> DEFINE g == [i \in 0 .. N |-> IF i = n THEN OutputLine(t, c, f[n - 1], n) ELSE f[i]]
  <2>2. g[n] = OutputLine(t, c, f[n - 1], n) /\ \A i \in 0 .. n - 1 : g[i] = f[i]
      BY <1>1
  <2> HIDE DEF g
  <2>3. g[0] = OutputStart
      BY <2>1, <2>2
  <2>4. ASSUME NEW i \in 1 .. n PROVE g[i] = OutputLine(t, c, g[i - 1], i)
    <3>1. CASE i = n
        BY <2>2, <3>1
    <3>2. CASE i # n
      <4>1. i \in 1 .. n - 1 /\ i \in 0 .. n - 1 /\ i - 1 \in 0 .. n - 1
          BY <3>2
      <4>2. g[i] = f[i] /\ g[i - 1] = f[i - 1] /\ f[i] = OutputLine(t, c, f[i - 1], i)
          BY <2>1, <2>2, <4>1
      <4> QED
          BY <4>2
    <3> QED
        BY <3>1, <3>2
  <2>5. Upto(g, n)
      BY <2>3, <2>4
  <2> HIDE DEF Upto
  <2> QED
      BY <2>5
<1>4. N \in S
  <2> HIDE DEF S, Upto, Is
  <2>1. \A n \in 1 .. N : n - 1 \in S => n \in S
      BY <1>3
  <2>2. \A n \in 0 .. N : n \in S
      BY <1>1, <1>2, <2>1, Induction
  <2> QED
      BY <1>1, <2>2
<1>5. PICK f : Upto(f, N)
    BY <1>4
<1> DEFINE h == [i \in 0 .. N |-> f[i]]
<1>6. Is(h)
  <2>1. \A i \in 0 .. N : h[i] = IF i = 0 THEN OutputStart ELSE OutputLine(t, c, h[i - 1], i)
    <3> SUFFICES ASSUME NEW i \in 0 .. N, i # 0
                 PROVE  h[i] = OutputLine(t, c, h[i - 1], i)
        BY <1>5
    <3>1. i \in 1 .. N /\ i - 1 \in 0 .. N
        BY <1>1
    <3>2. h[i] = f[i] /\ h[i - 1] = f[i - 1]
        BY <3>1
    <3> QED
        BY <1>5, <3>1, <3>2
  <2>2. h = [i \in 0 .. N |-> h[i]]
      OBVIOUS
  <2> HIDE DEF h
  <2> QED
      BY <2>1, <2>2
<1>7. Is(OutputAfter(t, c))
  <2>1. OutputAfter(t, c) = CHOOSE f2 : Is(f2)
      BY DEF OutputAfter, N
  <2> HIDE DEF Is, h
  <2> QED
      BY <1>6, <2>1
<1> DEFINE o == OutputAfter(t, c)
<1> HIDE DEF o
<1>8. Is(o)
    BY <1>7 DEF o
<1>9. o[0] = OutputStart
    BY <1>1, <1>8
<1>10. ASSUME NEW i \in 1 .. N PROVE o[i] = OutputLine(t, c, o[i - 1], i)
  <2>1. i \in 0 .. N /\ i # 0
      BY <1>1
  <2> QED
      BY <1>8, <2>1
<1> QED
    BY <1>9, <1>10 DEF o, N

-----------------------------------------------------------------------------
Cands == [at : Nat, named : BOOLEAN, included : BOOLEAN, mapped : BOOLEAN,
          sdkEntered : BOOLEAN, endif : BOOLEAN]

\* An open conditional began at a line that was read.
TakenOK ==
    /\ taken \in Seq([at : Nat, live : BOOLEAN])
    /\ \A k \in 1 .. Len(taken) : taken[k].at \in 1 .. at - 1 /\ text[taken[k].at] \in {"if", "elif"}

CandOK == cand = << >> \/ \E r \in Cands : cand = <<r>> /\ r.at \in 1 .. at - 1

ProfilerType ==
    /\ text \in Seq(LineKinds) /\ at \in 1 .. Len(text) + 1
    /\ TakenOK /\ CandOK
    /\ profiler \in [failed : BOOLEAN, modified : BOOLEAN, position : BOOLEAN, defs : Nat,
                     undefs : Nat, admitted : BOOLEAN, boundaryFailed : BOOLEAN]

\* The text read so far holds no probe but the candidate's, and no callback refused the block.
Plain ==
    /\ ~profiler.failed
    /\ \A i \in 1 .. at - 1 : /\ text[i] \notin {"elif", "probe"}
                              /\ text[i] = "if" => i = Sealing

\* n open branches, all read.
Opened(n) == {o \in Seq({TRUE}) : Len(o) = n}

Mirror(o) == [open |-> o, flag |-> flag, saw |-> saw]

\* The output has read the same lines in the same state, wherever its probe is sealed.
InStep ==
    /\ Live
    /\ \A c \in Nat : (\A i \in 1 .. at - 1 : text[i] = "if" => i = c) =>
          \E o \in Opened(Len(taken)) : OutputAfter(text, c)[at - 1] = Mirror(o)

ProfilerInv ==
    /\ ProfilerType
    /\ Plain => InStep
    /\ result = "accepted" /\ profiler.admitted => Plain /\ SurfaceClean /\ at = Len(text) + 1

LEMMA KeptFromInv == ASSUME ProfilerInv PROVE AvailabilityKept
<1> SUFFICES ASSUME result = "accepted", profiler.admitted PROVE OutputFlag = saw
    BY DEF AvailabilityKept
<1>1. InStep /\ Plain /\ SurfaceClean /\ at - 1 = Len(text)
    BY DEF ProfilerInv, ProfilerType
<1> DEFINE c == Sealing
<1>2. c \in Nat /\ (cand # << >> => c = cand[1].at) /\ (cand = << >> => c = 0)
    BY DEF ProfilerInv, ProfilerType, CandOK, Sealing, Cands
<1>3. OutputAfter(text, c)[Len(text)].saw = saw
  <2>1. \A i \in 1 .. at - 1 : text[i] = "if" => i = c
      BY <1>1 DEF Plain
  <2> HIDE DEF c
  <2>2. PICK o \in Opened(Len(taken)) : OutputAfter(text, c)[at - 1] = Mirror(o)
      BY <1>1, <1>2, <2>1 DEF InStep
  <2> QED
      BY <1>1, <2>2 DEF Mirror
<1> QED
    BY <1>1, <1>3 DEF OutputFlag

LEMMA NextLine ==
    ASSUME ProfilerType, NEW kind \in LineKinds, Reads(kind)
    PROVE  /\ at \in 1 .. Len(text) /\ text[at] = kind /\ at' = at + 1 /\ result = "reading"
<1>1. Line(at) = kind /\ kind # "end" /\ at' = at + 1 /\ result = "reading"
    BY DEF Reads, LineKinds
<1>2. at \in DOMAIN text
    BY <1>1 DEF Line
<1> QED
    BY <1>1, <1>2 DEF Line, ProfilerType

LEMMA PlainBefore ==
    ASSUME ProfilerType, at' = at + 1, text' = text, Plain',
           profiler.failed => profiler'.failed,
           Sealing' = Sealing \/ Sealing' = at
    PROVE  Plain
<1>1. ~profiler.failed
    BY DEF Plain, ProfilerType
<1>2. \A i \in 1 .. at : /\ text[i] \notin {"elif", "probe"}
                         /\ text[i] = "if" => i = Sealing'
    BY DEF Plain, ProfilerType
<1>3. ASSUME NEW i \in 1 .. at - 1
      PROVE  text[i] \notin {"elif", "probe"} /\ (text[i] = "if" => i = Sealing)
  <2>1. i \in 1 .. at /\ i # at
      BY DEF ProfilerType
  <2> QED
      BY <1>2, <2>1
<1> QED
    BY <1>1, <1>3 DEF Plain

LEMMA StaysInStep ==
    ASSUME ProfilerType, InStep, at \in 1 .. Len(text), at' = at + 1, text' = text, Live',
           \A c \in Nat, o \in Opened(Len(taken)) : (text[at] = "if" => at = c) =>
               \E p \in Opened(Len(taken')) :
                  OutputLine(text, c, Mirror(o), at) = [open |-> p, flag |-> flag', saw |-> saw']
    PROVE  InStep'
<1> SUFFICES \A c \in Nat : (\A i \in 1 .. at : text[i] = "if" => i = c) =>
                \E p \in Opened(Len(taken')) :
                    OutputAfter(text, c)[at] = [open |-> p, flag |-> flag', saw |-> saw']
  <2>1. at' - 1 = at
      BY DEF ProfilerType
  <2>2. \A o : Mirror(o)' = [open |-> o, flag |-> flag', saw |-> saw']
      BY DEF Mirror
  <2>3. \A c \in Nat : (\A i \in 1 .. at : text[i] = "if" => i = c) =>
          \E o \in Opened(Len(taken')) : OutputAfter(text, c)[at] = Mirror(o)'
      BY <2>2
  <2> QED
      BY <2>1, <2>3 DEF InStep
<1> SUFFICES ASSUME NEW c \in Nat, \A i \in 1 .. at : text[i] = "if" => i = c
             PROVE  \E p \in Opened(Len(taken')) :
                       OutputAfter(text, c)[at] = [open |-> p, flag |-> flag', saw |-> saw']
    OBVIOUS
<1>1. PICK o \in Opened(Len(taken)) : OutputAfter(text, c)[at - 1] = Mirror(o)
  <2>1. \A i \in 1 .. at - 1 : text[i] = "if" => i = c
      BY DEF ProfilerType
  <2> QED
      BY <2>1 DEF InStep
<1>2. OutputAfter(text, c)[at] = OutputLine(text, c, OutputAfter(text, c)[at - 1], at)
    BY OutputRecursion DEF ProfilerType
<1>3. at \in 1 .. at
    BY DEF ProfilerType
<1> QED
    BY <1>1, <1>2, <1>3

LEMMA ProfilerInitInv == ASSUME ProfilerInit PROVE ProfilerInv
<1>1. ProfilerType
    BY TextsAssumption DEF ProfilerInit, ProfilerType, TakenOK, CandOK
<1>2. InStep
  <2>1. \A c \in Nat : OutputAfter(text, c)[0] = OutputStart
      BY <1>1, OutputRecursion DEF ProfilerType
  <2>2. OutputStart = Mirror(<< >>)
      BY DEF Mirror, OutputStart, ProfilerInit
  <2>3. at - 1 = 0 /\ Live /\ Len(taken) = 0
      BY DEF ProfilerInit, Live
  <2>4. << >> \in Opened(0)
      BY DEF Opened
  <2> QED
      BY <2>1, <2>2, <2>3, <2>4 DEF InStep
<1> QED
    BY <1>1, <1>2 DEF ProfilerInv, ProfilerInit

-----------------------------------------------------------------------------
\* What each kind of line does to the output's reader, all branches being read.
LEMMA AllRead == ASSUME NEW n \in Nat, NEW o \in Opened(n) PROVE \A k \in DOMAIN o : o[k]
<1> DEFINE T == {TRUE}
<1>0. o \in Seq(T)
    BY DEF Opened
<1>1. \A k \in DOMAIN o : o[k] \in {TRUE}
  <2> HIDE DEF T
  <2>1. \A k \in DOMAIN o : o[k] \in T
      BY <1>0
  <2> QED
      BY <2>1 DEF T
<1>2. ASSUME NEW k \in DOMAIN o PROVE o[k]
  <2>1. o[k] = TRUE
      BY <1>1
  <2> QED
      BY <2>1, Zenon
<1> QED
    BY <1>2, Zenon

LEMMA MirrorReads ==
    ASSUME NEW n \in Nat, NEW o \in Opened(n)
    PROVE  /\ \A k \in DOMAIN Mirror(o).open : Mirror(o).open[k]
           /\ Mirror(o).open = o /\ Mirror(o).flag = flag /\ Mirror(o).saw = saw
<1>1. Mirror(o).open = o /\ Mirror(o).flag = flag /\ Mirror(o).saw = saw
    BY DEF Mirror
<1> QED
    BY <1>1, AllRead

LEMMA OpenLine ==
    ASSUME NEW t, NEW c, NEW i, NEW n \in Nat, NEW o \in Opened(n), t[i] = "if", i = c
    PROVE  \E p \in Opened(n + 1) : OutputLine(t, c, Mirror(o), i) = [open |-> p, flag |-> flag, saw |-> saw]
<1> DEFINE m == Mirror(o)
           live == \A k \in DOMAIN m.open : m.open[k]
<1>1. live /\ m.open = o
    BY MirrorReads
<1> HIDE DEF m, live
<1>2. OutputLine(t, c, m, i) = [m EXCEPT !.open = <<i = c>> \o m.open]
    BY <1>1 DEF OutputLine, live
<1>3. (i = c) = TRUE
    OBVIOUS
<1>4. OutputLine(t, c, m, i) = [m EXCEPT !.open = <<TRUE>> \o o]
    BY <1>1, <1>2, <1>3
<1>5. OutputLine(t, c, m, i) = Mirror(<<TRUE>> \o o)
    BY <1>4 DEF m, Mirror
<1>6. <<TRUE>> \o o \in Opened(n + 1)
    BY DEF Opened
<1> QED
    BY <1>5, <1>6 DEF m, Mirror

LEMMA CloseLine ==
    ASSUME NEW t, NEW c, NEW i, NEW n \in Nat, NEW o \in Opened(n), t[i] = "endif", n > 0
    PROVE  \E p \in Opened(n - 1) : OutputLine(t, c, Mirror(o), i) = [open |-> p, flag |-> flag, saw |-> saw]
<1> DEFINE m == Mirror(o)
           live == \A k \in DOMAIN m.open : m.open[k]
<1>1. live /\ m.open = o
    BY MirrorReads
<1> HIDE DEF m, live
<1>2. OutputLine(t, c, m, i) = [m EXCEPT !.open = Tail(m.open)]
    BY <1>1 DEF OutputLine, live
<1>3. OutputLine(t, c, m, i) = Mirror(Tail(o))
    BY <1>1, <1>2 DEF m, Mirror
<1>4. Tail(o) \in Opened(n - 1)
    BY DEF Opened
<1> QED
    BY <1>3, <1>4 DEF m, Mirror

LEMMA SilentLine ==
    ASSUME NEW t, NEW c, NEW i, NEW n \in Nat, NEW o \in Opened(n), t[i] \in {"include", "hash line"}
    PROVE  OutputLine(t, c, Mirror(o), i) = [open |-> o, flag |-> flag, saw |-> saw]
<1> DEFINE m == Mirror(o)
           live == \A k \in DOMAIN m.open : m.open[k]
<1>1. live
    BY MirrorReads
<1> HIDE DEF m, live
<1>2. OutputLine(t, c, m, i) = m
    BY <1>1 DEF OutputLine, live
<1> QED
    BY <1>2 DEF m, Mirror

LEMMA DefineLine ==
    ASSUME NEW t, NEW c, NEW i, NEW n \in Nat, NEW o \in Opened(n)
    PROVE  /\ t[i] = "flag" =>
                OutputLine(t, c, Mirror(o), i) = [open |-> o, flag |-> TRUE, saw |-> saw]
           /\ t[i] = "undef" =>
                OutputLine(t, c, Mirror(o), i) = [open |-> o, flag |-> FALSE, saw |-> saw]
<1> DEFINE m == Mirror(o)
           live == \A k \in DOMAIN m.open : m.open[k]
<1>1. live
    BY MirrorReads
<1> HIDE DEF m, live
<1>2. ASSUME t[i] = "flag"
      PROVE  OutputLine(t, c, m, i) = [open |-> o, flag |-> TRUE, saw |-> saw]
  <2>1. OutputLine(t, c, m, i) = [m EXCEPT !.flag = TRUE]
      BY <1>1, <1>2 DEF OutputLine, live
  <2> QED
      BY <2>1 DEF m, Mirror
<1>3. ASSUME t[i] = "undef"
      PROVE  OutputLine(t, c, m, i) = [open |-> o, flag |-> FALSE, saw |-> saw]
  <2>1. OutputLine(t, c, m, i) = [m EXCEPT !.flag = FALSE]
      BY <1>1, <1>3 DEF OutputLine, live
  <2> QED
      BY <2>1 DEF m, Mirror
<1> QED
    BY <1>2, <1>3 DEF m

LEMMA AskLine ==
    ASSUME NEW t, NEW c, NEW i, NEW n \in Nat, NEW o \in Opened(n), t[i] \in {"ifdef", "value"}
    PROVE  OutputLine(t, c, Mirror(o), i) =
              [open |-> o, flag |-> flag, saw |-> Append(saw, <<i, flag>>)]
<1> DEFINE m == Mirror(o)
           live == \A k \in DOMAIN m.open : m.open[k]
<1>1. live /\ m.flag = flag /\ m.saw = saw
    BY MirrorReads
<1> HIDE DEF m, live
<1>2. OutputLine(t, c, m, i) = [m EXCEPT !.saw = Append(m.saw, <<i, m.flag>>)]
    BY <1>1 DEF OutputLine, live
<1>3. OutputLine(t, c, m, i) = [m EXCEPT !.saw = Append(saw, <<i, flag>>)]
    BY <1>1, <1>2
<1> QED
    BY <1>3 DEF m, Mirror

-----------------------------------------------------------------------------
LEMMA PushTaken ==
    ASSUME ProfilerType, at \in 1 .. Len(text), text[at] \in {"if", "elif"}, at' = at + 1,
           text' = text, NEW live \in BOOLEAN, taken' = <<[at |-> at, live |-> live]>> \o taken
    PROVE  TakenOK'
<1> DEFINE E == [at : Nat, live : BOOLEAN]
           e == [at |-> at, live |-> live]
<1>1. taken \in Seq(E) /\ e \in E /\ e.at = at
    BY DEF ProfilerType, TakenOK
<1>2. taken' = <<e>> \o taken
    OBVIOUS
<1> HIDE DEF e, E
<1>3. /\ taken' \in Seq(E) /\ Len(taken') = Len(taken) + 1 /\ taken'[1] = e
      /\ \A k \in 2 .. Len(taken) + 1 : taken'[k] = taken[k - 1]
    BY <1>1, <1>2
<1>4. ASSUME NEW k \in 1 .. Len(taken')
      PROVE  taken'[k].at \in 1 .. at /\ text[taken'[k].at] \in {"if", "elif"}
  <2>1. CASE k = 1
      BY <1>1, <1>3, <2>1
  <2>2. CASE k # 1
    <3>1. k \in 2 .. Len(taken) + 1 /\ k - 1 \in 1 .. Len(taken)
        BY <1>1, <1>3, <2>2
    <3> QED
        BY <1>3, <3>1 DEF ProfilerType, TakenOK
  <2> QED
      BY <2>1, <2>2
<1>5. at' - 1 = at
    BY DEF ProfilerType
<1> QED
    BY <1>3, <1>4, <1>5 DEF TakenOK, E

LEMMA PushLive ==
    ASSUME ProfilerType, Live, taken' = <<[at |-> at, live |-> TRUE]>> \o taken
    PROVE  Live'
<1> DEFINE E == [at : Nat, live : BOOLEAN]
           e == [at |-> at, live |-> TRUE]
<1>1. taken \in Seq(E) /\ e \in E /\ e.live
    BY DEF ProfilerType, TakenOK
<1>2. taken' = <<e>> \o taken
    OBVIOUS
<1> HIDE DEF e, E
<1>3. /\ DOMAIN taken' = 1 .. Len(taken) + 1 /\ taken'[1] = e /\ DOMAIN taken = 1 .. Len(taken)
      /\ \A k \in 2 .. Len(taken) + 1 : taken'[k] = taken[k - 1]
    BY <1>1, <1>2
<1>4. ASSUME NEW k \in DOMAIN taken' PROVE taken'[k].live
  <2>1. CASE k = 1
      BY <1>1, <1>3, <2>1
  <2>2. CASE k # 1
    <3>1. k \in 2 .. Len(taken) + 1 /\ k - 1 \in DOMAIN taken
        BY <1>1, <1>3, <2>2
    <3> QED
        BY <1>3, <3>1 DEF Live
  <2> QED
      BY <2>1, <2>2
<1> QED
    BY <1>4 DEF Live

LEMMA ReadIfInv == ASSUME ProfilerInv, ReadIf PROVE ProfilerInv'
<1>0. ProfilerType /\ text' = text /\ sdk' = sdk /\ saw' = saw /\ result' = result
    BY DEF ProfilerInv, ReadIf
<1>1. at \in 1 .. Len(text) /\ text[at] = "if" /\ at' = at + 1 /\ result = "reading"
    BY <1>0, NextLine DEF ReadIf, LineKinds
<1>2. PICK yes \in BOOLEAN :
        /\ taken' = <<[at |-> at, live |-> yes]>> \o taken
        /\ flag' = flag
        /\ \/ /\ cand' = cand /\ (Live => profiler' = [profiler EXCEPT !.failed = TRUE])
              /\ ~Live => profiler' = profiler
           \/ /\ Live /\ yes /\ cand = << >> /\ profiler' = profiler
              /\ cand' = <<[at |-> at, named |-> Line(at + 2) = "flag", included |-> FALSE,
                            mapped |-> FALSE, sdkEntered |-> FALSE, endif |-> FALSE]>>
  <2>1. CASE ~Live
      BY <2>1 DEF ReadIf, Quiet
  <2>2. CASE Live
    <3>1. PICK yes \in Probe :
          /\ taken' = <<[at |-> at, live |-> yes]>> \o taken
          /\ IF cand = << >> /\ Depth = 0 /\ yes /\ ~hooked /\ Physical /\ BlockShape(at)
             THEN /\ cand' = <<[at |-> at, named |-> Line(at + 2) = "flag",
                                included |-> FALSE, mapped |-> FALSE,
                                sdkEntered |-> FALSE, endif |-> FALSE]>>
                  /\ UNCHANGED profiler
             ELSE profiler' = [profiler EXCEPT !.failed = TRUE] /\ UNCHANGED cand
          /\ UNCHANGED <<flag, hooked, entered>>
        BY <2>2 DEF ReadIf
    <3>2. yes \in BOOLEAN
        BY DEF Probe
    <3> QED
        BY <2>2, <3>1, <3>2
  <2> QED
      BY <2>1, <2>2
<1>3. ProfilerType'
  <2>1. TakenOK'
      BY <1>0, <1>1, <1>2, PushTaken
  <2>2. CandOK'
    <3> DEFINE new == [at |-> at, named |-> Line(at + 2) = "flag", included |-> FALSE,
                       mapped |-> FALSE, sdkEntered |-> FALSE, endif |-> FALSE]
    <3>1. CASE cand' = cand
        BY <1>0, <1>1, <3>1 DEF ProfilerType, CandOK
    <3>2. CASE cand' = <<new>>
      <4>1. new \in Cands /\ new.at = at
          BY <1>1 DEF Cands
      <4> HIDE DEF new
      <4> QED
          BY <1>1, <3>2, <4>1 DEF CandOK
    <3> QED
        BY <1>2, <3>1, <3>2
  <2>3. profiler' = profiler \/ profiler' = [profiler EXCEPT !.failed = TRUE]
      BY <1>2
  <2>4. profiler' \in [failed : BOOLEAN, modified : BOOLEAN, position : BOOLEAN, defs : Nat,
                       undefs : Nat, admitted : BOOLEAN, boundaryFailed : BOOLEAN]
      BY <1>0, <2>3 DEF ProfilerType
  <2>5. text' \in Seq(LineKinds) /\ at' \in 1 .. Len(text') + 1
      BY <1>0, <1>1 DEF ProfilerType
  <2> QED
      BY <2>1, <2>2, <2>4, <2>5 DEF ProfilerType
<1>4. ASSUME Plain' PROVE InStep'
  <2>1. Plain /\ Live /\ yes /\ Sealing' = at
    <3>1. Sealing' = Sealing \/ Sealing' = at
        BY <1>2 DEF Sealing
    <3>2. profiler.failed => profiler'.failed
        BY <1>0, <1>2 DEF ProfilerType
    <3>3. Plain
        BY <1>0, <1>1, <1>4, <3>1, <3>2, PlainBefore
    <3>4. Live
        BY <3>3 DEF ProfilerInv, InStep
    <3>5. ~profiler'.failed
        BY <1>4 DEF Plain
    <3> QED
        BY <1>0, <1>2, <3>3, <3>4, <3>5 DEF ProfilerType, Sealing
  <2>2. Live'
      BY <1>0, <1>2, <2>1, PushLive
  <2>3. Len(taken') = Len(taken) + 1
      BY <1>0, <1>2 DEF ProfilerType, TakenOK
  <2>4. ASSUME NEW c \in Nat, NEW o \in Opened(Len(taken)), text[at] = "if" => at = c
        PROVE  \E p \in Opened(Len(taken')) :
                  OutputLine(text, c, Mirror(o), at) = [open |-> p, flag |-> flag', saw |-> saw']
    <3>1. text \in Seq(LineKinds) /\ Len(taken) \in Nat
        BY <1>0 DEF ProfilerType, TakenOK
    <3> DEFINE n == Len(taken)
    <3>2. n \in Nat /\ o \in Opened(n) /\ text[at] = "if" /\ at = c
        BY <1>1, <2>4, <3>1
    <3> HIDE DEF n
    <3>3. \E p \in Opened(n + 1) :
             OutputLine(text, c, Mirror(o), at) = [open |-> p, flag |-> flag, saw |-> saw]
        BY <3>2, OpenLine
    <3>4. \E p \in Opened(Len(taken) + 1) :
             OutputLine(text, c, Mirror(o), at) = [open |-> p, flag |-> flag, saw |-> saw]
        BY <3>3 DEF n
    <3> QED
        BY <1>0, <1>2, <2>3, <3>4
  <2> QED
      BY <1>0, <1>1, <2>1, <2>2, <2>4, StaysInStep DEF ProfilerInv
<1> QED
    BY <1>0, <1>1, <1>3, <1>4 DEF ProfilerInv

\* A line that opens, closes or changes no branch.
LEMMA FlatLineInv ==
    ASSUME ProfilerInv, at \in 1 .. Len(text), at' = at + 1, text' = text, result = "reading",
           result' = result, taken' = taken, CandOK', Sealing' = Sealing, text[at] # "if",
           profiler' \in [failed : BOOLEAN, modified : BOOLEAN, position : BOOLEAN, defs : Nat,
                          undefs : Nat, admitted : BOOLEAN, boundaryFailed : BOOLEAN],
           profiler.failed => profiler'.failed,
           (text[at] # "probe" /\ Live) =>
             \A c \in Nat, o \in Opened(Len(taken)) :
                OutputLine(text, c, Mirror(o), at) = [open |-> o, flag |-> flag', saw |-> saw']
    PROVE  ProfilerInv'
<1>1. ProfilerType
    BY DEF ProfilerInv
<1>2. TakenOK'
    BY <1>1 DEF ProfilerType, TakenOK
<1>3. ProfilerType'
    BY <1>1, <1>2 DEF ProfilerType
<1>4. ASSUME Plain' PROVE InStep'
  <2>1. Plain
      BY <1>1, <1>4, PlainBefore
  <2>2. Live /\ InStep
      BY <2>1 DEF ProfilerInv, InStep
  <2>3. text[at] # "probe"
      BY <1>1, <1>4 DEF Plain, ProfilerType
  <2>4. Live'
      BY <2>2 DEF Live
  <2> QED
      BY <1>1, <2>2, <2>3, <2>4, StaysInStep
<1> QED
    BY <1>3, <1>4 DEF ProfilerInv

\* Every member keeps its type when some of them change.
Members == [failed : BOOLEAN, modified : BOOLEAN, position : BOOLEAN, defs : Nat,
            undefs : Nat, admitted : BOOLEAN, boundaryFailed : BOOLEAN]

LEMMA SealingStays ==
    ASSUME ProfilerType, at' = at + 1, text' = text,
           \/ cand' = cand
           \/ cand # << >> /\ \E r \in Cands : cand' = <<r>> /\ r.at = cand[1].at
    PROVE  CandOK' /\ Sealing' = Sealing
<1>1. CASE cand' = cand
    BY <1>1 DEF ProfilerType, CandOK, Sealing
<1>2. ASSUME cand # << >>, NEW r \in Cands, cand' = <<r>>, r.at = cand[1].at
      PROVE  CandOK' /\ Sealing' = Sealing
  <2>1. PICK q \in Cands : cand = <<q>> /\ q.at \in 1 .. at - 1
      BY <1>2 DEF ProfilerType, CandOK
  <2>2. cand[1] = q /\ cand'[1] = r /\ cand' # << >>
      BY <1>2, <2>1
  <2>3. r.at \in 1 .. at' - 1
      BY <1>2, <2>1, <2>2 DEF ProfilerType
  <2> QED
      BY <1>2, <2>2, <2>3 DEF CandOK, Sealing
<1> QED
    BY <1>1, <1>2

LEMMA ReadElifInv == ASSUME ProfilerInv, ReadElif PROVE ProfilerInv'
<1>1. ProfilerType
    BY DEF ProfilerInv
<1>2. at \in 1 .. Len(text) /\ text[at] = "elif" /\ at' = at + 1 /\ result = "reading"
    BY <1>1, NextLine DEF ReadElif, LineKinds
<1>3. /\ text' = text /\ cand' = cand /\ profiler' = profiler /\ result' = result
    BY DEF ReadElif, Quiet
<1>4. PICK live \in BOOLEAN : taken' = <<[at |-> at, live |-> live]>> \o taken
  <2>1. PICK yes \in Probe : taken' = <<[at |-> at, live |-> Live /\ yes]>> \o taken
      BY DEF ReadElif
  <2>2. (Live /\ yes) \in BOOLEAN
      OBVIOUS
  <2> QED
      BY <2>1, <2>2
<1>5. TakenOK' /\ CandOK'
    BY <1>1, <1>2, <1>3, <1>4, PushTaken, SealingStays
<1>6. ProfilerType'
    BY <1>1, <1>2, <1>3, <1>5 DEF ProfilerType
<1>7. ~Plain'
    BY <1>1, <1>2, <1>3 DEF Plain, ProfilerType
<1> QED
    BY <1>2, <1>3, <1>6, <1>7 DEF ProfilerInv

LEMMA ReadIncludeInv == ASSUME ProfilerInv, ReadInclude PROVE ProfilerInv'
<1>1. ProfilerType
    BY DEF ProfilerInv
<1>2. at \in 1 .. Len(text) /\ text[at] = "include" /\ at' = at + 1 /\ result = "reading"
    BY <1>1, NextLine DEF ReadInclude, LineKinds
<1>3. text' = text /\ taken' = taken /\ saw' = saw /\ result' = result /\ flag' = flag
    BY DEF ReadInclude, Quiet
<1>4. /\ profiler' \in Members /\ (profiler.failed => profiler'.failed)
      /\ CandOK' /\ Sealing' = Sealing
  <2>1. CASE ~Live \/ sdk = "absent"
    <3>1. profiler' = profiler /\ cand' = cand
        BY <2>1 DEF ReadInclude, Quiet
    <3> QED
        BY <1>1, <1>2, <1>3, <3>1, SealingStays DEF ProfilerType, Members
  <2>2. CASE ~(~Live \/ sdk = "absent")
    <3> DEFINE mine == cand # << >> /\ Depth = 1 /\ cand[1].at + 1 = at /\ ~cand[1].included
               skipped == cand # << >> /\ cand[1].at + 1 = at /\ entered
               ok == (Depth = 0 \/ mine) /\ Physical
    <3>1. PICK mapped \in BOOLEAN :
            /\ profiler' = [profiler EXCEPT !.admitted = @ \/ ok, !.boundaryFailed = @ \/ ~ok,
                                            !.failed = @ \/ skipped]
            /\ cand' = IF mine
                       THEN <<[cand[1] EXCEPT !.included = TRUE, !.mapped = ok /\ mapped,
                                              !.sdkEntered = ok /\ ~entered]>>
                       ELSE cand
        BY <2>2 DEF ReadInclude
    <3>2. profiler' \in Members /\ (profiler.failed => profiler'.failed)
      <4> DEFINE a == profiler.admitted \/ ok
                 b == profiler.boundaryFailed \/ ~ok
                 f == profiler.failed \/ skipped
      <4>1. a \in BOOLEAN /\ b \in BOOLEAN /\ f \in BOOLEAN /\ (profiler.failed => f)
          OBVIOUS
      <4>2. profiler' = [profiler EXCEPT !.admitted = a, !.boundaryFailed = b, !.failed = f]
          BY <3>1
      <4> HIDE DEF a, b, f
      <4>3. profiler' \in Members
          BY <1>1, <4>1, <4>2 DEF ProfilerType, Members
      <4>4. profiler'.failed = f
          BY <1>1, <4>2 DEF ProfilerType
      <4> QED
          BY <4>1, <4>3, <4>4
    <3>3. \/ cand' = cand
          \/ cand # << >> /\ \E r \in Cands : cand' = <<r>> /\ r.at = cand[1].at
      <4>1. CASE ~mine
          BY <3>1, <4>1
      <4>2. CASE mine
        <5>1. PICK q \in Cands : cand = <<q>>
            BY <1>1, <4>2 DEF ProfilerType, CandOK
        <5> DEFINE m == ok /\ mapped
                   n == ok /\ ~entered
                   r == [q EXCEPT !.included = TRUE, !.mapped = m, !.sdkEntered = n]
        <5>2. m \in BOOLEAN /\ n \in BOOLEAN
            OBVIOUS
        <5>3. cand' = <<r>> /\ cand[1] = q
            BY <3>1, <4>2, <5>1
        <5> HIDE DEF m, n
        <5>4. r \in Cands /\ r.at = q.at
            BY <5>1, <5>2 DEF Cands
        <5> QED
            BY <4>2, <5>3, <5>4
      <4> QED
          BY <4>1, <4>2
    <3> QED
        BY <1>1, <1>2, <1>3, <3>2, <3>3, SealingStays
  <2> QED
      BY <2>1, <2>2
<1>5. \A c \in Nat, o \in Opened(Len(taken)) :
        OutputLine(text, c, Mirror(o), at) = [open |-> o, flag |-> flag', saw |-> saw']
  <2>1. text \in Seq(LineKinds) /\ Len(taken) \in Nat
      BY <1>1 DEF ProfilerType, TakenOK
  <2> QED
      BY <1>2, <1>3, <2>1, SilentLine
<1> QED
    BY <1>2, <1>3, <1>4, <1>5, FlatLineInv DEF Members

LEMMA ReadElseInv == ASSUME ProfilerInv, ReadElse PROVE ProfilerInv'
<1>1. ProfilerType
    BY DEF ProfilerInv
<1>2. at \in 1 .. Len(text) /\ text[at] = "else" /\ at' = at + 1 /\ result = "reading"
    BY <1>1, NextLine DEF ReadElse, LineKinds
<1>3. /\ text' = text /\ cand' = cand /\ result' = result /\ Len(taken) > 0
      /\ taken' = [taken EXCEPT ![1].live = ~@]
    BY DEF ReadElse, Depth
<1> DEFINE closes == cand # << >> /\ cand[1].at = taken[1].at
           f == profiler.failed \/ closes
<1>4. f \in BOOLEAN /\ profiler' = [profiler EXCEPT !.failed = f]
    BY DEF ReadElse
<1>5. /\ profiler'.failed = f
      /\ profiler' \in [failed : BOOLEAN, modified : BOOLEAN, position : BOOLEAN, defs : Nat,
                        undefs : Nat, admitted : BOOLEAN, boundaryFailed : BOOLEAN]
  <2> HIDE DEF f
  <2> QED
      BY <1>1, <1>4 DEF ProfilerType
<1>6. TakenOK'
  <2> DEFINE E == [at : Nat, live : BOOLEAN]
             e == [taken[1] EXCEPT !.live = ~@]
  <2>1. taken \in Seq(E) /\ 1 \in 1 .. Len(taken) /\ Len(taken) \in Nat
      BY <1>1, <1>3 DEF ProfilerType, TakenOK
  <2>2. taken[1] \in E
    <3> HIDE DEF E
    <3> QED
        BY <2>1
  <2>3. (~taken[1].live) \in BOOLEAN
      OBVIOUS
  <2>4. e \in E /\ e.at = taken[1].at
      BY <2>2, <2>3
  <2>5. taken' = [taken EXCEPT ![1] = e]
      BY <1>3
  <2> HIDE DEF e, E
  <2>6. /\ taken' \in Seq(E) /\ Len(taken') = Len(taken)
        /\ \A k \in 1 .. Len(taken) : taken'[k] = IF k = 1 THEN e ELSE taken[k]
      BY <2>1, <2>4, <2>5
  <2>7. \A k \in 1 .. Len(taken') : taken'[k].at = taken[k].at
      BY <2>4, <2>6
  <2>8. at' - 1 = at
      BY <1>1, <1>2 DEF ProfilerType
  <2>9. \A k \in 1 .. Len(taken) : taken[k].at \in 1 .. at /\ text[taken[k].at] \in {"if", "elif"}
      BY <1>1 DEF ProfilerType, TakenOK
  <2> QED
      BY <1>3, <2>6, <2>7, <2>8, <2>9 DEF TakenOK, E
<1>7. CandOK' /\ Sealing' = Sealing
    BY <1>1, <1>2, <1>3, SealingStays
<1>8. ProfilerType'
    BY <1>1, <1>2, <1>3, <1>5, <1>6, <1>7 DEF ProfilerType
<1>9. ASSUME Plain' PROVE FALSE
  <2>1. ~f
      BY <1>5, <1>9 DEF Plain
  <2>2. Plain
      BY <1>1, <1>2, <1>3, <1>4, <1>5, <1>7, <1>9, PlainBefore
  <2>3. taken[1].at \in 1 .. at - 1 /\ text[taken[1].at] \in {"if", "elif"}
      BY <1>1, <1>3 DEF ProfilerType, TakenOK
  <2>4. taken[1].at = Sealing /\ Sealing # 0
      BY <2>2, <2>3 DEF Plain
  <2>5. closes
      BY <2>4 DEF Sealing
  <2> QED
      BY <2>1, <2>5
<1> QED
    BY <1>2, <1>3, <1>8, <1>9 DEF ProfilerInv

LEMMA ReadEndifInv == ASSUME ProfilerInv, ReadEndif PROVE ProfilerInv'
<1>1. ProfilerType
    BY DEF ProfilerInv
<1>2. at \in 1 .. Len(text) /\ text[at] = "endif" /\ at' = at + 1 /\ result = "reading"
    BY <1>1, NextLine DEF ReadEndif, LineKinds
<1>3. /\ text' = text /\ result' = result /\ profiler' = profiler /\ flag' = flag /\ saw' = saw
      /\ taken' = Tail(taken) /\ Len(taken) > 0
    BY DEF ReadEndif, Depth
<1>4. CandOK' /\ Sealing' = Sealing
  <2>1. CASE cand' = cand
      BY <1>1, <1>2, <1>3, <2>1, SealingStays
  <2>2. CASE cand # << >> /\ cand' = <<[cand[1] EXCEPT !.endif = TRUE]>>
    <3>1. PICK q \in Cands : cand = <<q>>
        BY <1>1, <2>2 DEF ProfilerType, CandOK
    <3> DEFINE r == [q EXCEPT !.endif = TRUE]
    <3>2. cand' = <<r>> /\ cand[1] = q
        BY <2>2, <3>1
    <3>3. r \in Cands /\ r.at = q.at
        BY <3>1 DEF Cands
    <3> HIDE DEF r
    <3> QED
        BY <1>1, <1>2, <1>3, <2>2, <3>2, <3>3, SealingStays
  <2> QED
      BY <2>1, <2>2 DEF ReadEndif
<1>5. /\ taken' \in Seq([at : Nat, live : BOOLEAN]) /\ Len(taken') = Len(taken) - 1
      /\ \A k \in 1 .. Len(taken') : k + 1 \in 1 .. Len(taken) /\ taken'[k] = taken[k + 1]
  <2> DEFINE E == [at : Nat, live : BOOLEAN]
  <2>1. taken \in Seq(E)
      BY <1>1 DEF ProfilerType, TakenOK
  <2> HIDE DEF E
  <2>2. /\ taken' \in Seq(E) /\ Len(taken') = Len(taken) - 1
        /\ \A k \in 1 .. Len(taken') : k + 1 \in 1 .. Len(taken) /\ taken'[k] = taken[k + 1]
      BY <1>3, <2>1
  <2> QED
      BY <2>2 DEF E
<1>6. TakenOK'
  <2>1. at' - 1 = at
      BY <1>1, <1>2 DEF ProfilerType
  <2>2. \A k \in 1 .. Len(taken) : taken[k].at \in 1 .. at /\ text[taken[k].at] \in {"if", "elif"}
      BY <1>1 DEF ProfilerType, TakenOK
  <2> QED
      BY <1>3, <1>5, <2>1, <2>2 DEF TakenOK
<1>7. ProfilerType'
    BY <1>1, <1>2, <1>3, <1>4, <1>6 DEF ProfilerType
<1>8. ASSUME Plain' PROVE InStep'
  <2>1. Plain
      BY <1>1, <1>2, <1>3, <1>4, <1>8, PlainBefore
  <2>2. InStep /\ Live
      BY <2>1 DEF ProfilerInv, InStep
  <2>3. Live'
    <3>1. DOMAIN taken = 1 .. Len(taken) /\ DOMAIN taken' = 1 .. Len(taken')
        BY <1>1, <1>5 DEF ProfilerType, TakenOK
    <3>2. \A k \in 1 .. Len(taken) : taken[k].live
        BY <2>2, <3>1 DEF Live
    <3> QED
        BY <1>5, <3>1, <3>2 DEF Live
  <2>4. ASSUME NEW c \in Nat, NEW o \in Opened(Len(taken))
        PROVE  \E p \in Opened(Len(taken')) :
                  OutputLine(text, c, Mirror(o), at) = [open |-> p, flag |-> flag', saw |-> saw']
    <3>1. Len(taken) \in Nat
        BY <1>1 DEF ProfilerType, TakenOK
    <3>2. \E p \in Opened(Len(taken) - 1) :
             OutputLine(text, c, Mirror(o), at) = [open |-> p, flag |-> flag, saw |-> saw]
        BY <1>2, <1>3, <3>1, CloseLine
    <3> QED
        BY <1>3, <1>5, <3>2
  <2> QED
      BY <1>1, <1>2, <1>3, <2>2, <2>3, <2>4, StaysInStep
<1> QED
    BY <1>2, <1>3, <1>7, <1>8 DEF ProfilerInv

LEMMA ReadDefineInv == ASSUME ProfilerInv, ReadDefine PROVE ProfilerInv'
<1>1. ProfilerType
    BY DEF ProfilerInv
<1>2. PICK k \in {"flag", "undef", "probe"} : Reads(k)
    BY DEF ReadDefine
<1>3. at \in 1 .. Len(text) /\ text[at] = k /\ at' = at + 1 /\ result = "reading" /\ Line(at) = k
    BY <1>1, <1>2, NextLine DEF LineKinds, Reads
<1>4. text' = text /\ taken' = taken /\ saw' = saw /\ result' = result /\ cand' = cand
    BY DEF ReadDefine, Quiet
<1>5. CandOK' /\ Sealing' = Sealing
    BY <1>1, <1>3, <1>4, SealingStays
<1>6. profiler' \in Members /\ (profiler.failed => profiler'.failed)
  <2>1. CASE ~Live
    <3>1. profiler' = profiler
        BY <2>1 DEF ReadDefine, Quiet
    <3> QED
        BY <1>1, <3>1 DEF ProfilerType, Members
  <2>2. CASE Live
    <3> DEFINE d == IF k = "flag" THEN profiler.defs + 1 ELSE profiler.defs
               u == IF k = "undef" THEN profiler.undefs + 1 ELSE profiler.undefs
               m == profiler.modified \/ k = "probe"
    <3>1. profiler' = [profiler EXCEPT !.defs = d, !.undefs = u, !.modified = m]
        BY <1>3, <2>2 DEF ReadDefine
    <3>2. d \in Nat /\ u \in Nat
        BY <1>1 DEF ProfilerType
    <3>3. m \in BOOLEAN
        OBVIOUS
    <3> HIDE DEF d, u, m
    <3> QED
        BY <1>1, <3>1, <3>2, <3>3 DEF ProfilerType, Members
  <2> QED
      BY <2>1, <2>2
<1>7. ASSUME text[at] # "probe", Live, NEW c \in Nat, NEW o \in Opened(Len(taken))
      PROVE  OutputLine(text, c, Mirror(o), at) = [open |-> o, flag |-> flag', saw |-> saw']
  <2>1. Len(taken) \in Nat
      BY <1>1 DEF ProfilerType, TakenOK
  <2>2. flag' = CASE k = "flag" -> TRUE [] k = "undef" -> FALSE [] OTHER -> flag
      BY <1>3, <1>7 DEF ReadDefine
  <2>3. CASE k = "flag"
    <3>1. flag' = TRUE
        BY <2>2, <2>3
    <3>2. OutputLine(text, c, Mirror(o), at) = [open |-> o, flag |-> TRUE, saw |-> saw]
        BY <1>3, <2>1, <2>3, DefineLine
    <3> QED
        BY <1>4, <3>1, <3>2
  <2>4. CASE k = "undef"
    <3>1. flag' = FALSE
        BY <2>2, <2>4
    <3>2. OutputLine(text, c, Mirror(o), at) = [open |-> o, flag |-> FALSE, saw |-> saw]
        BY <1>3, <2>1, <2>4, DefineLine
    <3> QED
        BY <1>4, <3>1, <3>2
  <2> QED
      BY <1>3, <1>7, <2>3, <2>4
<1>8. text[at] # "if"
    BY <1>3
<1> QED
    BY <1>3, <1>4, <1>5, <1>6, <1>7, <1>8, FlatLineInv DEF Members

LEMMA ReadUseInv == ASSUME ProfilerInv, ReadUse PROVE ProfilerInv'
<1>1. ProfilerType
    BY DEF ProfilerInv
<1>0. Len(taken) \in Nat
  <2>1. taken \in Seq([at : Nat, live : BOOLEAN])
      BY <1>1 DEF ProfilerType, TakenOK
  <2> QED
      BY <2>1
<1>2. PICK k \in {"ifdef", "value", "hash line"} : Reads(k)
    BY DEF ReadUse
<1>3. at \in 1 .. Len(text) /\ text[at] = k /\ at' = at + 1 /\ result = "reading" /\ Line(at) = k
    BY <1>1, <1>2, NextLine DEF LineKinds, Reads
<1>4. text' = text /\ taken' = taken /\ flag' = flag /\ result' = result /\ cand' = cand
    BY DEF ReadUse
<1>5. CandOK' /\ Sealing' = Sealing
    BY <1>1, <1>3, <1>4, SealingStays
<1>6. profiler' \in Members /\ (profiler.failed => profiler'.failed)
  <2> DEFINE p == profiler.position \/ (Live /\ k = "hash line")
  <2>1. p \in BOOLEAN /\ profiler' = [profiler EXCEPT !.position = p]
      BY <1>3 DEF ReadUse
  <2> HIDE DEF p
  <2> QED
      BY <1>1, <2>1 DEF ProfilerType, Members
<1>7. ASSUME Live, NEW c \in Nat, NEW o \in Opened(Len(taken))
      PROVE  OutputLine(text, c, Mirror(o), at) = [open |-> o, flag |-> flag', saw |-> saw']
  <2>1. Len(taken) \in Nat
      BY <1>0
  <2>2. CASE k = "hash line"
    <3>1. saw' = saw
        BY <1>3, <2>2 DEF ReadUse
    <3>2. OutputLine(text, c, Mirror(o), at) = [open |-> o, flag |-> flag, saw |-> saw]
        BY <1>3, <2>1, <2>2, SilentLine
    <3> QED
        BY <1>4, <3>1, <3>2
  <2>3. CASE k \in {"ifdef", "value"}
    <3>1. saw' = Append(saw, <<at, flag>>)
        BY <1>3, <1>7, <2>3 DEF ReadUse
    <3>2. OutputLine(text, c, Mirror(o), at) = [open |-> o, flag |-> flag, saw |-> Append(saw, <<at, flag>>)]
        BY <1>3, <2>1, <2>3, AskLine
    <3> QED
        BY <1>4, <3>1, <3>2
  <2> QED
      BY <2>2, <2>3
<1>8. text[at] # "if"
    BY <1>3
<1> QED
    BY <1>3, <1>4, <1>5, <1>6, <1>7, <1>8, FlatLineInv DEF Members

\* Everything but the verdict stays.
LEMMA FinishInv == ASSUME ProfilerInv, Finish PROVE ProfilerInv'
<1>1. /\ ProfilerType /\ result = "reading" /\ Line(at) = "end"
      /\ UNCHANGED <<text, sdk, at, taken, flag, hooked, entered, cand, profiler, saw>>
    BY DEF ProfilerInv, Finish
<1>2. ProfilerType' /\ (Plain' <=> Plain) /\ (InStep' <=> InStep)
  <2>1. Sealing' = Sealing /\ Live' = Live /\ \A o : Mirror(o)' = Mirror(o)
      BY <1>1 DEF Sealing, Live, Mirror
  <2>2. ProfilerType'
      BY <1>1 DEF ProfilerType, TakenOK, CandOK
  <2>3. Plain' <=> Plain
      BY <1>1, <2>1 DEF Plain
  <2>4. InStep' <=> InStep
      BY <1>1, <2>1 DEF InStep, Mirror, Live
  <2> QED
      BY <2>2, <2>3, <2>4
<1>3. ASSUME result' = "accepted", profiler'.admitted
      PROVE  Plain /\ SurfaceClean /\ at = Len(text) + 1
  <2>1. SurfaceClean /\ ((cand # << >> \/ profiler.failed) => Sealed)
      BY <1>1, <1>3 DEF Finish
  <2>2. at = Len(text) + 1
    <3>1. ASSUME at \in 1 .. Len(text) PROVE FALSE
      <4>1. text[at] \in LineKinds /\ text[at] = "end"
          BY <1>1, <3>1 DEF ProfilerType, Line
      <4> QED
          BY <4>1 DEF LineKinds
    <3> QED
        BY <1>1, <3>1 DEF ProfilerType
  <2>3. ~profiler.failed
      BY <2>1 DEF Sealed
  <2>4. \A i \in 1 .. at - 1 : text[i] \notin {"elif", "probe"} /\ (text[i] = "if" => i = Sealing)
    <3>1. DOMAIN text = 1 .. Len(text) /\ at - 1 = Len(text)
        BY <1>1, <2>2 DEF ProfilerType
    <3> QED
        BY <2>1, <3>1 DEF SurfaceClean, Sealing
  <2> QED
      BY <2>1, <2>2, <2>3, <2>4 DEF Plain
<1>4. SurfaceClean' <=> SurfaceClean
    BY <1>1 DEF SurfaceClean
<1> QED
    BY <1>1, <1>2, <1>3, <1>4 DEF ProfilerInv

LEMMA ProfilerStutterInv == ASSUME ProfilerInv, UNCHANGED profilerVars PROVE ProfilerInv'
<1>1. UNCHANGED <<text, sdk, at, taken, flag, hooked, entered, cand, profiler, saw, result>>
    BY DEF profilerVars
<1>2. Sealing' = Sealing /\ \A o : Mirror(o)' = Mirror(o)
    BY <1>1 DEF Sealing, Mirror
<1>3. ProfilerType'
    BY <1>1 DEF ProfilerInv, ProfilerType, TakenOK, CandOK
<1>4. Plain' <=> Plain
    BY <1>1, <1>2 DEF Plain
<1>5. InStep' <=> InStep
    BY <1>1, <1>2 DEF InStep, Mirror, Live
<1>6. SurfaceClean' <=> SurfaceClean
    BY <1>1 DEF SurfaceClean
<1> QED
    BY <1>1, <1>3, <1>4, <1>5, <1>6 DEF ProfilerInv

\* The availability block that is sealed keeps its meaning in the output: the flag the
\* output's lines compute is the one the input's block computed, for texts of any length
\* and however often the surface is disturbed (AscifyAction.cpp, profiler availability).
THEOREM SealedAvailabilityKept == ProfilerSpec => []AvailabilityKept
<1>1. ProfilerInit => ProfilerInv
    BY ProfilerInitInv
<1>2. ProfilerInv /\ [ProfilerNext]_profilerVars => ProfilerInv'
  <2> SUFFICES ASSUME ProfilerInv, [ProfilerNext]_profilerVars PROVE ProfilerInv'
      OBVIOUS
  <2>1. CASE ReadIf
      BY <2>1, ReadIfInv
  <2>2. CASE ReadElif
      BY <2>2, ReadElifInv
  <2>3. CASE ReadInclude
      BY <2>3, ReadIncludeInv
  <2>4. CASE ReadElse
      BY <2>4, ReadElseInv
  <2>5. CASE ReadEndif
      BY <2>5, ReadEndifInv
  <2>6. CASE ReadDefine
      BY <2>6, ReadDefineInv
  <2>7. CASE ReadUse
      BY <2>7, ReadUseInv
  <2>8. CASE Finish
      BY <2>8, FinishInv
  <2>9. CASE UNCHANGED profilerVars
      BY <2>9, ProfilerStutterInv
  <2> QED
      BY <2>1, <2>2, <2>3, <2>4, <2>5, <2>6, <2>7, <2>8, <2>9 DEF ProfilerNext
<1>3. ProfilerInv => AvailabilityKept
    BY KeptFromInv
<1> QED
    BY <1>1, <1>2, <1>3, PTL DEF ProfilerSpec

-----------------------------------------------------------------------------
(* The cooperative-groups projection                                       *)

CgMembers == [default : 0 .. 2, changed : BOOLEAN, inquiry : BOOLEAN, failed : BOOLEAN,
              inputs : SUBSET [role : Providers, inode : {1, 2}], includes : SUBSET CgHeaders,
              entered : SUBSET CgHeaders, captures : BOOLEAN, dynamic : BOOLEAN]

CgType ==
    /\ disk \in [Providers -> FileStates]
    /\ entry \in [Providers -> 0 .. 2]
    /\ control \in [Controls -> {"undefined", "default", "changed"}]
    /\ cg \in CgMembers
    /\ parted \subseteq {"provider", "bytes", "controls", "observed", "inquiry"}

\* Every difference between the two programs is noted where it arises.
DifferencesNoted ==
    /\ parted \cap {"provider", "bytes", "controls"} # {} => cg.failed
    /\ "observed" \in parted => cg.changed
    /\ "inquiry" \in parted => cg.inquiry

\* A proved include leaves its file among the inputs the seals compare.
IncludesAreInputs == cg.includes # {} => \E q \in cg.inputs : q.role = "cg"

\* What the second seal saw; no file is touched after it.
SealedFacts ==
    /\ ~cg.failed /\ ~cg.inquiry /\ ~cg.changed
    /\ \A p \in {"wrapper", "cg"} : disk[p].bytes = "reviewed"
    /\ cg.dynamic => raw \cap {"backend_define", "backend_name"} = {} /\ setup.cli # "backend"

CgInv ==
    /\ CgType /\ DifferencesNoted /\ IncludesAreInputs
    /\ cgVerdict = "accepted" /\ cg.entered # {} => SealedFacts

LEMMA CgInvInit == CgInit => CgInv
    BY DEF CgInit, CgInv, CgType, CgMembers, Reviewed, FileStates, DifferencesNoted, IncludesAreInputs

LEMMA LookupType ==
    ASSUME CgType, NEW p \in Providers
    PROVE  Lookup(p) \in [Providers -> 0 .. 2]
    BY DEF CgType, Lookup, FileStates

\* An include that is not proved fails the boundary; a proved one parts nothing.
LEMMA ProvedIncludeParts ==
    ASSUME CgType, NEW how, ProvedInclude(how)
    PROVE  Differs = {}
<1>1. setup.lookup = "sdk" /\ disk["cg"].bytes = "reviewed"
    BY DEF ProvedInclude, SdkProvider, RolesKept, RoleReviewed
<1>2. control = [c \in Controls |-> IF c = "cluster" THEN "default" ELSE "undefined"]
    BY DEF ProvedInclude, ControlsDefault, CompilerDefault, CgType, Controls
<1> QED
    BY <1>1, <1>2 DEF Differs

LEMMA SealMeansFacts ==
    ASSUME CgInv, Seal, cgVerdict' = "accepted", cg'.entered # {}
    PROVE  SealedFacts'
<1> DEFINE inputs == IF cg.dynamic THEN DynamicInputs ELSE cg.inputs
<1>1. ~cg.failed /\ DynamicSealed /\ ProvidersSealed(inputs)
    BY DEF Seal
<1>2. cg' = [cg EXCEPT !.failed = FALSE, !.inputs = inputs]
    BY <1>1 DEF Seal
<1>3. cg'.entered = cg.entered /\ ~cg'.failed /\ cg'.inquiry = cg.inquiry /\ cg'.changed = cg.changed /\ cg'.dynamic = cg.dynamic
    BY <1>2 DEF CgInv, CgType, CgMembers
<1>4. cg.includes # {}
    BY <1>1, <1>3 DEF ProvidersSealed
<1>5. ~cg.inquiry /\ ~cg.changed /\ InputsKept(inputs)
    BY <1>1, <1>4 DEF ProvidersSealed
<1>6. PICK q \in inputs : q.role = "cg"
    BY <1>4 DEF CgInv, IncludesAreInputs, DynamicInputs
<1>7. disk["wrapper"].bytes = "reviewed" /\ disk["cg"].bytes = "reviewed"
    BY <1>5, <1>6 DEF InputsKept, RoleReviewed
<1>8. cg.dynamic => raw \cap {"backend_define", "backend_name"} = {} /\ setup.cli # "backend"
    BY <1>1 DEF DynamicSealed, CallerWords
<1> QED
    BY <1>3, <1>5, <1>7, <1>8 DEF SealedFacts, Seal

LEMMA CgInvNext == CgInv /\ [CgNext]_cgVars => CgInv'
<1> SUFFICES ASSUME CgInv, [CgNext]_cgVars PROVE CgInv'
    OBVIOUS
<1>t. CgType
    BY DEF CgInv
<1> USE DEF CgInv
<1>1. CASE DefineDefault
  <2>a. disk["wrapper"].inode \in 0 .. 2
    BY DEF CgType, Providers, FileStates
  <2>b. cg' \in CgMembers
    BY <1>1, <2>a DEF DefineDefault, CgType, CgMembers
  <2>c. entry' \in [Providers -> 0 .. 2]
    BY <1>1, LookupType DEF DefineDefault, Providers
  <2>d. control' \in [Controls -> {"undefined", "default", "changed"}]
    BY <1>1 DEF DefineDefault, CgType
  <2>1. CgType'
    BY <1>1, <2>b, <2>c, <2>d DEF DefineDefault, CgType
  <2> QED
    BY <1>1, <2>1 DEF DefineDefault, CgType, CgMembers, DifferencesNoted, IncludesAreInputs
<1>2. ASSUME NEW c \in Controls, NEW v \in {"undefined", "changed"}, ChangeControl(c, v)
      PROVE  CgInv'
    BY <1>2 DEF ChangeControl, Reading, CgType, CgMembers, DifferencesNoted, IncludesAreInputs
<1>3. ASSUME NEW c \in Controls, NEW v \in {"undefined", "changed"}, PopControl(c, v)
      PROVE  CgInv'
    BY <1>3 DEF PopControl, Reading, CgType, DifferencesNoted, IncludesAreInputs
<1>4. CASE ReadControl
    BY <1>4 DEF ReadControl, Reading, CgType, CgMembers, DifferencesNoted, IncludesAreInputs
<1>5. CASE SkipControl
    BY <1>5 DEF SkipControl, Reading, CgType, DifferencesNoted, IncludesAreInputs
<1>6. ASSUME NEW o \in {"caller", "native"}, NEW c \in Controls, NEW v \in {"undefined", "default", "changed"},
             OperatorPragma(o, c, v)
      PROVE  CgInv'
    BY <1>6 DEF OperatorPragma, Reading, CgType, CgMembers, DifferencesNoted, IncludesAreInputs
<1>7. CASE HasIncludeCg
    BY <1>7 DEF HasIncludeCg, Reading, CgType, CgMembers, DifferencesNoted, IncludesAreInputs
<1>8. ASSUME NEW h \in CgHeaders, NEW how \in {"literal", "alias", "import"}, IncludeCg(h, how)
      PROVE  CgInv'
  <2>1. CASE ProvedInclude(how)
    <3>1. parted' = parted
      BY <1>t, <1>8, <2>1, ProvedIncludeParts DEF IncludeCg
    <3>2. cg' = [cg EXCEPT !.includes = @ \cup {h}, !.entered = @ \cup {h},
                           !.inputs = @ \cup {[role |-> "cg", inode |-> disk["cg"].inode]}]
      BY <1>8, <2>1 DEF IncludeCg
    <3>a. [role |-> "cg", inode |-> disk["cg"].inode] \in [role : Providers, inode : {1, 2}]
      BY DEF CgType, FileStates, Providers
    <3>b. cg' \in CgMembers
      BY <3>2, <3>a DEF CgType, CgMembers
    <3>c. entry' \in [Providers -> 0 .. 2]
      BY <1>8, LookupType DEF IncludeCg, Providers
    <3>3. CgType'
      BY <1>8, <3>1, <3>b, <3>c DEF IncludeCg, CgType
    <3>d. /\ cg'.failed = cg.failed /\ cg'.changed = cg.changed /\ cg'.inquiry = cg.inquiry
          /\ [role |-> "cg", inode |-> disk["cg"].inode] \in cg'.inputs
      BY <3>2 DEF CgType, CgMembers
    <3>4. DifferencesNoted' /\ IncludesAreInputs'
      BY <3>1, <3>d DEF DifferencesNoted, IncludesAreInputs
    <3> QED
      BY <1>8, <3>3, <3>4 DEF IncludeCg, Reading
  <2>2. CASE ~ProvedInclude(how)
    <3>1. cg' = [cg EXCEPT !.failed = TRUE, !.entered = @ \cup {h}]
      BY <1>8, <2>2 DEF IncludeCg
    <3>2. parted' \subseteq parted \cup {"provider", "bytes", "controls"}
      BY <1>8 DEF IncludeCg, Differs
    <3>b. cg' \in CgMembers
      BY <3>1 DEF CgType, CgMembers
    <3>c. entry' \in [Providers -> 0 .. 2]
      BY <1>8, LookupType DEF IncludeCg, Providers
    <3>3. CgType'
      BY <1>8, <3>2, <3>b, <3>c DEF IncludeCg, CgType
    <3>4. DifferencesNoted' /\ IncludesAreInputs'
      BY <3>1, <3>2 DEF CgType, CgMembers, DifferencesNoted, IncludesAreInputs
    <3> QED
      BY <1>8, <3>3, <3>4 DEF IncludeCg, Reading
  <2> QED
    BY <2>1, <2>2
<1>9. CASE UseDynamic
    BY <1>9 DEF UseDynamic, Reading, CgType, CgMembers, DifferencesNoted, IncludesAreInputs
<1>10. CASE CaptureBackend
    BY <1>10 DEF CaptureBackend, Reading, CgType, CgMembers, DifferencesNoted, IncludesAreInputs
<1>11. ASSUME NEW w \in CallerWords, Spell(w)
       PROVE  CgInv'
    BY <1>11 DEF Spell, Reading, CgType, DifferencesNoted, IncludesAreInputs
<1>12. ASSUME NEW p \in Providers, NEW f \in FileStates, Touch(p, f)
       PROVE  CgInv'
    BY <1>12 DEF Touch, CgType, DifferencesNoted, IncludesAreInputs
<1>13. CASE Seal
  <2>1. PICK ok \in BOOLEAN, inputs \in {cg.inputs, DynamicInputs} :
            cg' = [cg EXCEPT !.failed = ~ok, !.inputs = inputs] /\ (ok => ~cg.failed)
    BY <1>13 DEF Seal
  <2>2. inputs \subseteq [role : Providers, inode : {1, 2}] /\ cg.inputs \subseteq inputs
    BY <2>1 DEF DynamicInputs, CgType, CgMembers, FileStates, Providers
  <2>3. CgType'
    BY <1>13, <2>1, <2>2, LookupType DEF Seal, CgType, CgMembers, Providers
  <2>a. /\ cg'.changed = cg.changed /\ cg'.inquiry = cg.inquiry /\ (cg.failed => cg'.failed)
        /\ cg'.inputs = inputs /\ cg'.includes = cg.includes
    BY <2>1 DEF CgType, CgMembers
  <2>4. DifferencesNoted' /\ IncludesAreInputs'
    BY <1>13, <2>2, <2>a DEF Seal, DifferencesNoted, IncludesAreInputs
  <2>5. cgVerdict' = "accepted" /\ cg'.entered # {} => SealedFacts'
    BY <1>13, SealMeansFacts
  <2> QED
    BY <2>3, <2>4, <2>5
<1>14. CASE UNCHANGED cgVars
    BY <1>14 DEF cgVars, CgType, DifferencesNoted, IncludesAreInputs, SealedFacts
<1> QED
    BY <1>1, <1>2, <1>3, <1>4, <1>5, <1>6, <1>7, <1>8, <1>9, <1>10, <1>11, <1>12, <1>13, <1>14 DEF CgNext

\* An accepted unit that was parsed against the product's header is the program
\* NVIDIA's header would have made, for behaviours of any length.
THEOREM AcceptedProjectionFaithful == CgSpec => []ProjectionFaithful
<1>1. CgInv => ProjectionFaithful
  <2> SUFFICES ASSUME CgInv, cgVerdict = "accepted", cg.entered # {}
               PROVE  /\ parted = {}
                      /\ \A p \in {"wrapper", "cg"} : disk[p].bytes = "reviewed"
                      /\ cg.dynamic => raw \cap {"backend_define", "backend_name"} = {} /\ setup.cli # "backend"
    BY DEF ProjectionFaithful
  <2>1. SealedFacts
    BY DEF CgInv
  <2> QED
    BY <2>1 DEF CgInv, CgType, SealedFacts, DifferencesNoted
<1> QED
    BY <1>1, CgInvInit, CgInvNext, PTL DEF CgSpec

-----------------------------------------------------------------------------
(* Pragmas of a removed header                                             *)

PragmaType ==
    /\ source.header \in Seq(PragmaLines) /\ source.main \in Seq(PragmaLines)
    /\ where \in [file : {"main", "header"}, line : Nat]
    /\ pending \in BOOLEAN /\ unsupported \in BOOLEAN
    /\ touched \subseteq {"main", "header"}

\* After the first pragma that may touch a macro of the helper the unit is refused,
\* or waits for that pragma's handler with nothing in between.
TouchNoted == touched # {} => unsupported \/ (pending /\ handling # "op_diagnostic")

\* The header is touched by a line of its own, and listed by its whole text.
TouchWritten == "header" \in touched => \E i \in DOMAIN source.header : MayTouchHelper(source.header[i])
LiteralListed == literal # {} => literal = {"header"} /\ LiteralPragmas(source.header)

PragmaInv ==
    /\ PragmaType /\ TouchWritten /\ LiteralListed
    /\ closure \in {"open", "kept", "removed"}
    /\ closure = "open" => TouchNoted
    /\ closure = "removed" => touched = {}

LEMMA UpToPragmasAreSequences ==
    ASSUME NEW n, NEW t \in UpToPragmas(n)
    PROVE  t \in Seq(PragmaLines)
<1>1. PICK k \in 0 .. n : t \in [1 .. k -> PragmaLines]
    BY DEF UpToPragmas
<1>2. k \in Nat
    BY <1>1
<1> QED
    BY <1>1, <1>2

LEMMA PragmaInvInit == PragmaInit => PragmaInv
<1> SUFFICES ASSUME PragmaInit PROVE PragmaInv
    OBVIOUS
<1>1. source.header \in Seq(PragmaLines) /\ source.main \in Seq(PragmaLines)
    BY UpToPragmasAreSequences DEF PragmaInit
<1> QED
    BY <1>1 DEF PragmaInit, PragmaInv, PragmaType, TouchWritten, LiteralListed, TouchNoted

\* No pragma that touches the helper is admitted by its spelling.
LEMMA TouchingIsUnproven ==
    ASSUME NEW p \in PragmaLines, MayTouchHelper(p)
    PROVE  /\ ~HashPragmaProven(p)
           /\ p.kind \notin {"once", "unroll", "pack"}
    BY DEF MayTouchHelper, HashPragmaProven, UnsafeStack, ObservesHelper, OmpParallel, OmpVariant, OwnedPack, Allowed

LEMMA TouchedIsNotLiteral ==
    ASSUME NEW i \in DOMAIN source.header, MayTouchHelper(source.header[i]), source.header \in Seq(PragmaLines)
    PROVE  ~LiteralPragmas(source.header)
<1>1. source.header[i] \in PragmaLines
    OBVIOUS
<1> QED
    BY <1>1, TouchingIsUnproven DEF LiteralPragmas

LEMMA PragmaInvNext == PragmaInv /\ [PragmaNext]_pragmaVars => PragmaInv'
<1> SUFFICES ASSUME PragmaInv, [PragmaNext]_pragmaVars PROVE PragmaInv'
    OBVIOUS
<1> USE DEF PragmaInv, PragmaType
<1>1. ASSUME NEW s \in BOOLEAN, EnterHeader(s) PROVE PragmaInv'
    BY <1>1 DEF EnterHeader, TouchWritten, LiteralListed, TouchNoted, LiteralPragmas
<1>2. CASE LeaveHeader
    BY <1>2 DEF LeaveHeader, TouchWritten, LiteralListed, TouchNoted, LiteralPragmas
<1>3. CASE HashPragma
  <2>1. This \in PragmaLines
    BY <1>3 DEF HashPragma, ReadPragma, This
  <2>2. TouchNoted'
    BY <1>3, <2>1, TouchingIsUnproven DEF HashPragma, ReadPragma, Settled, TouchNoted
  <2>3. TouchWritten' /\ LiteralListed'
    BY <1>3 DEF HashPragma, ReadPragma, This, TouchWritten, LiteralListed, LiteralPragmas
  <2>4. unsupported' \in BOOLEAN
    BY <1>3 DEF HashPragma
  <2>5. where' \in [file : {"main", "header"}, line : Nat]
    BY <1>3 DEF HashPragma, ReadPragma
  <2>6. touched' \subseteq {"main", "header"}
    BY <1>3 DEF HashPragma, ReadPragma
  <2>7. source' = source /\ pending' \in BOOLEAN
    BY <1>3 DEF HashPragma
  <2>8. PragmaType'
    BY <2>4, <2>5, <2>6, <2>7
  <2> QED
    BY <1>3, <2>2, <2>3, <2>8 DEF HashPragma, ReadPragma
<1>4. CASE MacroPragma
  <2>1. This \in PragmaLines
    BY <1>4 DEF MacroPragma, ReadPragma, This
  <2>2. TouchNoted'
    BY <1>4, <2>1 DEF MacroPragma, ReadPragma, Settled, TouchNoted, MayTouchHelper, OperatorPragmas
  <2>3. TouchWritten' /\ LiteralListed'
    BY <1>4 DEF MacroPragma, ReadPragma, This, TouchWritten, LiteralListed, LiteralPragmas
  <2>4. PragmaType'
    BY <1>4 DEF MacroPragma, ReadPragma, Settled, InTrustedFile
  <2> QED
    BY <1>4, <2>2, <2>3, <2>4 DEF MacroPragma, ReadPragma
<1>5. CASE RunHandler
    BY <1>5 DEF RunHandler, TouchWritten, LiteralListed, TouchNoted, LiteralPragmas
<1>6. CASE DecideClosure
    BY <1>6 DEF DecideClosure, Settled, TouchWritten, LiteralListed, TouchNoted, LiteralPragmas
<1>7. CASE UNCHANGED pragmaVars
    BY <1>7 DEF pragmaVars, TouchWritten, LiteralListed, TouchNoted, LiteralPragmas
<1> QED
    BY <1>1, <1>2, <1>3, <1>4, <1>5, <1>6, <1>7 DEF PragmaNext

\* The helper is removed only where no pragma stacked or read a macro of it, and no
\* listed file holds such a pragma, for texts of any length.
THEOREM HelperPragmasProven == PragmaSpec => []PragmasProven
<1>1. PragmaInv => PragmasProven
  <2> SUFFICES ASSUME PragmaInv PROVE PragmasProven
    OBVIOUS
  <2>1. "header" \in touched => literal = {}
    BY TouchedIsNotLiteral DEF PragmaInv, PragmaType, TouchWritten, LiteralListed
  <2> QED
    BY <2>1 DEF PragmaInv, PragmasProven, LiteralListed
<1> QED
    BY <1>1, PragmaInvInit, PragmaInvNext, PTL DEF PragmaSpec

-----------------------------------------------------------------------------
(* The sample helper's include                                             *)

\* The output with MAX replayed if r holds, and with the compat header if p does.
PrefixOf(t, n, r, p) ==
    LET u == EnterString(t, n)
    IN  [u EXCEPT !.waived = Fallback(@, "2", "prefix", n),
                  !.max = IF r THEN Fallback(@, "H", "prefix", n) ELSE @,
                  !.published = p]

\* What line l, the n-th, does to the macros of the output.
OutputMacros(t, l, n, r, p) ==
    CASE l.do = "include cuda" -> PrefixOf(t, n, r, p)
      [] l.do = "include functions" -> EnterFunctions(t, l.in, n)
      [] l.do = "include image" -> EnterImage(t, l.in, n)
      [] l.do = "define" -> [t EXCEPT !.max = [body |-> "D", file |-> l.in, at |-> n]]
      [] l.do = "undef" -> [t EXCEPT !.max = None]
      [] l.do = "fallback H" -> [t EXCEPT !.max = Fallback(@, "H", l.in, n)]
      [] l.do = "fallback I" -> [t EXCEPT !.max = Fallback(@, "I", l.in, n)]
      [] OTHER -> t

\* f holds the macros of the output after each of the first N lines of ls.
Outputs(f, ls, N, r, p) ==
    f = [n \in 0 .. N |-> IF n = 0 THEN Table0 ELSE OutputMacros(f[n - 1], ls[n], n, r, p)]

\* What the output holds after N lines is well defined.
LEMMA OutputExists ==
    ASSUME NEW ls, NEW N \in Nat, NEW r, NEW p
    PROVE  \E f : Outputs(f, ls, N, r, p)
<1> DEFINE Good(f, n) == \A k \in 0 .. n :
              f[k] = IF k = 0 THEN Table0 ELSE OutputMacros(f[k - 1], ls[k], k, r, p)
           Full(f) == f = [k \in 0 .. N |-> f[k]]
           S == {n \in 0 .. N : \E f : Full(f) /\ Good(f, n)}
<1>1. 0 \in S
  <2> DEFINE f == [k \in 0 .. N |-> Table0]
  <2>1. Full(f) /\ Good(f, 0)
      OBVIOUS
  <2> HIDE DEF f, Good, Full
  <2> QED
      BY <2>1
<1>2. ASSUME NEW n \in 1 .. N, n - 1 \in S
      PROVE  n \in S
  <2>1. PICK f : Full(f) /\ Good(f, n - 1)
      BY <1>2
  <2> DEFINE x == OutputMacros(f[n - 1], ls[n], n, r, p)
             g == [k \in 0 .. N |-> IF k = n THEN x ELSE f[k]]
  <2> HIDE DEF x
  <2>2. Full(g)
      OBVIOUS
  <2>3. g[n] = x /\ \A k \in 0 .. n - 1 : g[k] = f[k]
      OBVIOUS
  <2> HIDE DEF g
  <2>4. ASSUME NEW k \in 0 .. n
        PROVE  g[k] = IF k = 0 THEN Table0 ELSE OutputMacros(g[k - 1], ls[k], k, r, p)
    <3>1. CASE k = n
      <4>1. n # 0 /\ g[n - 1] = f[n - 1]
          BY <2>3
      <4> QED
          BY <2>3, <3>1, <4>1 DEF x
    <3>2. CASE k \in 0 .. n - 1
      <4>1. f[k] = IF k = 0 THEN Table0 ELSE OutputMacros(f[k - 1], ls[k], k, r, p)
          BY <2>1, <3>2
      <4>2. g[k] = f[k] /\ (k # 0 => g[k - 1] = f[k - 1])
          BY <2>3, <3>2
      <4> QED
          BY <4>1, <4>2
    <3> QED
        BY <3>1, <3>2
  <2>5. Good(g, n)
      BY <2>4
  <2> HIDE DEF Good, Full
  <2> QED
      BY <2>2, <2>5
<1>3. N \in S
  <2> HIDE DEF S
  <2> QED
      BY <1>1, <1>2, Induction
<1>4. PICK f : Full(f) /\ Good(f, N)
    BY <1>3
<1>5. Outputs(f, ls, N, r, p)
    BY <1>4 DEF Outputs
<1> QED
    BY <1>5

\* f is the output of the lines as, g that of the lines before the last.
OneLineLess(g, f, ls, as, N, r, p) ==
    /\ Outputs(g, ls, N, r, p)
    /\ \A n \in 0 .. N : g[n] = f[n]
    /\ f[N + 1] = OutputMacros(g[N], as[N + 1], N + 1, r, p)

\* The output of a text without its last line.
LEMMA OutputGrows ==
    ASSUME NEW ls, NEW as, NEW N \in Nat, NEW r, NEW p,
           \A n \in 1 .. N : as[n] = ls[n],
           NEW f, Outputs(f, as, N + 1, r, p)
    PROVE  \E g : OneLineLess(g, f, ls, as, N, r, p)
<1> DEFINE g == [n \in 0 .. N |-> f[n]]
<1>1. \A n \in 0 .. N + 1 :
        f[n] = IF n = 0 THEN Table0 ELSE OutputMacros(f[n - 1], as[n], n, r, p)
    BY DEF Outputs
<1>2. g = [n \in 0 .. N |-> g[n]] /\ \A n \in 0 .. N : g[n] = f[n]
    OBVIOUS
<1> HIDE DEF g
<1>3. ASSUME NEW n \in 0 .. N
      PROVE  g[n] = IF n = 0 THEN Table0 ELSE OutputMacros(g[n - 1], ls[n], n, r, p)
  <2>1. CASE n = 0
    <3>1. 0 \in 0 .. N + 1 /\ 0 \in 0 .. N
        OBVIOUS
    <3>2. f[0] = Table0
        BY <1>1, <3>1
    <3> QED
        BY <1>2, <2>1, <3>1, <3>2
  <2>2. CASE n # 0
    <3>1. n \in 1 .. N /\ n - 1 \in 0 .. N /\ n \in 0 .. N + 1
        BY <2>2
    <3>2. f[n] = OutputMacros(f[n - 1], as[n], n, r, p)
        BY <1>1, <2>2, <3>1
    <3> QED
        BY <1>2, <2>2, <3>1, <3>2
  <2> QED
      BY <2>1, <2>2
<1>4. Outputs(g, ls, N, r, p)
    BY <1>2, <1>3 DEF Outputs
<1>5. f[N + 1] = OutputMacros(g[N], as[N + 1], N + 1, r, p)
  <2>1. PICK m \in 0 .. N + 1 : m = N + 1
      OBVIOUS
  <2>2. m # 0 /\ m - 1 = N /\ N \in 0 .. N
      BY <2>1
  <2>3. f[m] = OutputMacros(f[m - 1], as[m], m, r, p)
      BY <1>1, <2>2
  <2> QED
      BY <1>2, <2>1, <2>2, <2>3
<1>6. OneLineLess(g, f, ls, as, N, r, p)
    BY <1>2, <1>4, <1>5 DEF OneLineLess
<1> QED
    BY <1>6

\* The records of the callbacks.
MacroBodies == {"none", "H", "I", "D", "2"}
MaxBodies == {"H", "I"}
HelperFiles == {"none", "cuda", "string", "image", "functions", "main functions", "prefix"} \cup Places
MacroDefinitions == [body : MacroBodies, file : HelperFiles, at : Nat]
MacroTables == [max : MacroDefinitions, waived : MacroDefinitions, check : BOOLEAN, published : BOOLEAN,
           entered : SUBSET {"string", "image", "functions", "cuda"}, imageBy : HelperFiles]

\* The macros of the parse, t, and of the output at the same place, u, when r says
\* whether MAX is replayed: they differ only where helper_cuda.h gave MAX to the parse.
Same(t, u, r) ==
    /\ t \in MacroTables /\ u \in MacroTables
    /\ u.entered = t.entered \ {"cuda"}
    /\ t.waived.body \in {"none", "2"} /\ u.waived.body = t.waived.body
    /\ t.waived.body = "none" => t.waived = None /\ u.waived = None
    /\ {t.max.body, u.max.body} \subseteq {"none", "H", "I"}
    /\ t.max.body = "none" => t.max = None
    /\ u.max.body = "none" => u.max = None
    /\ IF t.max.file = "cuda"
       THEN "cuda" \in t.entered /\ t.max.body = "H" /\ (r => u.max.body = "H")
       ELSE u.max = t.max
    /\ "cuda" \in t.entered => t.max # None

\* None is a definition without a body.
LEMMA NoneIs == None \in MacroDefinitions /\ None.body = "none" /\ None.file = "none"
    BY DEF None, MacroDefinitions, MacroBodies, HelperFiles

\* A fallback defines the macro where it is not defined, and nothing else.
LEMMA FallbackIs ==
    ASSUME NEW old \in MacroDefinitions, NEW body \in MacroBodies, NEW file \in HelperFiles, NEW n \in Nat
    PROVE  /\ Fallback(old, body, file, n) \in MacroDefinitions
           /\ old = None => /\ Fallback(old, body, file, n).body = body
                            /\ Fallback(old, body, file, n).file = file
           /\ old # None => Fallback(old, body, file, n) = old
    BY DEF Fallback, MacroDefinitions

\* Both begin without macros.
LEMMA SameStart == \A r : Same(Table0, Table0, r)
    BY NoneIs DEF Same, MacroTables, Table0, HelperFiles

\* helper_string.h, entered by both.
LEMMA SameString ==
    ASSUME NEW t, NEW u, NEW r, Same(t, u, r), NEW n \in Nat
    PROVE  /\ Same(EnterString(t, n), EnterString(u, n), r)
           /\ EnterString(t, n).max = t.max /\ EnterString(u, n).max = u.max
           /\ EnterString(t, n).check = t.check
           /\ "cuda" \in EnterString(t, n).entered <=> "cuda" \in t.entered
<1>1. t \in MacroTables /\ u \in MacroTables /\ t.waived \in MacroDefinitions /\ u.waived \in MacroDefinitions
    BY DEF Same, MacroTables
<1>2. "string" \in t.entered <=> "string" \in u.entered
    BY DEF Same
<1>3. CASE "string" \in t.entered
    BY <1>2, <1>3 DEF EnterString
<1>4. CASE "string" \notin t.entered
  <2> DEFINE a == Fallback(t.waived, "2", "string", n)
             b == Fallback(u.waived, "2", "string", n)
             x == [t EXCEPT !.entered = @ \cup {"string"}, !.waived = a]
             y == [u EXCEPT !.entered = @ \cup {"string"}, !.waived = b]
  <2>1. EnterString(t, n) = x /\ EnterString(u, n) = y
      BY <1>2, <1>4 DEF EnterString
  <2>a. "2" \in MacroBodies /\ "string" \in HelperFiles
      BY DEF MacroBodies, HelperFiles
  <2>2. a \in MacroDefinitions /\ b \in MacroDefinitions /\ a.body = "2" /\ b.body = "2"
      BY <1>1, <2>a, FallbackIs DEF Same
  <2> HIDE DEF a, b
  <2>3. /\ x \in MacroTables /\ y \in MacroTables /\ x.max = t.max /\ y.max = u.max
        /\ x.entered = t.entered \cup {"string"} /\ y.entered = u.entered \cup {"string"}
        /\ x.waived = a /\ y.waived = b /\ x.check = t.check
      BY <1>1, <2>2 DEF MacroTables
  <2> HIDE DEF x, y
  <2>4. y.entered = x.entered \ {"cuda"} /\ ("cuda" \in x.entered <=> "cuda" \in t.entered)
      BY <2>3 DEF Same
  <2>5. Same(x, y, r)
      BY <2>2, <2>3, <2>4 DEF Same
  <2> QED
      BY <2>1, <2>3, <2>4, <2>5
<1> QED
    BY <1>3, <1>4

\* MAX defined where it is not yet, by the same text in both.
LEMMA SameFallback ==
    ASSUME NEW t, NEW u, NEW r, Same(t, u, r), NEW n \in Nat,
           NEW body \in MaxBodies, NEW file \in HelperFiles, file # "cuda"
    PROVE  LET x == [t EXCEPT !.max = Fallback(@, body, file, n)]
               y == [u EXCEPT !.max = Fallback(@, body, file, n)]
           IN  /\ Same(x, y, r) /\ x.max.body \in {"H", "I"} /\ y.max.body \in {"H", "I"}
               /\ x.check = t.check /\ x.entered = t.entered
               /\ (t.max # None => x.max = t.max)
               /\ x.max.file = "cuda" => t.max.file = "cuda"
<1> DEFINE a == Fallback(t.max, body, file, n)
           b == Fallback(u.max, body, file, n)
           x == [t EXCEPT !.max = a]
           y == [u EXCEPT !.max = b]
<1>1. t \in MacroTables /\ u \in MacroTables /\ t.max \in MacroDefinitions /\ u.max \in MacroDefinitions
    BY DEF Same, MacroTables
<1>2. /\ a \in MacroDefinitions /\ (t.max = None => a.body = body /\ a.file = file) /\ (t.max # None => a = t.max)
      /\ b \in MacroDefinitions /\ (u.max = None => b.body = body /\ b.file = file) /\ (u.max # None => b = u.max)
      /\ (t.max = u.max => a = b)
  <2>1. body \in MacroBodies
      BY DEF MacroBodies, MaxBodies
  <2> QED
      BY <1>1, <2>1, FallbackIs
<1> HIDE DEF a, b
<1>3. /\ x \in MacroTables /\ y \in MacroTables /\ x.max = a /\ y.max = b /\ x.check = t.check
      /\ x.entered = t.entered /\ y.entered = u.entered /\ x.waived = t.waived /\ y.waived = u.waived
    BY <1>1, <1>2 DEF MacroTables
<1> HIDE DEF x, y
<1>4. /\ a.body \in {"H", "I"} /\ b.body \in {"H", "I"}
      /\ a.file = "cuda" => t.max.file = "cuda" /\ a = t.max
      /\ t.max.file = "cuda" => a = t.max /\ (r => b = u.max)
      /\ t.max.file # "cuda" => a = b
    BY <1>2, NoneIs DEF Same, MaxBodies
<1>5. a # None /\ b # None
    BY <1>4, NoneIs
<1>6. Same(x, y, r)
  <2>1. CASE t.max.file = "cuda"
      BY <1>3, <1>4, <1>5, <2>1 DEF Same
  <2>2. CASE t.max.file # "cuda"
      BY <1>3, <1>4, <1>5, <2>2 DEF Same
  <2> QED
      BY <2>1, <2>2
<1> QED
    BY <1>2, <1>3, <1>4, <1>6 DEF x, y, a, b

\* A helper file that is no longer to be entered.
LEMMA SameEntered ==
    ASSUME NEW t, NEW u, NEW r, Same(t, u, r), NEW name \in {"image", "functions"},
           NEW by \in HelperFiles, NEW by2 \in HelperFiles
    PROVE  /\ Same([t EXCEPT !.entered = @ \cup {name}], [u EXCEPT !.entered = @ \cup {name}], r)
           /\ Same([t EXCEPT !.entered = @ \cup {name}, !.imageBy = by],
                   [u EXCEPT !.entered = @ \cup {name}, !.imageBy = by2], r)
    BY DEF Same, MacroTables

\* EXIT_WAIVED defined where it is not yet.
LEMMA SameWaived ==
    ASSUME NEW t, NEW u, NEW r, Same(t, u, r), NEW n \in Nat, NEW f \in HelperFiles, NEW g \in HelperFiles
    PROVE  Same([t EXCEPT !.waived = Fallback(@, "2", f, n)],
                [u EXCEPT !.waived = Fallback(@, "2", g, n)], r)
<1> DEFINE a == Fallback(t.waived, "2", f, n)
           b == Fallback(u.waived, "2", g, n)
           x == [t EXCEPT !.waived = a]
           y == [u EXCEPT !.waived = b]
<1>1. t \in MacroTables /\ u \in MacroTables /\ t.waived \in MacroDefinitions /\ u.waived \in MacroDefinitions
    BY DEF Same, MacroTables
<1>2. "2" \in MacroBodies
    BY DEF MacroBodies
<1>3. a \in MacroDefinitions /\ b \in MacroDefinitions /\ a.body = "2" /\ b.body = "2"
    BY <1>1, <1>2, FallbackIs DEF Same
<1> HIDE DEF a, b
<1>4. /\ x \in MacroTables /\ y \in MacroTables /\ x.max = t.max /\ y.max = u.max
      /\ x.entered = t.entered /\ y.entered = u.entered /\ x.waived = a /\ y.waived = b
    BY <1>1, <1>3 DEF MacroTables
<1> HIDE DEF x, y
<1>5. Same(x, y, r)
    BY <1>3, <1>4 DEF Same
<1> QED
    BY <1>5 DEF x, y, a, b

\* helper_image.h, entered by both, leaves each with one of the two maximum macros.
LEMMA SameImage ==
    ASSUME NEW t, NEW u, NEW r, Same(t, u, r), NEW n \in Nat, NEW by \in HelperFiles, NEW by2 \in HelperFiles
    PROVE  LET x == EnterImage(t, by, n)  y == EnterImage(u, by2, n) IN
           /\ Same(x, y, r) /\ x.check = t.check
           /\ "cuda" \in x.entered <=> "cuda" \in t.entered
           /\ "image" \in t.entered => x = t
           /\ "image" \notin t.entered => x.max.body \in {"H", "I"} /\ y.max.body \in {"H", "I"}
<1>0. "image" \in t.entered <=> "image" \in u.entered
    BY DEF Same
<1>1. CASE "image" \in t.entered
    BY <1>0, <1>1 DEF EnterImage
<1>2. CASE "image" \notin t.entered
  <2> DEFINE t1 == [t EXCEPT !.entered = @ \cup {"image"}, !.imageBy = by]
             u1 == [u EXCEPT !.entered = @ \cup {"image"}, !.imageBy = by2]
             t2 == [t1 EXCEPT !.max = Fallback(@, "I", "image", n)]
             u2 == [u1 EXCEPT !.max = Fallback(@, "I", "image", n)]
             t3 == [t2 EXCEPT !.waived = Fallback(@, "2", "image", n)]
             u3 == [u2 EXCEPT !.waived = Fallback(@, "2", "image", n)]
  <2>0. t \in MacroTables /\ u \in MacroTables
      BY DEF Same
  <2>1. /\ EnterImage(t, by, n) = EnterString(t3, n)
        /\ EnterImage(u, by2, n) = EnterString(u3, n)
      BY <1>0, <1>2, <2>0 DEF EnterImage, MacroTables
  <2>2. Same(t1, u1, r)
      BY SameEntered
  <2>3. t1.check = t.check /\ t1.entered = t.entered \cup {"image"} /\ t1 \in MacroTables /\ u1 \in MacroTables
      BY <2>0, <2>2 DEF MacroTables, Same
  <2> HIDE DEF t1, u1
  <2>4. /\ Same(t2, u2, r) /\ t2.max.body \in {"H", "I"} /\ u2.max.body \in {"H", "I"}
        /\ t2.check = t1.check /\ t2.entered = t1.entered
    <3>1. "image" \in HelperFiles /\ "image" # "cuda" /\ "I" \in MaxBodies
        BY DEF HelperFiles, MaxBodies
    <3> QED
        BY <2>2, <3>1, SameFallback
  <2>5. t2 \in MacroTables /\ u2 \in MacroTables
      BY <2>4 DEF Same
  <2> HIDE DEF t2, u2
  <2>6. Same(t3, u3, r)
    <3>1. "image" \in HelperFiles
        BY DEF HelperFiles
    <3> QED
        BY <2>4, <3>1, SameWaived
  <2>7. /\ t3.max = t2.max /\ u3.max = u2.max /\ t3.check = t2.check /\ t3.entered = t2.entered
      BY <2>5 DEF MacroTables
  <2> HIDE DEF t3, u3
  <2>8. /\ Same(EnterString(t3, n), EnterString(u3, n), r)
        /\ EnterString(t3, n).max = t3.max /\ EnterString(u3, n).max = u3.max
        /\ EnterString(t3, n).check = t3.check
        /\ "cuda" \in EnterString(t3, n).entered <=> "cuda" \in t3.entered
      BY <2>6, SameString
  <2>9. "cuda" \in t3.entered <=> "cuda" \in t.entered
      BY <2>3, <2>4, <2>7
  <2> QED
      BY <1>2, <2>1, <2>3, <2>4, <2>7, <2>8, <2>9
<1> QED
    BY <1>1, <1>2

\* helper_functions.h, entered by both.
LEMMA SameFunctions ==
    ASSUME NEW t, NEW u, NEW r, Same(t, u, r), NEW n \in Nat, NEW by \in HelperFiles, NEW by2 \in HelperFiles
    PROVE  LET x == EnterFunctions(t, by, n)  y == EnterFunctions(u, by2, n) IN
           /\ Same(x, y, r) /\ x.check = t.check
           /\ "cuda" \in x.entered <=> "cuda" \in t.entered
           /\ "functions" \notin t.entered /\ "image" \notin t.entered =>
                 x.max.body \in {"H", "I"} /\ y.max.body \in {"H", "I"}
<1>0. "functions" \in t.entered <=> "functions" \in u.entered
    BY DEF Same
<1>1. CASE "functions" \in t.entered
    BY <1>0, <1>1 DEF EnterFunctions
<1>2. CASE "functions" \notin t.entered
  <2> DEFINE t1 == [t EXCEPT !.entered = @ \cup {"functions"}]
             u1 == [u EXCEPT !.entered = @ \cup {"functions"}]
             t2 == EnterImage(t1, by, n)
             u2 == EnterImage(u1, by2, n)
  <2>1. EnterFunctions(t, by, n) = EnterString(t2, n) /\ EnterFunctions(u, by2, n) = EnterString(u2, n)
      BY <1>0, <1>2 DEF EnterFunctions
  <2>2. Same(t1, u1, r)
      BY SameEntered
  <2>3. t1.check = t.check /\ t1.entered = t.entered \cup {"functions"}
      BY DEF Same, MacroTables
  <2> HIDE DEF t1, u1
  <2>4. /\ Same(t2, u2, r) /\ t2.check = t1.check
        /\ "cuda" \in t2.entered <=> "cuda" \in t1.entered
        /\ "image" \notin t1.entered => t2.max.body \in {"H", "I"} /\ u2.max.body \in {"H", "I"}
      BY <2>2, SameImage
  <2> HIDE DEF t2, u2
  <2>5. /\ Same(EnterString(t2, n), EnterString(u2, n), r)
        /\ EnterString(t2, n).max = t2.max /\ EnterString(u2, n).max = u2.max
        /\ EnterString(t2, n).check = t2.check
        /\ "cuda" \in EnterString(t2, n).entered <=> "cuda" \in t2.entered
      BY <2>4, SameString
  <2> QED
      BY <2>1, <2>3, <2>4, <2>5
<1> QED
    BY <1>1, <1>2

\* helper_cuda.h in the parse, the prefix in the output.
LEMMA SameCuda ==
    ASSUME NEW t, NEW u, NEW r \in BOOLEAN, NEW p \in BOOLEAN, Same(t, u, r), NEW n \in Nat,
           "cuda" \notin t.entered
    PROVE  LET x == EnterCuda(t, n)  y == PrefixOf(u, n, r, p) IN
           Same(x, y, r) /\ "cuda" \in x.entered
<1> DEFINE t1 == EnterString(t, n)
           u1 == EnterString(u, n)
           t2 == [t1 EXCEPT !.waived = Fallback(@, "2", "cuda", n)]
           u2 == [u1 EXCEPT !.waived = Fallback(@, "2", "prefix", n)]
           a == Fallback(t2.max, "H", "cuda", n)
           b == IF r THEN Fallback(u2.max, "H", "prefix", n) ELSE u2.max
           x == [t2 EXCEPT !.entered = @ \cup {"cuda"}, !.check = TRUE, !.max = a]
           y == [u2 EXCEPT !.max = b, !.published = p]
<1>1. Same(t1, u1, r) /\ "cuda" \notin t1.entered /\ t1 \in MacroTables /\ u1 \in MacroTables
    BY SameString DEF Same
<1>2. EnterCuda(t, n) = x /\ PrefixOf(u, n, r, p) = y
  <2> HIDE DEF t1, u1
  <2>1. EnterCuda(t, n) = [t1 EXCEPT !.entered = @ \cup {"cuda"}, !.check = TRUE,
                       !.waived = Fallback(@, "2", "cuda", n),
                       !.max = Fallback(@, "H", "cuda", n)]
      BY DEF EnterCuda, t1
  <2>2. PrefixOf(u, n, r, p) = [u1 EXCEPT !.waived = Fallback(@, "2", "prefix", n),
                  !.max = IF r THEN Fallback(@, "H", "prefix", n) ELSE @,
                  !.published = p]
      BY DEF PrefixOf, u1
  <2> QED
      BY <1>1, <2>1, <2>2 DEF MacroTables
<1> HIDE DEF t1, u1
<1>3. Same(t2, u2, r)
  <2>1. "cuda" \in HelperFiles /\ "prefix" \in HelperFiles
      BY DEF HelperFiles
  <2> QED
      BY <1>1, <2>1, SameWaived
<1>4. /\ t2 \in MacroTables /\ u2 \in MacroTables /\ "cuda" \notin t2.entered
      /\ t2.max \in MacroDefinitions /\ u2.max \in MacroDefinitions
  <2>1. t2.entered = t1.entered
      BY <1>1 DEF MacroTables
  <2>2. t2 \in MacroTables /\ u2 \in MacroTables
      BY <1>3 DEF Same
  <2> QED
      BY <1>1, <2>1, <2>2 DEF MacroTables
<1> HIDE DEF t2, u2
<1>5. t2.max.file # "cuda" /\ u2.max = t2.max
    BY <1>3, <1>4 DEF Same
<1>6. "H" \in MacroBodies /\ "cuda" \in HelperFiles /\ "prefix" \in HelperFiles
    BY DEF MacroBodies, HelperFiles
<1>7. /\ a \in MacroDefinitions /\ b \in MacroDefinitions
      /\ t2.max # None => a = t2.max /\ b = a
      /\ t2.max = None => a.body = "H" /\ a.file = "cuda" /\ (r => b.body = "H") /\ (~r => b = None)
    BY <1>4, <1>5, <1>6, FallbackIs
<1> HIDE DEF a, b
<1>8. /\ x \in MacroTables /\ y \in MacroTables /\ x.max = a /\ y.max = b
      /\ x.entered = t2.entered \cup {"cuda"} /\ y.entered = u2.entered
      /\ x.waived = t2.waived /\ y.waived = u2.waived
    BY <1>4, <1>7 DEF MacroTables
<1> HIDE DEF x, y
<1>9. Same(x, y, r)
  <2>1. u2.entered = t2.entered
      BY <1>3, <1>4 DEF Same
  <2>2. y.entered = x.entered \ {"cuda"} /\ "cuda" \in x.entered
      BY <1>4, <1>8, <2>1
  <2>3. a # None
      BY <1>7, NoneIs
  <2>4. CASE t2.max = None
      BY <1>3, <1>7, <1>8, <2>2, <2>3, <2>4, NoneIs DEF Same
  <2>5. CASE t2.max # None
      BY <1>3, <1>5, <1>7, <1>8, <2>2, <2>3, <2>5, NoneIs DEF Same
  <2> QED
      BY <2>4, <2>5
<1> QED
    BY <1>2, <1>8, <1>9

\* What the lines and the callbacks' records may hold.
LineDeeds == {"include cuda", "include functions", "include image", "define", "undef", "ask", "push_macro",
          "fallback H", "fallback I", "use plain", "use odd", "use inside", "mention", "check",
          "idle MAX", "idle check", "waived", "published", "utility"}
HelperLines == [do : LineDeeds, in : Places, sees : MacroBodies \cup {"nothing", "helper", "defined"}]
HelperRecords ==
    [includes : SUBSET Nat, unsupported : BOOLEAN, functionsSeen : BOOLEAN, imageMaxSeen : BOOLEAN,
     provider : MacroDefinitions, callerOwns : BOOLEAN, needed : BOOLEAN, replay : BOOLEAN,
     normal : SUBSET Nat, kept : SUBSET Nat, text : SUBSET Nat, calls : SUBSET Nat, branches : SUBSET Nat]

\* The callbacks note only lines that were read.
Bounded(h, N) == h.includes \subseteq 1 .. N /\ h.normal \cup h.branches \subseteq 1 .. N

HelperType ==
    /\ lines \in Seq(HelperLines) /\ table \in MacroTables /\ helper \in HelperRecords
    /\ Bounded(helper, Len(lines))

\* Nothing has vetoed the removal yet.
Unvetoed == ~helper.unsupported /\ Cardinality(helper.includes) <= 1

\* The include is there once helper_cuda.h was entered, and a caller's own MAX is not its.
MaxOwned ==
    /\ "cuda" \in table.entered <=> helper.includes # {}
    /\ table.check => helper.includes # {}
    /\ helper.callerOwns => helper.provider # None /\ helper.provider.file # "cuda"

\* Line n sees the same in the output, or the callbacks h have noted what follows.
Accounted(h, l, n, before, now, r) ==
    /\ l.do \in Styles => n \in h.text \/ before.max.body = l.sees \/ (~r /\ h.needed /\ h.replay)
    /\ l.do \notin {"define", "undef", "ask", "push_macro"}
    /\ l.do \in {"include functions", "include image"} =>
          l.sees = "nothing" \/ {now.max.body, l.sees} \subseteq {"H", "I"}
    /\ l.do = "check" => n \in h.calls \/ l.sees = "none"
    /\ l.do = "mention" => n \notin h.normal \cup h.branches
    /\ l.do = "idle MAX" => n \in h.branches \/ before.max.body = l.sees
    /\ l.do = "idle check" => n \in h.branches \/ l.sees = "none"
    /\ l.do = "waived" => before.waived.body = l.sees

\* What the callbacks note later takes back nothing about the first N lines.
NotesGrow(h, g, N) ==
    /\ h.text \subseteq g.text /\ h.calls \subseteq g.calls /\ h.branches \subseteq g.branches
    /\ \A n \in 1 .. N : n \in g.normal \cup g.branches => n \in h.normal \cup h.branches
    /\ h.needed => g.needed
    /\ h.replay => g.replay

\* So far the output sees what the parse saw, line by line.
Tracks(r, p) ==
    \A f : Outputs(f, lines, Len(lines), r, p) =>
             /\ Same(table, f[Len(lines)], r)
             /\ \A n \in 1 .. Len(lines) : Accounted(helper, lines[n], n, f[n - 1], f[n], r)

\* The inductive invariant: as long as nothing vetoed the removal, every line read is accounted for.
HelperInv ==
    /\ HelperType
    /\ Unvetoed => MaxOwned /\ \A r, p \in BOOLEAN : Tracks(r, p)
    /\ phase = "reading" => ~ready
    /\ ready => Unvetoed
    /\ removed => ready /\ \A n \in DOMAIN lines : RawTokenAdmitted(n)

\* A line accounted for stays so.
LEMMA AccountedStays ==
    ASSUME NEW h, NEW g, NEW N \in Nat, NotesGrow(h, g, N), NEW n \in 1 .. N,
           NEW l, NEW before, NEW now, NEW r, Accounted(h, l, n, before, now, r)
    PROVE  Accounted(g, l, n, before, now, r)
    BY DEF Accounted, NotesGrow

\* How one more line keeps the invariant.
LineStep(l) ==
    /\ l \in HelperLines /\ lines' = Append(lines, l)
    /\ HelperType' /\ UNCHANGED <<phase, ready, removed>>
    /\ Unvetoed' =>
         /\ MaxOwned' /\ NotesGrow(helper, helper', Len(lines))
         /\ \A r, p \in BOOLEAN : \A u : Same(table, u, r) =>
              /\ Same(table', OutputMacros(u, l, Here, r, p), r)
              /\ Accounted(helper', l, Here, u, OutputMacros(u, l, Here, r, p), r)

LEMMA LineKeeps ==
    ASSUME HelperInv, phase = "reading", Unvetoed, NEW l, LineStep(l)
    PROVE  HelperInv'
<1>1. HelperType' /\ phase' = "reading" /\ ready' = FALSE /\ removed' = FALSE
    BY DEF HelperInv, LineStep
<1>2. ASSUME Unvetoed'
      PROVE  MaxOwned' /\ \A r, p \in BOOLEAN : Tracks(r, p)'
  <2>0. PICK N \in Nat : N = Len(lines) /\ Len(lines') = N + 1 /\ Here = N + 1
                         /\ lines'[N + 1] = l /\ \A n \in 1 .. N : lines'[n] = lines[n]
      BY DEF HelperInv, HelperType, LineStep, Here
  <2>1. ASSUME NEW r \in BOOLEAN, NEW p \in BOOLEAN, NEW f, Outputs(f, lines', N + 1, r, p)
        PROVE  /\ Same(table', f[N + 1], r)
               /\ \A n \in 1 .. N + 1 : Accounted(helper', lines'[n], n, f[n - 1], f[n], r)
    <3>1. PICK g : OneLineLess(g, f, lines, lines', N, r, p)
      <4>1. N \in Nat /\ \A n \in 1 .. N : lines'[n] = lines[n]
          BY <2>0
      <4> QED
          BY <2>1, <4>1, OutputGrows
    <3>a. /\ Outputs(g, lines, N, r, p)
          /\ \A n \in 0 .. N : g[n] = f[n]
          /\ f[N + 1] = OutputMacros(g[N], lines'[N + 1], N + 1, r, p)
        BY <3>1 DEF OneLineLess
    <3>2. /\ Same(table, g[N], r)
          /\ \A n \in 1 .. N : Accounted(helper, lines[n], n, g[n - 1], g[n], r)
        BY <2>0, <3>a DEF HelperInv, Tracks
    <3>3. f[N] = g[N] /\ f[N + 1] = OutputMacros(g[N], l, Here, r, p)
        BY <2>0, <3>a
    <3>4. Same(table', f[N + 1], r) /\ Accounted(helper', l, N + 1, f[N], f[N + 1], r)
        BY <1>2, <2>0, <3>2, <3>3 DEF LineStep
    <3>5. ASSUME NEW n \in 1 .. N + 1
          PROVE  Accounted(helper', lines'[n], n, f[n - 1], f[n], r)
      <4>1. CASE n = N + 1
        <5>1. n - 1 = N
            BY <4>1
        <5> QED
            BY <2>0, <3>4, <4>1, <5>1
      <4>2. CASE n \in 1 .. N
        <5>1. n - 1 \in 0 .. N /\ n \in 0 .. N
            BY <4>2
        <5>2. g[n - 1] = f[n - 1] /\ g[n] = f[n] /\ lines'[n] = lines[n]
            BY <2>0, <3>a, <4>2, <5>1
        <5>3. Accounted(helper, lines[n], n, f[n - 1], f[n], r)
            BY <3>2, <4>2, <5>2
        <5>4. NotesGrow(helper, helper', N)
            BY <1>2, <2>0 DEF LineStep
        <5> QED
            BY <4>2, <5>2, <5>3, <5>4, AccountedStays
      <4> QED
          BY <4>1, <4>2
    <3> QED
        BY <3>4, <3>5
  <2>2. MaxOwned'
      BY <1>2 DEF LineStep
  <2> QED
      BY <2>0, <2>1, <2>2 DEF Tracks
<1> QED
    BY <1>1, <1>2 DEF HelperInv

\* A line is read only while nothing has vetoed the removal.
LEMMA ReadsClean ==
    ASSUME HelperInv, NEW place, CanRead(place) \/ CanReadLast
    PROVE  Unvetoed /\ phase = "reading" /\ Here \in Nat \ {0} /\ Here = Len(lines) + 1
<1>1. Len(lines) \in Nat /\ helper.includes \subseteq 1 .. Len(lines)
    BY DEF HelperInv, HelperType, Bounded
<1>2. IsFiniteSet(1 .. Len(lines))
    BY <1>1, FS_Interval
<1>3. IsFiniteSet(helper.includes)
    BY <1>1, <1>2, FS_Subset
<1>4. Cardinality(helper.includes) \in Nat
    BY <1>3, FS_CardinalityType
<1>5. phase = "reading" /\ ~helper.unsupported /\ ~(Cardinality(helper.includes) > 1)
    BY DEF CanRead, CanReadLast, Refused
<1> QED
    BY <1>1, <1>4, <1>5 DEF Unvetoed, Here

\* One more line.
LEMMA LinesGrow ==
    ASSUME HelperType, NEW l \in HelperLines, lines' = Append(lines, l)
    PROVE  lines' \in Seq(HelperLines) /\ Len(lines') = Len(lines) + 1 /\ 1 .. Len(lines) \subseteq 1 .. Len(lines')
    BY DEF HelperType

\* A line that leaves the macro table alone.
LEMMA QuietStep ==
    ASSUME HelperInv, Unvetoed, phase = "reading", NEW l \in HelperLines, lines' = Append(lines, l),
           UNCHANGED <<table, phase, ready, removed>>, helper' \in HelperRecords,
           UNCHANGED <<helper.includes, helper.provider, helper.callerOwns>>,
           NotesGrow(helper, helper', Len(lines)), Bounded(helper', Len(lines) + 1),
           l.do \notin {"include cuda", "include functions", "include image", "fallback H",
                        "fallback I", "define", "undef"},
           Unvetoed' => \A r \in BOOLEAN : \A u : Same(table, u, r) => Accounted(helper', l, Here, u, u, r)
    PROVE  HelperInv'
<1>1. HelperType'
    BY LinesGrow DEF HelperInv, HelperType
<1>2. MaxOwned'
    BY DEF HelperInv, MaxOwned
<1>3. \A r, p \in BOOLEAN : \A u : OutputMacros(u, l, Here, r, p) = u
    BY DEF OutputMacros
<1>4. LineStep(l)
    BY <1>1, <1>2, <1>3 DEF LineStep
<1> QED
    BY <1>4, LineKeeps

\* A line that vetoes the removal.
LEMMA VetoStep ==
    ASSUME HelperInv, Unvetoed, phase = "reading", NEW l \in HelperLines, lines' = Append(lines, l),
           UNCHANGED <<phase, ready, removed>>, helper' \in HelperRecords, table' \in MacroTables,
           Bounded(helper', Len(lines) + 1), ~Unvetoed'
    PROVE  HelperInv'
<1>1. HelperType'
    BY LinesGrow DEF HelperInv, HelperType
<1>2. LineStep(l)
    BY <1>1 DEF LineStep
<1> QED
    BY <1>2, LineKeeps

\* What the callbacks write at a line is about that line.
LEMMA NotesAdd ==
    ASSUME NEW h \in HelperRecords, NEW g \in HelperRecords, NEW N \in Nat, Bounded(h, N),
           g.includes \in {h.includes, h.includes \cup {N + 1}},
           g.text \in {h.text, h.text \cup {N + 1}}, g.calls \in {h.calls, h.calls \cup {N + 1}},
           g.normal \in {h.normal, h.normal \cup {N + 1}},
           g.branches \in {h.branches, h.branches \cup {N + 1}},
           h.needed => g.needed, h.replay => g.replay
    PROVE  NotesGrow(h, g, N) /\ Bounded(g, N + 1)
    BY DEF NotesGrow, Bounded

\* A directive about MAX vetoes.
LEMMA ControlKeeps ==
    ASSUME HelperInv, NEW place \in Places, NEW what, ControlMax(place, what)
    PROVE  HelperInv'
<1>1. Unvetoed /\ phase = "reading" /\ Here \in Nat \ {0}
    BY ReadsClean DEF ControlMax
<1> DEFINE l == [do |-> what, in |-> place, sees |-> IF what = "ask" THEN table.max.body ELSE "nothing"]
<1>2. lines' = Append(lines, l) /\ UNCHANGED <<phase, ready, removed>>
      /\ helper' = [helper EXCEPT !.unsupported = TRUE]
    BY DEF ControlMax, Append1, Veto
<1>3. l \in HelperLines
    BY DEF ControlMax, HelperLines, LineDeeds, HelperInv, HelperType, MacroTables, MacroDefinitions
<1>4. /\ helper' \in HelperRecords /\ helper'.unsupported
      /\ UNCHANGED <<helper.includes, helper.normal, helper.branches>>
    BY <1>2 DEF HelperInv, HelperType, HelperRecords
<1>5. table' \in MacroTables
  <2>1. [body |-> "D", file |-> place, at |-> Here] \in MacroDefinitions
      BY <1>1 DEF MacroDefinitions, MacroBodies, HelperFiles
  <2>2. table' = [table EXCEPT !.max = CASE what = "define" -> [body |-> "D", file |-> place, at |-> Here]
                                        [] what = "undef" -> None
                                        [] OTHER -> @]
      BY DEF ControlMax
  <2> QED
      BY <2>1, <2>2, NoneIs DEF HelperInv, HelperType, MacroTables
<1> HIDE DEF l
<1>6. Bounded(helper', Len(lines) + 1)
    BY <1>4 DEF HelperInv, HelperType, Bounded
<1> QED
    BY <1>1, <1>2, <1>3, <1>4, <1>5, <1>6, VetoStep DEF Unvetoed

\* A use of MAX: kept with its definition, replaced by its expansion, or a veto.
LEMMA UseKeeps ==
    ASSUME HelperInv, NEW place \in Places, NEW style \in Styles, UseMax(place, style)
    PROVE  HelperInv'
<1>1. Unvetoed /\ phase = "reading" /\ Here \in Nat \ {0} /\ Here = Len(lines) + 1
    BY ReadsClean DEF UseMax
<1> DEFINE l == [do |-> style, in |-> place, sees |-> table.max.body]
<1>2. /\ lines' = Append(lines, l) /\ UNCHANGED <<table, phase, ready, removed>>
      /\ helper' = IF table.max = None THEN helper
                ELSE IF helper.needed THEN KeepUse(place, style)
                ELSE IF table.max.file # "cuda" THEN helper
                ELSE IF place = "main" /\ style # "use odd"
                     THEN [helper EXCEPT !.text = @ \cup {Here}, !.normal = @ \cup {Here}]
                ELSE [helper EXCEPT !.unsupported = TRUE]
    BY DEF UseMax, Append1
<1>3. l \in HelperLines /\ l.do \in Styles /\ l.sees = table.max.body
    BY DEF Styles, HelperLines, LineDeeds, HelperInv, HelperType, MacroTables, MacroDefinitions
<1> HIDE DEF l
<1>4. helper \in HelperRecords /\ table \in MacroTables /\ Len(lines) \in Nat /\ Bounded(helper, Len(lines))
    BY DEF HelperInv, HelperType
<1>5. /\ helper' \in HelperRecords
      /\ UNCHANGED <<helper.includes, helper.provider, helper.callerOwns>>
      /\ NotesGrow(helper, helper', Len(lines)) /\ Bounded(helper', Len(lines) + 1)
  <2>1. helper' \in {helper, [helper EXCEPT !.unsupported = TRUE],
                     [helper EXCEPT !.kept = @ \cup {Here}, !.normal = @ \cup {Here},
                                   !.replay = @ \/ ~helper.callerOwns],
                     [helper EXCEPT !.text = @ \cup {Here}, !.normal = @ \cup {Here}]}
      BY <1>2 DEF KeepUse
  <2>2. /\ helper' \in HelperRecords
        /\ UNCHANGED <<helper.includes, helper.provider, helper.callerOwns, helper.calls,
                       helper.branches, helper.needed>>
        /\ helper'.text \in {helper.text, helper.text \cup {Here}}
        /\ helper'.normal \in {helper.normal, helper.normal \cup {Here}}
        /\ helper.replay => helper'.replay
    <3>1. CASE helper' = helper
        BY <1>4, <3>1
    <3>2. CASE helper' = [helper EXCEPT !.unsupported = TRUE]
        BY <1>4, <3>2 DEF HelperRecords
    <3>3. CASE helper' = [helper EXCEPT !.kept = @ \cup {Here}, !.normal = @ \cup {Here},
                                   !.replay = @ \/ ~helper.callerOwns]
        BY <1>1, <1>4, <3>3 DEF HelperRecords
    <3>4. CASE helper' = [helper EXCEPT !.text = @ \cup {Here}, !.normal = @ \cup {Here}]
        BY <1>1, <1>4, <3>4 DEF HelperRecords
    <3> QED
        BY <2>1, <3>1, <3>2, <3>3, <3>4
  <2> QED
      BY <1>1, <1>4, <2>2, NotesAdd
<1>6. ASSUME Unvetoed', NEW r \in BOOLEAN, NEW u, Same(table, u, r)
      PROVE  Accounted(helper', l, Here, u, u, r)
  <2>1. \/ table.max.file # "cuda"
        \/ Here \in helper'.text
        \/ helper'.needed /\ helper'.replay
    <3>1. ~helper'.unsupported
        BY <1>6 DEF Unvetoed
    <3>2. CASE table.max = None
        BY <3>2, NoneIs
    <3>3. CASE table.max # None /\ helper.needed
      <4>1. table.max = helper.provider
          BY <1>2, <1>4, <3>1, <3>3 DEF KeepUse, HelperRecords
      <4>2. CASE helper.callerOwns
          BY <1>1, <4>1, <4>2 DEF HelperInv, MaxOwned
      <4>3. CASE ~helper.callerOwns
          BY <1>2, <1>4, <3>1, <3>3, <4>3 DEF KeepUse, HelperRecords
      <4> QED
          BY <4>2, <4>3
    <3>4. CASE table.max # None /\ ~helper.needed
        BY <1>2, <1>4, <3>1, <3>4 DEF HelperRecords
    <3> QED
        BY <3>2, <3>3, <3>4
  <2>2. table.max.file # "cuda" => u.max.body = l.sees
      BY <1>3, <1>6 DEF Same
  <2>3. table.max.file = "cuda" /\ r => u.max.body = l.sees
      BY <1>3, <1>6 DEF Same
  <2>4. l.do \notin {"define", "undef", "ask", "push_macro", "include functions", "include image", "check",
                     "mention", "idle MAX", "idle check", "waived"}
      BY <1>3 DEF Styles
  <2> QED
      BY <2>1, <2>2, <2>3, <2>4 DEF Accounted
<1>7. l.do \notin {"include cuda", "include functions", "include image", "fallback H",
                   "fallback I", "define", "undef"}
    BY <1>3 DEF Styles
<1> QED
    BY <1>1, <1>2, <1>3, <1>5, <1>6, <1>7, QuietStep

\* A MAX nobody is told of is noted nowhere.
LEMMA MentionKeeps ==
    ASSUME HelperInv, NEW place \in Places, MentionMax(place)
    PROVE  HelperInv'
<1>1. Unvetoed /\ phase = "reading" /\ Here \in Nat \ {0} /\ Here = Len(lines) + 1
    BY ReadsClean DEF MentionMax
<1> DEFINE l == [do |-> "mention", in |-> place, sees |-> table.max.body]
<1>2. lines' = Append(lines, l) /\ UNCHANGED <<table, helper, phase, ready, removed>>
    BY DEF MentionMax, Append1
<1>3. l \in HelperLines /\ l.do = "mention"
    BY DEF HelperLines, LineDeeds, HelperInv, HelperType, MacroTables, MacroDefinitions
<1> HIDE DEF l
<1>4. helper \in HelperRecords /\ Len(lines) \in Nat /\ Bounded(helper, Len(lines))
    BY DEF HelperInv, HelperType
<1>5. NotesGrow(helper, helper', Len(lines)) /\ Bounded(helper', Len(lines) + 1)
    BY <1>2, <1>4, NotesAdd
<1>6. Here \notin helper'.normal \cup helper'.branches
    BY <1>1, <1>2, <1>4 DEF Bounded
<1>7. \A r, u : Accounted(helper', l, Here, u, u, r)
    BY <1>3, <1>6 DEF Accounted, Styles
<1> QED
    BY <1>1, <1>2, <1>3, <1>4, <1>5, <1>7, QuietStep

\* A use of checkCudaErrors: a candidate for rewriting, or a veto.
LEMMA CheckKeeps ==
    ASSUME HelperInv, NEW place \in Places, NEW wrapped \in BOOLEAN, UseCheck(place, wrapped)
    PROVE  HelperInv'
<1>1. Unvetoed /\ phase = "reading" /\ Here \in Nat \ {0} /\ Here = Len(lines) + 1
    BY ReadsClean DEF UseCheck
<1> DEFINE l == [do |-> "check", in |-> place, sees |-> IF table.check THEN "helper" ELSE "none"]
<1>2. /\ lines' = Append(lines, l) /\ UNCHANGED <<table, phase, ready, removed>>
      /\ helper' = IF ~table.check THEN helper
                ELSE IF place = "main" /\ ~wrapped
                     THEN [helper EXCEPT !.calls = @ \cup {Here}, !.normal = @ \cup {Here}]
                ELSE [helper EXCEPT !.unsupported = TRUE]
    BY DEF UseCheck, Append1
<1>3. l \in HelperLines /\ l.do = "check" /\ (~table.check => l.sees = "none")
    BY DEF HelperLines, LineDeeds, MacroBodies
<1> HIDE DEF l
<1>4. helper \in HelperRecords /\ Len(lines) \in Nat /\ Bounded(helper, Len(lines))
    BY DEF HelperInv, HelperType
<1>5. /\ helper' \in HelperRecords
      /\ UNCHANGED <<helper.includes, helper.provider, helper.callerOwns>>
      /\ NotesGrow(helper, helper', Len(lines)) /\ Bounded(helper', Len(lines) + 1)
      /\ ~table.check \/ helper'.unsupported \/ Here \in helper'.calls
  <2>1. CASE helper' = helper /\ ~table.check
      BY <1>4, <2>1, NotesAdd
  <2>2. CASE helper' = [helper EXCEPT !.unsupported = TRUE]
    <3>1. /\ helper' \in HelperRecords /\ helper'.unsupported
          /\ UNCHANGED <<helper.includes, helper.provider, helper.callerOwns, helper.calls, helper.text,
                         helper.normal, helper.branches, helper.needed, helper.replay>>
        BY <1>4, <2>2 DEF HelperRecords
    <3> QED
        BY <1>4, <3>1, NotesAdd
  <2>3. CASE helper' = [helper EXCEPT !.calls = @ \cup {Here}, !.normal = @ \cup {Here}]
    <3>1. /\ helper' \in HelperRecords /\ Here \in helper'.calls
          /\ UNCHANGED <<helper.includes, helper.provider, helper.callerOwns, helper.text,
                         helper.branches, helper.needed, helper.replay>>
          /\ helper'.calls = helper.calls \cup {Here} /\ helper'.normal = helper.normal \cup {Here}
        BY <1>1, <1>4, <2>3 DEF HelperRecords
    <3> QED
        BY <1>1, <1>4, <3>1, NotesAdd
  <2> QED
      BY <1>2, <2>1, <2>2, <2>3
<1>6. Unvetoed' => \A r, u : Accounted(helper', l, Here, u, u, r)
    BY <1>3, <1>5 DEF Accounted, Styles, Unvetoed
<1> QED
    BY <1>1, <1>2, <1>3, <1>5, <1>6, QuietStep

\* A skipped branch is noted, or the include has not come yet and both see the same MAX.
LEMMA BranchKeeps ==
    ASSUME HelperInv, NEW name, SkipBranch(name)
    PROVE  HelperInv'
<1>1. Unvetoed /\ phase = "reading" /\ Here \in Nat \ {0} /\ Here = Len(lines) + 1
    BY ReadsClean DEF SkipBranch
<1> DEFINE l == [do |-> name, in |-> "main", sees |-> IF name = "idle MAX" THEN table.max.body
                             ELSE IF table.check THEN "helper" ELSE "none"]
<1>2. /\ lines' = Append(lines, l) /\ UNCHANGED <<table, phase, ready, removed>>
      /\ helper' = [helper EXCEPT !.branches = IF helper.includes # {} THEN @ \cup {Here} ELSE @]
      /\ name \in {"idle MAX", "idle check"}
    BY DEF SkipBranch, Append1
<1>3. /\ l \in HelperLines /\ l.do = name /\ (name = "idle MAX" => l.sees = table.max.body)
      /\ name = "idle check" /\ ~table.check => l.sees = "none"
    BY <1>2 DEF HelperLines, LineDeeds, MacroBodies, Places, HelperInv, HelperType, MacroTables, MacroDefinitions
<1> HIDE DEF l
<1>4. helper \in HelperRecords /\ table \in MacroTables /\ Len(lines) \in Nat /\ Bounded(helper, Len(lines))
    BY DEF HelperInv, HelperType
<1>5. /\ helper' \in HelperRecords
      /\ UNCHANGED <<helper.includes, helper.provider, helper.callerOwns>>
      /\ NotesGrow(helper, helper', Len(lines)) /\ Bounded(helper', Len(lines) + 1)
      /\ helper.includes # {} => Here \in helper'.branches
  <2>1. /\ helper' \in HelperRecords
        /\ UNCHANGED <<helper.includes, helper.provider, helper.callerOwns, helper.calls, helper.text,
                       helper.normal, helper.needed, helper.replay>>
        /\ helper'.branches \in {helper.branches, helper.branches \cup {Here}}
        /\ helper.includes # {} => Here \in helper'.branches
      BY <1>1, <1>2, <1>4 DEF HelperRecords
  <2> QED
      BY <1>1, <1>4, <2>1, NotesAdd
<1>6. ASSUME NEW r, NEW u, Same(table, u, r)
      PROVE  Accounted(helper', l, Here, u, u, r)
  <2>1. CASE helper.includes # {}
      BY <1>2, <1>3, <1>5, <2>1 DEF Accounted, Styles
  <2>2. CASE helper.includes = {}
    <3>1. ~table.check /\ "cuda" \notin table.entered
        BY <1>1, <2>2 DEF HelperInv, MaxOwned
    <3>2. u.max = table.max
        BY <1>6, <3>1 DEF Same
    <3> QED
        BY <1>2, <1>3, <3>1, <3>2 DEF Accounted, Styles
  <2> QED
      BY <2>1, <2>2
<1>7. l.do \in {"idle MAX", "idle check"}
    BY <1>2, <1>3
<1> QED
    BY <1>1, <1>2, <1>3, <1>5, <1>6, <1>7, QuietStep

\* EXIT_WAIVED has the same value in both.
LEMMA WaivedKeeps ==
    ASSUME HelperInv, NEW place \in Places, UseWaived(place)
    PROVE  HelperInv'
<1>1. Unvetoed /\ phase = "reading" /\ Here \in Nat \ {0} /\ Here = Len(lines) + 1
    BY ReadsClean DEF UseWaived
<1> DEFINE l == [do |-> "waived", in |-> place, sees |-> table.waived.body]
<1>2. /\ lines' = Append(lines, l) /\ UNCHANGED <<table, phase, ready, removed>>
      /\ helper' \in {helper, [helper EXCEPT !.normal = @ \cup {Here}], [helper EXCEPT !.unsupported = TRUE]}
    BY DEF UseWaived, Append1
<1>3. l \in HelperLines /\ l.do = "waived" /\ l.sees = table.waived.body
    BY DEF HelperLines, LineDeeds, HelperInv, HelperType, MacroTables, MacroDefinitions
<1> HIDE DEF l
<1>4. helper \in HelperRecords /\ Len(lines) \in Nat /\ Bounded(helper, Len(lines))
    BY DEF HelperInv, HelperType
<1>5. /\ helper' \in HelperRecords
      /\ UNCHANGED <<helper.includes, helper.provider, helper.callerOwns>>
      /\ NotesGrow(helper, helper', Len(lines)) /\ Bounded(helper', Len(lines) + 1)
  <2>1. /\ helper' \in HelperRecords
        /\ UNCHANGED <<helper.includes, helper.provider, helper.callerOwns, helper.calls, helper.text,
                       helper.branches, helper.needed, helper.replay>>
        /\ helper'.normal \in {helper.normal, helper.normal \cup {Here}}
    <3>1. CASE helper' = helper
        BY <1>4, <3>1
    <3>2. CASE helper' = [helper EXCEPT !.normal = @ \cup {Here}]
        BY <1>1, <1>4, <3>2 DEF HelperRecords
    <3>3. CASE helper' = [helper EXCEPT !.unsupported = TRUE]
        BY <1>4, <3>3 DEF HelperRecords
    <3> QED
        BY <1>2, <3>1, <3>2, <3>3
  <2> QED
      BY <1>1, <1>4, <2>1, NotesAdd
<1>6. \A r, u : Same(table, u, r) => Accounted(helper', l, Here, u, u, r)
    BY <1>3 DEF Accounted, Styles, Same
<1> QED
    BY <1>1, <1>2, <1>3, <1>5, <1>6, QuietStep

\* A question about a published macro; the raw pass refuses it.
LEMMA PublishedKeeps ==
    ASSUME HelperInv, NEW place \in Places, AskPublished(place)
    PROVE  HelperInv'
<1>1. Unvetoed /\ phase = "reading" /\ Here \in Nat \ {0} /\ Here = Len(lines) + 1
    BY ReadsClean DEF AskPublished
<1> DEFINE l == [do |-> "published", in |-> place, sees |-> IF table.published THEN "defined" ELSE "none"]
<1>2. /\ lines' = Append(lines, l) /\ UNCHANGED <<table, phase, ready, removed>>
      /\ helper' = [helper EXCEPT !.unsupported = helper.includes # {}]
    BY DEF AskPublished, Append1
<1>3. l \in HelperLines /\ l.do = "published"
    BY DEF HelperLines, LineDeeds, MacroBodies
<1> HIDE DEF l
<1>4. helper \in HelperRecords /\ Len(lines) \in Nat /\ Bounded(helper, Len(lines))
    BY DEF HelperInv, HelperType
<1>5. /\ helper' \in HelperRecords
      /\ UNCHANGED <<helper.includes, helper.provider, helper.callerOwns>>
      /\ NotesGrow(helper, helper', Len(lines)) /\ Bounded(helper', Len(lines) + 1)
  <2>1. /\ helper' \in HelperRecords
        /\ UNCHANGED <<helper.includes, helper.provider, helper.callerOwns, helper.calls, helper.text,
                       helper.normal, helper.branches, helper.needed, helper.replay>>
      BY <1>2, <1>4 DEF HelperRecords
  <2> QED
      BY <1>4, <2>1, NotesAdd
<1>6. \A r, u : Accounted(helper', l, Here, u, u, r)
    BY <1>3 DEF Accounted, Styles
<1> QED
    BY <1>1, <1>2, <1>3, <1>5, <1>6, QuietStep

\* The input names a guard of the helpers; only the witness notes it.
LEMMA UtilityKeeps ==
    ASSUME HelperInv, NEW place \in Places, NameUtility(place)
    PROVE  HelperInv'
<1>1. Unvetoed /\ phase = "reading" /\ Here \in Nat \ {0} /\ Here = Len(lines) + 1
    BY ReadsClean DEF NameUtility
<1> DEFINE l == [do |-> "utility", in |-> place, sees |-> "nothing"]
<1>2. lines' = Append(lines, l) /\ UNCHANGED <<table, helper, phase, ready, removed>>
    BY DEF NameUtility, Append1
<1>3. l \in HelperLines /\ l.do = "utility"
    BY DEF HelperLines, LineDeeds
<1> HIDE DEF l
<1>4. helper \in HelperRecords /\ Len(lines) \in Nat /\ Bounded(helper, Len(lines))
    BY DEF HelperInv, HelperType
<1>5. NotesGrow(helper, helper', Len(lines)) /\ Bounded(helper', Len(lines) + 1)
    BY <1>2, <1>4, NotesAdd
<1>6. \A r, u : Accounted(helper', l, Here, u, u, r)
    BY <1>3 DEF Accounted, Styles
<1> QED
    BY <1>1, <1>2, <1>3, <1>4, <1>5, <1>6, QuietStep

\* The output exists, so the macros of the parse have a counterpart in it.
LEMMA TableMeets ==
    ASSUME HelperInv, Unvetoed, NEW r \in BOOLEAN
    PROVE  \E u : Same(table, u, r)
<1>1. Len(lines) \in Nat
    BY DEF HelperInv, HelperType
<1>2. PICK f : Outputs(f, lines, Len(lines), r, TRUE)
    BY <1>1, OutputExists
<1>3. Tracks(r, TRUE)
    BY DEF HelperInv
<1> QED
    BY <1>2, <1>3 DEF Tracks

\* A line that changes the macro table, and the include itself is not one.
LEMMA TableStep ==
    ASSUME HelperInv, Unvetoed, phase = "reading", NEW l \in HelperLines, lines' = Append(lines, l),
           UNCHANGED <<phase, ready, removed>>, helper' \in HelperRecords,
           NotesGrow(helper, helper', Len(lines)), Bounded(helper', Len(lines) + 1),
           Unvetoed' => MaxOwned',
           \A r, p \in BOOLEAN : \A u : Same(table, u, r) =>
               /\ Same(table', OutputMacros(u, l, Here, r, p), r)
               /\ Unvetoed' => Accounted(helper', l, Here, u, OutputMacros(u, l, Here, r, p), r)
    PROVE  HelperInv'
<1>1. table' \in MacroTables
  <2>1. PICK u : Same(table, u, TRUE)
      BY TableMeets
  <2> QED
      BY <2>1 DEF Same
<1>2. HelperType'
    BY <1>1, LinesGrow DEF HelperInv, HelperType
<1>3. LineStep(l)
    BY <1>2 DEF LineStep
<1> QED
    BY <1>3, LineKeeps

\* The MAX inside helper_image.h: definitions are only ever asked for, not taken back.
LEMMA ImageUsesIs ==
    ASSUME NEW a \in HelperRecords, NEW w, NEW t
    PROVE  LET b == ImageUsesMax(a, w, t) IN
           /\ b \in HelperRecords
           /\ b.includes = a.includes /\ b.provider = a.provider /\ b.callerOwns = a.callerOwns
           /\ b.text = a.text /\ b.calls = a.calls /\ b.normal = a.normal /\ b.branches = a.branches
           /\ a.needed => b.needed
           /\ a.replay => b.replay
<1> DEFINE b == IF w.requested THEN [a EXCEPT !.needed = TRUE, !.replay = TRUE] ELSE a
           c == ImageUsesMax(a, w, t)
<1>1. /\ b \in HelperRecords
      /\ b.includes = a.includes /\ b.provider = a.provider /\ b.callerOwns = a.callerOwns
      /\ b.text = a.text /\ b.calls = a.calls /\ b.normal = a.normal /\ b.branches = a.branches
      /\ a.needed => b.needed
      /\ a.replay => b.replay
    BY DEF HelperRecords
<1>2. c \in {b, [b EXCEPT !.replay = @ \/ ~b.callerOwns], [b EXCEPT !.unsupported = TRUE],
             [b EXCEPT !.imageMaxSeen = TRUE]}
    BY DEF ImageUsesMax
<1> HIDE DEF b, c
<1>3. CASE c = b
    BY <1>1, <1>3 DEF c
<1>4. CASE c = [b EXCEPT !.replay = @ \/ ~b.callerOwns]
  <2>1. /\ c \in HelperRecords
        /\ c.includes = b.includes /\ c.provider = b.provider /\ c.callerOwns = b.callerOwns
        /\ c.text = b.text /\ c.calls = b.calls /\ c.normal = b.normal /\ c.branches = b.branches
        /\ c.needed = b.needed
        /\ b.replay => c.replay
      BY <1>1, <1>4 DEF HelperRecords
  <2> QED
      BY <1>1, <2>1 DEF c
<1>5. CASE c \in {[b EXCEPT !.unsupported = TRUE], [b EXCEPT !.imageMaxSeen = TRUE]}
  <2>1. /\ c \in HelperRecords
        /\ c.includes = b.includes /\ c.provider = b.provider /\ c.callerOwns = b.callerOwns
        /\ c.text = b.text /\ c.calls = b.calls /\ c.normal = b.normal /\ c.branches = b.branches
        /\ c.needed = b.needed /\ c.replay = b.replay
    <3>1. CASE c = [b EXCEPT !.unsupported = TRUE]
        BY <1>1, <3>1 DEF HelperRecords
    <3>2. CASE c = [b EXCEPT !.imageMaxSeen = TRUE]
        BY <1>1, <3>2 DEF HelperRecords
    <3> QED
        BY <1>5, <3>1, <3>2
  <2> QED
      BY <1>1, <2>1 DEF c
<1> QED
    BY <1>2, <1>3, <1>4, <1>5

\* #include of helper_functions.h.
LEMMA FunctionsKeeps ==
    ASSUME HelperInv, NEW place \in Places, IncludeFunctions(place)
    PROVE  HelperInv'
<1>1. Unvetoed /\ phase = "reading" /\ Here \in Nat \ {0} /\ Here = Len(lines) + 1
    BY ReadsClean DEF IncludeFunctions
<1>2. PICK by \in HelperFiles : by = IF place = "main" THEN "main functions" ELSE "functions"
    BY DEF HelperFiles
<1>3. PICK images \in BOOLEAN : images = ("functions" \notin table.entered /\ "image" \notin table.entered)
    OBVIOUS
<1> DEFINE t == EnterFunctions(table, by, Here)
           seen == [helper EXCEPT !.functionsSeen = @ \/ ("functions" \notin table.entered /\ place = "main")]
           l == [do |-> "include functions", in |-> place, sees |-> IF images THEN t.max.body ELSE "nothing"]
<1>4. /\ lines' = Append(lines, l) /\ UNCHANGED <<phase, ready, removed>> /\ table' = t
      /\ helper' = IF images THEN ImageUsesMax(seen, witness, t) ELSE seen
    BY <1>2, <1>3 DEF IncludeFunctions, Append1
<1>5. helper \in HelperRecords /\ Len(lines) \in Nat /\ Bounded(helper, Len(lines))
    BY DEF HelperInv, HelperType
<1>6. /\ seen \in HelperRecords
      /\ seen.includes = helper.includes /\ seen.provider = helper.provider
      /\ seen.callerOwns = helper.callerOwns /\ seen.text = helper.text /\ seen.calls = helper.calls
      /\ seen.normal = helper.normal /\ seen.branches = helper.branches
      /\ seen.needed = helper.needed /\ seen.replay = helper.replay
    BY <1>5 DEF HelperRecords
<1> HIDE DEF seen
<1>7. /\ helper' \in HelperRecords
      /\ UNCHANGED <<helper.includes, helper.provider, helper.callerOwns>>
      /\ NotesGrow(helper, helper', Len(lines)) /\ Bounded(helper', Len(lines) + 1)
  <2>1. /\ helper' \in HelperRecords
        /\ UNCHANGED <<helper.includes, helper.provider, helper.callerOwns, helper.text, helper.calls,
                       helper.normal, helper.branches>>
        /\ helper.needed => helper'.needed
        /\ helper.replay => helper'.replay
    <3>1. CASE images
      <4> DEFINE b == ImageUsesMax(seen, witness, t)
      <4>1. /\ b \in HelperRecords
            /\ b.includes = seen.includes /\ b.provider = seen.provider /\ b.callerOwns = seen.callerOwns
            /\ b.text = seen.text /\ b.calls = seen.calls /\ b.normal = seen.normal /\ b.branches = seen.branches
            /\ seen.needed => b.needed
            /\ seen.replay => b.replay
          BY <1>6, ImageUsesIs
      <4> HIDE DEF b
      <4> QED
          BY <1>4, <1>6, <3>1, <4>1 DEF b
    <3>2. CASE ~images
        BY <1>4, <1>6, <3>2
    <3> QED
        BY <3>1, <3>2
  <2> QED
      BY <1>5, <2>1, NotesAdd
<1>8. ASSUME NEW r \in BOOLEAN, NEW p \in BOOLEAN, NEW u, Same(table, u, r)
      PROVE  /\ Same(t, EnterFunctions(u, place, Here), r)
             /\ t \in MacroTables /\ t.check = table.check /\ ("cuda" \in t.entered <=> "cuda" \in table.entered)
             /\ images => t.max.body \in {"H", "I"} /\ EnterFunctions(u, place, Here).max.body \in {"H", "I"}
  <2>1. place \in HelperFiles
      BY DEF HelperFiles
  <2>2. /\ Same(t, EnterFunctions(u, place, Here), r) /\ t.check = table.check
        /\ "cuda" \in t.entered <=> "cuda" \in table.entered
        /\ "functions" \notin table.entered /\ "image" \notin table.entered =>
              t.max.body \in {"H", "I"} /\ EnterFunctions(u, place, Here).max.body \in {"H", "I"}
      BY <1>1, <1>8, <2>1, SameFunctions
  <2>3. t \in MacroTables
      BY <2>2 DEF Same
  <2> QED
      BY <1>3, <2>2, <2>3
<1>9. t \in MacroTables /\ t.check = table.check /\ ("cuda" \in t.entered <=> "cuda" \in table.entered)
    BY <1>1, <1>8, TableMeets
<1> HIDE DEF t
<1>10. l \in HelperLines /\ l.do = "include functions" /\ l.in = place
       /\ l.sees = IF images THEN t.max.body ELSE "nothing"
    BY <1>9 DEF HelperLines, LineDeeds, MacroTables, MacroDefinitions
<1> HIDE DEF l
<1>11. MaxOwned'
    BY <1>1, <1>4, <1>7, <1>9 DEF HelperInv, MaxOwned
<1>12. ASSUME NEW r \in BOOLEAN, NEW p \in BOOLEAN, NEW u, Same(table, u, r)
       PROVE  /\ Same(table', OutputMacros(u, l, Here, r, p), r)
              /\ Accounted(helper', l, Here, u, OutputMacros(u, l, Here, r, p), r)
  <2>1. OutputMacros(u, l, Here, r, p) = EnterFunctions(u, place, Here)
      BY <1>10 DEF OutputMacros
  <2>2. /\ Same(t, EnterFunctions(u, place, Here), r)
        /\ images => t.max.body \in {"H", "I"} /\ EnterFunctions(u, place, Here).max.body \in {"H", "I"}
      BY <1>8, <1>12
  <2>3. Accounted(helper', l, Here, u, EnterFunctions(u, place, Here), r)
      BY <1>10, <2>2 DEF Accounted, Styles
  <2> QED
      BY <1>4, <2>1, <2>2, <2>3
<1> QED
    BY <1>1, <1>4, <1>7, <1>10, <1>11, <1>12, TableStep

\* #include of helper_image.h.
LEMMA ImageKeeps ==
    ASSUME HelperInv, NEW place \in Places, IncludeImage(place)
    PROVE  HelperInv'
<1>1. Unvetoed /\ phase = "reading" /\ Here \in Nat \ {0} /\ Here = Len(lines) + 1
    BY ReadsClean DEF IncludeImage
<1>2. place \in HelperFiles
    BY DEF HelperFiles
<1>3. PICK enters \in BOOLEAN : enters = ("image" \notin table.entered)
    OBVIOUS
<1> DEFINE t == EnterImage(table, place, Here)
           l == [do |-> "include image", in |-> place, sees |-> IF enters THEN t.max.body ELSE "nothing"]
<1>4. /\ lines' = Append(lines, l) /\ UNCHANGED <<phase, ready, removed>> /\ table' = t
      /\ helper' = IF enters THEN ImageUsesMax(helper, witness', t) ELSE helper
    BY <1>3 DEF IncludeImage, Append1
<1>5. helper \in HelperRecords /\ Len(lines) \in Nat /\ Bounded(helper, Len(lines))
    BY DEF HelperInv, HelperType
<1>7. /\ helper' \in HelperRecords
      /\ UNCHANGED <<helper.includes, helper.provider, helper.callerOwns>>
      /\ NotesGrow(helper, helper', Len(lines)) /\ Bounded(helper', Len(lines) + 1)
  <2>1. /\ helper' \in HelperRecords
        /\ UNCHANGED <<helper.includes, helper.provider, helper.callerOwns, helper.text, helper.calls,
                       helper.normal, helper.branches>>
        /\ helper.needed => helper'.needed
        /\ helper.replay => helper'.replay
    <3>1. CASE enters
      <4> DEFINE b == ImageUsesMax(helper, witness', t)
      <4>1. /\ b \in HelperRecords
            /\ b.includes = helper.includes /\ b.provider = helper.provider /\ b.callerOwns = helper.callerOwns
            /\ b.text = helper.text /\ b.calls = helper.calls /\ b.normal = helper.normal /\ b.branches = helper.branches
            /\ helper.needed => b.needed
            /\ helper.replay => b.replay
          BY <1>5, ImageUsesIs
      <4>2. helper' = b
          BY <1>4, <3>1
      <4> HIDE DEF b
      <4> QED
          BY <4>1, <4>2
    <3>2. CASE ~enters
        BY <1>4, <1>5, <3>2
    <3> QED
        BY <3>1, <3>2
  <2> QED
      BY <1>5, <2>1, NotesAdd
<1>8. ASSUME NEW r \in BOOLEAN, NEW p \in BOOLEAN, NEW u, Same(table, u, r)
      PROVE  /\ Same(t, EnterImage(u, place, Here), r)
             /\ t \in MacroTables /\ t.check = table.check /\ ("cuda" \in t.entered <=> "cuda" \in table.entered)
             /\ enters => t.max.body \in {"H", "I"} /\ EnterImage(u, place, Here).max.body \in {"H", "I"}
  <2>2. /\ Same(t, EnterImage(u, place, Here), r) /\ t.check = table.check
        /\ "cuda" \in t.entered <=> "cuda" \in table.entered
        /\ "image" \notin table.entered =>
              t.max.body \in {"H", "I"} /\ EnterImage(u, place, Here).max.body \in {"H", "I"}
      BY <1>1, <1>2, <1>8, SameImage
  <2>3. t \in MacroTables
      BY <2>2 DEF Same
  <2> QED
      BY <1>3, <2>2, <2>3
<1>9. t \in MacroTables /\ t.check = table.check /\ ("cuda" \in t.entered <=> "cuda" \in table.entered)
    BY <1>1, <1>8, TableMeets
<1> HIDE DEF t
<1>10. l \in HelperLines /\ l.do = "include image" /\ l.in = place
       /\ l.sees = IF enters THEN t.max.body ELSE "nothing"
    BY <1>9 DEF HelperLines, LineDeeds, MacroTables, MacroDefinitions
<1> HIDE DEF l
<1>11. MaxOwned'
    BY <1>1, <1>4, <1>7, <1>9 DEF HelperInv, MaxOwned
<1>12. ASSUME NEW r \in BOOLEAN, NEW p \in BOOLEAN, NEW u, Same(table, u, r)
       PROVE  /\ Same(table', OutputMacros(u, l, Here, r, p), r)
              /\ Accounted(helper', l, Here, u, OutputMacros(u, l, Here, r, p), r)
  <2>1. OutputMacros(u, l, Here, r, p) = EnterImage(u, place, Here)
      BY <1>10 DEF OutputMacros
  <2>2. /\ Same(t, EnterImage(u, place, Here), r)
        /\ enters => t.max.body \in {"H", "I"} /\ EnterImage(u, place, Here).max.body \in {"H", "I"}
      BY <1>8, <1>12
  <2>3. Accounted(helper', l, Here, u, EnterImage(u, place, Here), r)
      BY <1>10, <2>2 DEF Accounted, Styles
  <2> QED
      BY <1>4, <2>1, <2>2, <2>3
<1> QED
    BY <1>1, <1>4, <1>7, <1>10, <1>11, <1>12, TableStep

\* A guarded definition of MAX: admitted, recorded as the preserved one, or a veto.
LEMMA FallbackKeeps ==
    ASSUME HelperInv, NEW place \in Places, NEW body \in MaxBodies, FallbackMax(place, body)
    PROVE  HelperInv'
<1>1. Unvetoed /\ phase = "reading" /\ Here \in Nat \ {0} /\ Here = Len(lines) + 1
    BY ReadsClean DEF FallbackMax
<1>4. helper \in HelperRecords /\ table \in MacroTables /\ Len(lines) \in Nat /\ Bounded(helper, Len(lines))
    BY DEF HelperInv, HelperType
<1>2. PICK deed \in LineDeeds : deed = IF body = "H" THEN "fallback H" ELSE "fallback I"
    BY DEF LineDeeds
<1> DEFINE l == [do |-> deed, in |-> place, sees |-> "nothing"]
           t == [table EXCEPT !.max = Fallback(@, body, place, Here)]
<1>3. lines' = Append(lines, l) /\ UNCHANGED <<phase, ready, removed>> /\ table' = t
    BY <1>2 DEF FallbackMax, Append1
<1>5. l \in HelperLines /\ l.do = deed /\ l.in = place
    BY DEF HelperLines, LineDeeds
<1> HIDE DEF l
<1>6. place \in HelperFiles /\ place # "cuda"
    BY DEF HelperFiles, Places
<1>7. ASSUME NEW r \in BOOLEAN, NEW u, Same(table, u, r)
      PROVE  /\ Same(t, [u EXCEPT !.max = Fallback(@, body, place, Here)], r)
             /\ t.check = table.check /\ t.entered = table.entered
  <2>1. Here \in Nat
      BY <1>1
  <2>2. /\ Same([table EXCEPT !.max = Fallback(@, body, place, Here)],
                [u EXCEPT !.max = Fallback(@, body, place, Here)], r)
        /\ [table EXCEPT !.max = Fallback(@, body, place, Here)].check = table.check
        /\ [table EXCEPT !.max = Fallback(@, body, place, Here)].entered = table.entered
      BY <1>6, <1>7, <2>1, SameFallback
  <2> QED
      BY <2>2
<1>8. t \in MacroTables /\ t.check = table.check /\ t.entered = table.entered
  <2>1. PICK u : Same(table, u, TRUE)
      BY <1>1, TableMeets
  <2>2. Same(t, [u EXCEPT !.max = Fallback(@, body, place, Here)], TRUE)
      BY <1>7, <2>1
  <2> QED
      BY <1>7, <2>1, <2>2 DEF Same
<1>a. table.max \in MacroDefinitions /\ t.max = Fallback(table.max, body, place, Here)
    BY <1>4 DEF MacroTables
<1>b. table.max.body = "none" => table.max = None
  <2>1. PICK u : Same(table, u, TRUE)
      BY <1>1, TableMeets
  <2> QED
      BY <2>1 DEF Same
<1> HIDE DEF t
<1>9. ASSUME NEW r \in BOOLEAN, NEW p \in BOOLEAN, NEW u, Same(table, u, r)
      PROVE  /\ Same(table', OutputMacros(u, l, Here, r, p), r)
             /\ Accounted(helper', l, Here, u, OutputMacros(u, l, Here, r, p), r)
  <2>1. OutputMacros(u, l, Here, r, p) = [u EXCEPT !.max = Fallback(@, body, place, Here)]
      BY <1>2, <1>5 DEF OutputMacros, MaxBodies
  <2>2. Accounted(helper', l, Here, u, OutputMacros(u, l, Here, r, p), r)
      BY <1>2, <1>5 DEF Accounted, Styles
  <2> QED
      BY <1>3, <1>7, <1>9, <2>1, <2>2
<1>10. CASE AdmitFrozenFallback(place, body) /\ helper' = [helper EXCEPT !.normal = @ \cup {Here}]
  <2>1. /\ helper' \in HelperRecords
        /\ UNCHANGED <<helper.includes, helper.provider, helper.callerOwns, helper.text, helper.calls,
                       helper.branches, helper.needed, helper.replay>>
        /\ helper'.normal \in {helper.normal, helper.normal \cup {Here}}
      BY <1>1, <1>4, <1>10 DEF HelperRecords
  <2>2. NotesGrow(helper, helper', Len(lines)) /\ Bounded(helper', Len(lines) + 1)
      BY <1>1, <1>4, <2>1, NotesAdd
  <2>3. MaxOwned'
      BY <1>1, <1>3, <1>8, <2>1 DEF HelperInv, MaxOwned
  <2> QED
      BY <1>1, <1>3, <1>5, <1>9, <2>1, <2>2, <2>3, TableStep
<1>11. ASSUME NEW a \in RecordFallback(place),
              helper' = [a EXCEPT !.normal = @ \cup {Here},
                                  !.provider = IF @.body = "none" THEN table'.max ELSE @]
       PROVE  HelperInv'
  <2>1. \/ /\ table.max = None /\ helper.provider = None
           /\ a = [helper EXCEPT !.provider = [body |-> "none", file |-> place, at |-> Here],
                                 !.callerOwns = TRUE, !.needed = TRUE]
        \/ /\ table.max # None /\ helper.provider \in {None, table.max}
           /\ a = [helper EXCEPT !.provider = table.max, !.needed = TRUE,
                                 !.replay = @ \/ table.max.file = "cuda"]
      BY <1>11 DEF RecordFallback
  <2>2. /\ helper' \in HelperRecords
        /\ UNCHANGED <<helper.includes, helper.text, helper.calls, helper.branches>>
        /\ helper'.normal = helper.normal \cup {Here}
        /\ helper.needed => helper'.needed
        /\ helper.replay => helper'.replay
        /\ helper'.callerOwns => helper'.provider # None /\ helper'.provider.file # "cuda"
    <3>1. CASE table.max = None /\ helper.provider = None
      <4> DEFINE d == [body |-> "none", file |-> place, at |-> Here]
      <4>1. d \in MacroDefinitions /\ d.body = "none"
          BY <1>1, <1>6 DEF MacroDefinitions, MacroBodies
      <4>2. a = [helper EXCEPT !.provider = d, !.callerOwns = TRUE, !.needed = TRUE]
          BY <2>1, <3>1
      <4> HIDE DEF d
      <4>3. /\ a \in HelperRecords /\ a.includes = helper.includes /\ a.text = helper.text
            /\ a.calls = helper.calls /\ a.branches = helper.branches /\ a.normal = helper.normal
            /\ a.needed = TRUE /\ a.replay = helper.replay /\ a.provider = d
          BY <1>4, <4>1, <4>2 DEF HelperRecords
      <4>4. body \in MacroBodies
          BY DEF MacroBodies, MaxBodies
      <4>5. table'.max \in MacroDefinitions /\ table'.max.body = body /\ table'.max.file = place
        <5>1. Here \in Nat /\ table'.max = Fallback(table.max, body, place, Here)
            BY <1>1, <1>3, <1>a
        <5>2. /\ Fallback(table.max, body, place, Here) \in MacroDefinitions
              /\ Fallback(table.max, body, place, Here).body = body
              /\ Fallback(table.max, body, place, Here).file = place
            BY <1>6, <1>a, <3>1, <4>4, <5>1, FallbackIs
        <5> QED
            BY <5>1, <5>2
      <4>6. helper' = [a EXCEPT !.normal = @ \cup {Here}, !.provider = table'.max]
          BY <1>11, <4>1, <4>3
      <4>7. /\ helper' \in HelperRecords /\ helper'.includes = a.includes /\ helper'.text = a.text
            /\ helper'.calls = a.calls /\ helper'.branches = a.branches
            /\ helper'.normal = a.normal \cup {Here} /\ helper'.needed = a.needed
            /\ helper'.replay = a.replay /\ helper'.provider = table'.max
          BY <1>1, <4>3, <4>5, <4>6 DEF HelperRecords
      <4> QED
        <5>1. table'.max # None /\ table'.max.file # "cuda"
            BY <1>6, <4>5, NoneIs DEF MaxBodies
        <5> QED
            BY <4>3, <4>7, <5>1
    <3>2. CASE table.max # None
      <4>1. helper.provider \in {None, table.max}
            /\ a = [helper EXCEPT !.provider = table.max, !.needed = TRUE,
                                  !.replay = @ \/ table.max.file = "cuda"]
          BY <2>1, <3>2
      <4>2. table.max.body # "none"
          BY <1>b, <3>2
      <4>3. /\ a \in HelperRecords /\ a.includes = helper.includes /\ a.text = helper.text
            /\ a.calls = helper.calls /\ a.branches = helper.branches /\ a.normal = helper.normal
            /\ a.needed = TRUE /\ (helper.replay => a.replay) /\ a.provider = table.max
            /\ a.callerOwns = helper.callerOwns
          BY <1>4, <1>a, <4>1 DEF HelperRecords
      <4>4. helper' = [a EXCEPT !.normal = @ \cup {Here}, !.provider = table.max]
          BY <1>11, <4>2, <4>3
      <4>5. /\ helper' \in HelperRecords /\ helper'.includes = a.includes /\ helper'.text = a.text
            /\ helper'.calls = a.calls /\ helper'.branches = a.branches
            /\ helper'.normal = a.normal \cup {Here} /\ helper'.needed = a.needed
            /\ helper'.replay = a.replay /\ helper'.provider = table.max
            /\ helper'.callerOwns = a.callerOwns
          BY <1>1, <1>a, <4>3, <4>4 DEF HelperRecords
      <4>6. helper.callerOwns => helper.provider = table.max /\ table.max.file # "cuda"
          BY <1>1, <4>1 DEF HelperInv, MaxOwned
      <4> QED
          BY <3>2, <4>3, <4>5, <4>6
    <3> QED
        BY <2>1, <3>1, <3>2
  <2>3. NotesGrow(helper, helper', Len(lines)) /\ Bounded(helper', Len(lines) + 1)
      BY <1>1, <1>4, <2>2, NotesAdd
  <2>4. MaxOwned'
      BY <1>1, <1>3, <1>8, <2>2 DEF HelperInv, MaxOwned
  <2> QED
      BY <1>1, <1>3, <1>5, <1>9, <2>2, <2>3, <2>4, TableStep
<1>12. CASE Veto
  <2>1. /\ helper' \in HelperRecords /\ helper'.unsupported
        /\ UNCHANGED <<helper.includes, helper.normal, helper.branches>>
      BY <1>4, <1>12 DEF Veto, HelperRecords
  <2>2. Bounded(helper', Len(lines) + 1)
    <3>1. helper'.includes = helper.includes /\ helper'.normal = helper.normal
          /\ helper'.branches = helper.branches
        BY <2>1
    <3>2. 1 .. Len(lines) \subseteq 1 .. Len(lines) + 1
        BY <1>4
    <3> QED
        BY <1>4, <3>1, <3>2 DEF Bounded
  <2>3. table' \in MacroTables
      BY <1>3, <1>8
  <2> QED
      BY <1>1, <1>3, <1>5, <2>1, <2>2, <2>3, VetoStep DEF Unvetoed
<1> QED
    BY <1>10, <1>11, <1>12 DEF FallbackMax

\* #include of helper_cuda.h: the first one of the main file, or a veto.
LEMMA CudaKeeps ==
    ASSUME HelperInv, NEW place \in Places, IncludeCuda(place)
    PROVE  HelperInv'
<1>1. Unvetoed /\ phase = "reading" /\ Here \in Nat \ {0} /\ Here = Len(lines) + 1
    BY ReadsClean DEF IncludeCuda
<1> DEFINE l == [do |-> "include cuda", in |-> place, sees |-> "nothing"]
           mine == [body |-> "H", file |-> "cuda", at |-> Here]
           first == place = "main" /\ "cuda" \notin table.entered
           fresh == first /\ table.max = None
           known == DependencyTrusted("MAX", table.max) /\ DependencyTrusted("EXIT_WAIVED", table.waived)
           veto == place # "main" \/ (first /\ ~known) \/ (fresh /\ helper.provider # None)
           given == IF fresh /\ helper.provider = None THEN mine ELSE helper.provider
           roots == IF place = "main" THEN helper.includes \cup {Here} ELSE helper.includes
<1>2. /\ lines' = Append(lines, l) /\ UNCHANGED <<phase, ready, removed>>
      /\ table' = EnterCuda(table, Here)
    BY DEF IncludeCuda, Append1
<1>3. helper \in HelperRecords /\ table \in MacroTables /\ Len(lines) \in Nat /\ Bounded(helper, Len(lines))
    BY DEF HelperInv, HelperType
<1>a. helper' = [helper EXCEPT !.includes = roots, !.unsupported = veto, !.provider = given]
    BY <1>3 DEF IncludeCuda, HelperRecords
<1>4. l \in HelperLines /\ l.do = "include cuda" /\ l.in = place
    BY DEF HelperLines, LineDeeds
<1> HIDE DEF l
<1>5. veto \in BOOLEAN /\ (place # "main" => veto)
    OBVIOUS
<1>6. given \in MacroDefinitions /\ (helper.provider # None => given = helper.provider)
    BY <1>1, <1>3 DEF MacroDefinitions, MacroBodies, HelperFiles, HelperRecords
<1> HIDE DEF veto, given
<1>7. roots \in SUBSET Nat /\ roots \in {helper.includes, helper.includes \cup {Here}}
    BY <1>1, <1>3 DEF HelperRecords
<1> HIDE DEF roots
<1>8. /\ helper' \in HelperRecords
      /\ UNCHANGED <<helper.callerOwns, helper.text, helper.calls, helper.normal,
                     helper.branches, helper.needed, helper.replay>>
      /\ helper'.includes = roots /\ helper'.provider = given /\ helper'.unsupported = veto
    BY <1>3, <1>a, <1>5, <1>6, <1>7 DEF HelperRecords
<1>9. NotesGrow(helper, helper', Len(lines)) /\ Bounded(helper', Len(lines) + 1)
    BY <1>1, <1>3, <1>7, <1>8, NotesAdd
<1>10. CASE place = "main" /\ helper.includes = {}
  <2>1. "cuda" \notin table.entered
      BY <1>1, <1>10 DEF HelperInv, MaxOwned
  <2>2. ASSUME NEW r \in BOOLEAN, NEW p \in BOOLEAN, NEW u, Same(table, u, r)
        PROVE  /\ Same(table', OutputMacros(u, l, Here, r, p), r)
               /\ Accounted(helper', l, Here, u, OutputMacros(u, l, Here, r, p), r)
               /\ "cuda" \in table'.entered
    <3>1. OutputMacros(u, l, Here, r, p) = PrefixOf(u, Here, r, p)
        BY <1>4 DEF OutputMacros
    <3>2. Same(EnterCuda(table, Here), PrefixOf(u, Here, r, p), r) /\ "cuda" \in EnterCuda(table, Here).entered
        BY <1>1, <2>1, <2>2, SameCuda
    <3>3. Accounted(helper', l, Here, u, OutputMacros(u, l, Here, r, p), r)
        BY <1>4 DEF Accounted, Styles
    <3> QED
        BY <1>2, <3>1, <3>2, <3>3
  <2>3. "cuda" \in table'.entered
      BY <1>1, <2>2, TableMeets
  <2>4. helper'.includes = {Here}
      BY <1>8, <1>10 DEF roots
  <2>5. MaxOwned'
      BY <1>1, <1>6, <1>8, <2>3, <2>4 DEF HelperInv, MaxOwned
  <2> QED
      BY <1>1, <1>2, <1>4, <1>8, <1>9, <2>2, <2>5, TableStep
<1>11. CASE place # "main" \/ helper.includes # {}
  <2>1. table' \in MacroTables
    <3>1. CASE "cuda" \in table.entered
        BY <1>2, <1>3, <3>1 DEF EnterCuda
    <3>2. CASE "cuda" \notin table.entered
      <4>1. PICK u : Same(table, u, TRUE)
          BY <1>1, TableMeets
      <4>2. Same(EnterCuda(table, Here), PrefixOf(u, Here, TRUE, TRUE), TRUE)
          BY <1>1, <3>2, <4>1, SameCuda
      <4> QED
          BY <1>2, <4>2 DEF Same
    <3> QED
        BY <3>1, <3>2
  <2>2. ~Unvetoed'
    <3>1. CASE place # "main"
        BY <1>5, <1>8, <3>1 DEF Unvetoed
    <3>2. CASE place = "main" /\ helper.includes # {}
      <4>1. helper.includes \subseteq 1 .. Len(lines) /\ Here \notin helper.includes
          BY <1>1, <1>3 DEF Bounded
      <4>2. IsFiniteSet(helper.includes)
        <5>1. IsFiniteSet(1 .. Len(lines))
            BY <1>3, FS_Interval
        <5> QED
            BY <4>1, <5>1, FS_Subset
      <4>3. Cardinality(helper.includes) \in Nat /\ Cardinality(helper.includes) # 0
          BY <3>2, <4>2, FS_CardinalityType, FS_EmptySet
      <4>4. Cardinality(helper.includes \cup {Here}) = Cardinality(helper.includes) + 1
          BY <4>1, <4>2, FS_AddElement
      <4>5. helper'.includes = helper.includes \cup {Here}
          BY <1>8, <3>2 DEF roots
      <4> QED
          BY <4>3, <4>4, <4>5 DEF Unvetoed
    <3> QED
        BY <1>11, <3>1, <3>2
  <2> QED
      BY <1>1, <1>2, <1>4, <1>8, <1>9, <2>1, <2>2, VetoStep
<1> QED
    BY <1>10, <1>11

\* Every callback, the end of the parse and the transaction.
LEMMA HelperKeeps ==
    ASSUME HelperInv, [HelperNext]_helperVars
    PROVE  HelperInv'
<1>1. CASE UNCHANGED helperVars
  <2>1. UNCHANGED <<lines, table, helper, phase, ready, removed>>
      BY <1>1 DEF helperVars
  <2> QED
      BY <2>1 DEF HelperInv, HelperType, Unvetoed, MaxOwned, Tracks, RawTokenAdmitted
<1>2. CASE ReadLine
  <2>1. PICK place \in Places :
          \/ IncludeCuda(place)
          \/ IncludeFunctions(place)
          \/ IncludeImage(place)
          \/ \E what \in {"define", "undef", "ask", "push_macro"} : ControlMax(place, what)
          \/ \E body \in MaxBodies : FallbackMax(place, body)
          \/ \E style \in Styles : UseMax(place, style)
          \/ MentionMax(place)
          \/ \E wrapped \in BOOLEAN : UseCheck(place, wrapped)
          \/ UseWaived(place)
          \/ AskPublished(place)
          \/ NameUtility(place)
      BY <1>2, Zenon DEF ReadLine, MaxBodies
  <2> QED
      BY <2>1, CudaKeeps, FunctionsKeeps, ImageKeeps, ControlKeeps, FallbackKeeps, UseKeeps,
         MentionKeeps, CheckKeeps, WaivedKeeps, PublishedKeeps, UtilityKeeps, Zenon
<1>3. CASE \E name \in {"idle MAX", "idle check"} : SkipBranch(name)
    BY <1>3, BranchKeeps, Zenon
<1>4. CASE ProveHelperMacros
  <2>1. /\ phase = "reading" /\ phase' = "proved" /\ UNCHANGED <<lines, table, helper, removed>>
        /\ ready' => Unvetoed
    <3>1. ready' => Cardinality(helper.includes) = 1 /\ ~helper.unsupported
        BY <1>4 DEF ProveHelperMacros
    <3> QED
        BY <1>4, <3>1 DEF ProveHelperMacros, Unvetoed
  <2>2. removed' = FALSE \/ ~removed'
      BY <2>1 DEF HelperInv
  <2> QED
      BY <2>1, <2>2 DEF HelperInv, HelperType, Unvetoed, MaxOwned, Tracks
<1>5. CASE FinalizeClosure
  <2>1. /\ phase' = "end" /\ UNCHANGED <<lines, table, helper, ready>>
        /\ removed' => ready /\ \A n \in DOMAIN lines : RawTokenAdmitted(n)
      BY <1>5 DEF FinalizeClosure
  <2>2. removed' => ready' /\ \A n \in DOMAIN lines' : RawTokenAdmitted(n)'
      BY <2>1 DEF RawTokenAdmitted
  <2> QED
      BY <2>1, <2>2 DEF HelperInv, HelperType, Unvetoed, MaxOwned, Tracks
<1> QED
    BY <1>1, <1>2, <1>3, <1>4, <1>5 DEF HelperNext

\* No line was read.
LEMMA HelperStarts == HelperInit => HelperInv
<1> SUFFICES ASSUME HelperInit PROVE HelperInv
    OBVIOUS
<1>1. /\ lines = << >> /\ table = Table0 /\ phase = "reading" /\ ready = FALSE /\ removed = FALSE
      /\ helper.includes = {} /\ helper.unsupported = FALSE /\ helper.normal = {} /\ helper.branches = {}
      /\ helper.callerOwns = FALSE
    BY DEF HelperInit
<1>2. helper \in HelperRecords
    BY NoneIs DEF HelperInit, HelperRecords
<1>3. table \in MacroTables
    BY <1>1, SameStart DEF Same
<1>4. HelperType
    BY <1>1, <1>2, <1>3 DEF HelperType, Bounded
<1>5. MaxOwned
    BY <1>1 DEF MaxOwned, Table0
<1>6. ASSUME NEW r \in BOOLEAN, NEW p \in BOOLEAN
      PROVE  Tracks(r, p)
  <2>1. ASSUME NEW f, Outputs(f, lines, Len(lines), r, p)
        PROVE  f[Len(lines)] = Table0
    <3>1. Len(lines) = 0
        BY <1>1
    <3>2. Outputs(f, lines, 0, r, p)
        BY <2>1, <3>1
    <3>3. f[0] = Table0
        BY <3>2 DEF Outputs
    <3> QED
        BY <3>1, <3>3
  <2>2. 1 .. Len(lines) = {}
      BY <1>1
  <2> QED
      BY <1>1, <2>1, <2>2, SameStart DEF Tracks
<1> QED
    BY <1>1, <1>4, <1>5, <1>6 DEF HelperInv

\* The output the model defines is the one the lemmas speak of.
LEMMA OutputTableIs ==
    ASSUME Len(lines) \in Nat
    PROVE  Outputs(OutputTable, lines, Len(lines), helper.needed /\ helper.replay, helper.calls # {})
<1> DEFINE r == helper.needed /\ helper.replay
           p == helper.calls # {}
           Made(g) == [n \in 0 .. Len(lines) |->
          IF n = 0 THEN Table0
          ELSE LET t == g[n - 1]
                   l == lines[n]
               IN  CASE l.do = "include cuda" -> EnterPrefix(t, n)
                     [] l.do = "include functions" -> EnterFunctions(t, l.in, n)
                     [] l.do = "include image" -> EnterImage(t, l.in, n)
                     [] l.do = "define" -> [t EXCEPT !.max = [body |-> "D", file |-> l.in, at |-> n]]
                     [] l.do = "undef" -> [t EXCEPT !.max = None]
                     [] l.do = "fallback H" -> [t EXCEPT !.max = Fallback(@, "H", l.in, n)]
                     [] l.do = "fallback I" -> [t EXCEPT !.max = Fallback(@, "I", l.in, n)]
                     [] OTHER -> t]
<1>1. \A g : Outputs(g, lines, Len(lines), r, p) <=> g = Made(g)
    BY Zenon DEF Outputs, OutputMacros, EnterPrefix, PrefixOf
<1>2. OutputTable = CHOOSE g : g = Made(g)
    BY Zenon DEF OutputTable
<1> HIDE DEF Made
<1>3. \E g : g = Made(g)
    BY <1>1, OutputExists
<1>4. OutputTable = Made(OutputTable)
    BY <1>2, <1>3, Zenon
<1> QED
    BY <1>1, <1>4, Zenon

\* What the invariant says once the include is gone.
LEMMA HelperMeans == HelperInv => RemovalInvisible
<1> SUFFICES ASSUME HelperInv, removed, NEW n \in DOMAIN lines
             PROVE  n \in helper.text \cup helper.calls \/ SeesTheSame(n)
    BY DEF RemovalInvisible
<1> DEFINE r == helper.needed /\ helper.replay
           p == helper.calls # {}
           l == lines[n]
           before == OutputTable[n - 1]
           now == OutputTable[n]
<1>1. /\ lines \in Seq(HelperLines) /\ Len(lines) \in Nat /\ n \in 1 .. Len(lines) /\ l \in HelperLines
      /\ helper \in HelperRecords
    BY DEF HelperInv, HelperType
<1>2. r \in BOOLEAN /\ p \in BOOLEAN
    BY <1>1 DEF HelperRecords
<1>3. Tracks(r, p) /\ RawTokenAdmitted(n)
  <2>1. Unvetoed
      BY DEF HelperInv
  <2> HIDE DEF r, p
  <2> QED
      BY <1>2, <2>1 DEF HelperInv
<1>4. Accounted(helper, l, n, before, now, r)
    BY <1>1, <1>3, OutputTableIs DEF Tracks
<1>5. /\ l.do # "published"
      /\ l.in = "main" =>
             \/ n \in helper.normal \cup helper.branches
             \/ l.do \in {"include cuda", "include functions", "include image", "utility"}
    BY <1>3 DEF RawTokenAdmitted
<1>6. l.do \in LineDeeds
    BY <1>1 DEF HelperLines
<1>7. SeesTheSame(n) = CASE l.do \in {"use plain", "use odd", "use inside", "ask"} -> before.max.body = l.sees
          [] l.do \in {"include functions", "include image"} ->
                l.sees # "nothing" => now.max.body = l.sees \/ {now.max.body, l.sees} = {"H", "I"}
          [] l.do = "check" -> l.sees = "none"
          [] l.do = "mention" -> l.in = "main" => before.max.body = l.sees
          [] l.do = "idle MAX" -> n \in helper.branches \/ before.max.body = l.sees
          [] l.do = "idle check" -> n \in helper.branches \/ l.sees = "none"
          [] l.do = "waived" -> before.waived.body = l.sees
          [] l.do = "published" -> (before.published <=> l.sees = "defined")
          [] OTHER -> TRUE
    BY DEF SeesTheSame
<1> HIDE DEF l, before, now
<1>8. CASE l.do \in Styles
    BY <1>4, <1>7, <1>8 DEF Accounted, Styles
<1>9. CASE l.do \in {"include functions", "include image"}
    BY <1>4, <1>7, <1>9 DEF Accounted
<1>10. CASE l.do \in {"check", "mention", "idle MAX", "idle check", "waived"}
  <2>1. CASE l.do = "check"
      BY <1>4, <1>7, <2>1 DEF Accounted
  <2>2. CASE l.do = "mention"
      BY <1>4, <1>5, <1>7, <2>2 DEF Accounted
  <2>3. CASE l.do \in {"idle MAX", "idle check"}
      BY <1>4, <1>7, <2>3 DEF Accounted
  <2>4. CASE l.do = "waived"
      BY <1>4, <1>7, <2>4 DEF Accounted
  <2> QED
      BY <1>10, <2>1, <2>2, <2>3, <2>4
<1>11. CASE l.do \in {"include cuda", "fallback H", "fallback I", "utility"}
    BY <1>7, <1>11
<1>12. CASE l.do \in {"define", "undef", "ask", "push_macro", "published"}
    BY <1>4, <1>5, <1>12 DEF Accounted
<1> QED
    BY <1>6, <1>8, <1>9, <1>10, <1>11, <1>12 DEF LineDeeds, Styles

\* Whatever lines come and in whatever order, when the transaction replaces the include
\* of helper_cuda.h every line whose text stays sees the macros it saw before
\* (finalizeNvidiaSampleHelperClosure).
THEOREM AcceptedHelperRemoval == HelperInit /\ [][HelperNext]_helperVars => []RemovalInvisible
<1>1. HelperInv /\ [HelperNext]_helperVars => HelperInv'
    BY HelperKeeps
<1> QED
    BY <1>1, HelperStarts, HelperMeans, PTL

-----------------------------------------------------------------------------
(* Packed records                                                          *)

\* What one open conditional and the whole preprocessor may hold.
Conds == [live : BOOLEAN, outer : BOOLEAN]
CppStates == [pack : Nat, saved : Seq(Nat), conds : Seq(Conds), x : BOOLEAN, error : BOOLEAN]

\* Whether a line is compiled.
LEMMA LiveIsBoolean ==
    ASSUME NEW st \in CppStates
    PROVE  LiveIn(st) \in BOOLEAN
    BY DEF LiveIn, CppStates, Conds

\* A stack without its top.
LEMMA FrontIs ==
    ASSUME NEW S, NEW s \in Seq(S)
    PROVE  /\ Front(s) \in Seq(S)
           /\ \A c \in S : Front(Append(s, c)) = s
<1>1. CASE s = <<>>
    BY <1>1 DEF Front
<1>2. CASE s # <<>>
    BY <1>2 DEF Front
<1> QED
    BY <1>1, <1>2

\* A line keeps the state of the preprocessor well typed.
LEMMA DirectiveType ==
    ASSUME NEW st \in CppStates, NEW kind
    PROVE  Directive(st, kind) \in CppStates
<1>1. CASE kind = "pop"
  <2>1. CASE st.saved = <<>>
      BY <1>1, <2>1 DEF Directive
  <2>2. CASE st.saved # <<>>
    <3>1. st.saved[Len(st.saved)] \in Nat /\ Front(st.saved) \in Seq(Nat)
        BY <2>2, FrontIs DEF CppStates
    <3> QED
        BY <1>1, <2>2, <3>1 DEF Directive, CppStates
  <2> QED
      BY <2>1, <2>2
<1>2. CASE kind = "push"
  <2>1. Append(st.saved, st.pack) \in Seq(Nat)
      BY DEF CppStates
  <2> QED
      BY <1>2, <2>1 DEF Directive, CppStates
<1>3. CASE kind \notin {"push", "pop"}
    BY <1>3 DEF Directive, CppStates
<1> QED
    BY <1>1, <1>2, <1>3

\* So does a conditional.
LEMMA CppType ==
    ASSUME NEW st \in CppStates, NEW kind
    PROVE  Cpp(st, kind) \in CppStates
<1>1. LiveIn(st) \in BOOLEAN
    BY LiveIsBoolean
<1>2. CASE kind = "if"
  <2>1. Append(st.conds, [live |-> LiveIn(st) /\ st.x, outer |-> LiveIn(st)]) \in Seq(Conds)
      BY <1>1 DEF CppStates, Conds
  <2> QED
      BY <1>2, <2>1 DEF Cpp, CppStates
<1>3. CASE kind = "else"
  <2> DEFINE n == Len(st.conds)
             d == [st.conds[n] EXCEPT !.live = st.conds[n].outer /\ ~@]
             c == [st.conds EXCEPT ![n] = d]
  <2>1. Cpp(st, kind) = [st EXCEPT !.conds = c]
      BY <1>3 DEF Cpp
  <2>2. st.conds \in Seq(Conds) /\ n \in Nat
      BY DEF CppStates
  <2>3. n # 0 => d \in Conds
    <3>1. n # 0 => st.conds[n] \in Conds
        BY <2>2
    <3> QED
        BY <3>1 DEF Conds
  <2> HIDE DEF d
  <2>4. c \in Seq(Conds)
    <3>1. CASE n = 0
      <4>1. DOMAIN st.conds = {}
          BY <2>2, <3>1
      <4>2. DOMAIN c = {}
          BY <4>1
      <4>3. c = [i \in {} |-> c[i]]
          BY <4>1
      <4>4. c = << >>
          BY <4>2, <4>3
      <4>5. << >> \in Seq(Conds)
          OBVIOUS
      <4> HIDE DEF c
      <4> QED
          BY <4>4, <4>5
    <3>2. CASE n # 0
        BY <2>2, <2>3, <3>2
    <3> QED
        BY <3>1, <3>2
  <2> HIDE DEF c
  <2> QED
      BY <2>1, <2>4 DEF CppStates
<1>4. CASE kind = "endif"
  <2>1. Front(st.conds) \in Seq(Conds)
      BY FrontIs DEF CppStates
  <2> QED
      BY <1>4, <2>1 DEF Cpp, CppStates
<1>5. CASE kind \notin {"if", "else", "endif"}
    BY <1>5, DirectiveType DEF Cpp
<1> QED
    BY <1>2, <1>3, <1>4, <1>5

\* A text of any length can be read.
LEMMA CompiledIs ==
    ASSUME NEW t, NEW K, t \in Seq(K), NEW x \in BOOLEAN
    PROVE  /\ Compiled(t, x)[1] = Cpp0(x)
           /\ \A i \in 1 .. Len(t) : Compiled(t, x)[i + 1] = Cpp(Compiled(t, x)[i], t[i])
           /\ \A i \in 1 .. Len(t) + 1 : Compiled(t, x)[i] \in CppStates
<1> DEFINE N == Len(t)
           Made(f) == [i \in 1 .. N + 1 |-> IF i = 1 THEN Cpp0(x) ELSE Cpp(f[i - 1], t[i - 1])]
           Good(f, n) == \A i \in 1 .. n + 1 : f[i] = IF i = 1 THEN Cpp0(x) ELSE Cpp(f[i - 1], t[i - 1])
           Full(f) == f = [i \in 1 .. N + 1 |-> f[i]]
           S == {n \in 0 .. N : \E f : Full(f) /\ Good(f, n)}
<1>0. N \in Nat
    OBVIOUS
<1>1. Compiled(t, x) = CHOOSE f : f = Made(f)
    BY DEF Compiled
<1> HIDE DEF N
<1>2. 0 \in S
  <2> DEFINE f == [i \in 1 .. N + 1 |-> Cpp0(x)]
  <2>1. Full(f) /\ Good(f, 0)
      BY <1>0
  <2> HIDE DEF f, Good, Full
  <2> QED
      BY <1>0, <2>1
<1>3. ASSUME NEW n \in 1 .. N, n - 1 \in S
      PROVE  n \in S
  <2>1. PICK f : Full(f) /\ Good(f, n - 1)
      BY <1>3
  <2> DEFINE y == Cpp(f[n], t[n])
             g == [i \in 1 .. N + 1 |-> IF i = n + 1 THEN y ELSE f[i]]
  <2> HIDE DEF y
  <2>2. Full(g)
      BY <1>0
  <2>3. g[n + 1] = y /\ \A i \in 1 .. n : g[i] = f[i]
      BY <1>0
  <2> HIDE DEF g
  <2>4. ASSUME NEW i \in 1 .. n + 1
        PROVE  g[i] = IF i = 1 THEN Cpp0(x) ELSE Cpp(g[i - 1], t[i - 1])
    <3>1. CASE i = n + 1
      <4>1. i # 1 /\ i - 1 = n /\ g[n] = f[n]
          BY <2>3, <3>1
      <4> QED
          BY <2>3, <3>1, <4>1 DEF y
    <3>2. CASE i \in 1 .. n
      <4>1. f[i] = IF i = 1 THEN Cpp0(x) ELSE Cpp(f[i - 1], t[i - 1])
        <5>1. i \in 1 .. (n - 1) + 1
            BY <3>2
        <5> QED
            BY <2>1, <5>1
      <4>2. g[i] = f[i] /\ (i # 1 => g[i - 1] = f[i - 1])
          BY <2>3, <3>2
      <4> QED
          BY <4>1, <4>2
    <3> QED
        BY <3>1, <3>2
  <2>5. Good(g, n)
      BY <2>4
  <2> HIDE DEF Good, Full
  <2> QED
      BY <1>0, <2>2, <2>5
<1>4. N \in S
  <2> HIDE DEF S
  <2> QED
      BY <1>0, <1>2, <1>3, Induction
<1>5. \E f : f = Made(f)
  <2>1. PICK f : Full(f) /\ Good(f, N)
      BY <1>4
  <2>2. f = Made(f)
      BY <2>1
  <2> HIDE DEF Made
  <2> QED
      BY <2>2
<1> DEFINE c == Compiled(t, x)
<1>6. c = Made(c)
  <2> HIDE DEF Made
  <2> QED
      BY <1>1, <1>5, Zenon
<1> HIDE DEF c
<1>7. c[1] = Cpp0(x) /\ \A i \in 1 .. N : c[i + 1] = Cpp(c[i], t[i])
  <2>1. \A i \in 1 .. N + 1 : c[i] = IF i = 1 THEN Cpp0(x) ELSE Cpp(c[i - 1], t[i - 1])
      BY <1>6
  <2>2. 1 \in 1 .. N + 1
      BY <1>0
  <2>3. ASSUME NEW i \in 1 .. N
        PROVE  c[i + 1] = Cpp(c[i], t[i])
    <3>1. PICK k \in 1 .. N + 1 : k = i + 1
        BY <1>0
    <3>2. k # 1 /\ k - 1 = i
        BY <3>1
    <3> QED
        BY <2>1, <3>1, <3>2
  <2> QED
      BY <2>1, <2>2, <2>3
<1>8. \A i \in 1 .. N + 1 : c[i] \in CppStates
  <2> DEFINE T == {n \in 0 .. N : c[n + 1] \in CppStates}
  <2>1. 0 \in T
    <3>1. Cpp0(x) \in CppStates
        BY DEF Cpp0, CppStates
    <3> QED
        BY <1>0, <1>7, <3>1
  <2>2. ASSUME NEW n \in 1 .. N, n - 1 \in T
        PROVE  n \in T
    <3>1. c[n] \in CppStates
        BY <2>2
    <3> QED
        BY <1>7, <3>1, CppType
  <2> HIDE DEF T
  <2>3. \A n \in 0 .. N : n \in T
      BY <1>0, <2>1, <2>2, Induction
  <2>4. ASSUME NEW i \in 1 .. N + 1
        PROVE  c[i] \in CppStates
    <3>1. i - 1 \in 0 .. N
        BY <1>0
    <3>2. c[(i - 1) + 1] \in CppStates
        BY <2>3, <3>1 DEF T
    <3> QED
        BY <3>2
  <2> QED
      BY <2>4
<1> QED
    BY <1>7, <1>8 DEF c, N

\* The length of the text.
TextLen == Len(packText)

\* The lines of region q around its body.
RegionFrame(q) ==
    /\ q.open \in 1 .. TextLen /\ packText[q.open] = "open"
    /\ q.bodyEnd \in q.open + 1 .. TextLen
    /\ q.guarded \in BOOLEAN
    /\ IF q.guarded
       THEN /\ q.bodyEnd + 4 <= TextLen /\ q.reset = q.bodyEnd + 3 /\ q.last = q.bodyEnd + 4
            /\ packText[q.bodyEnd] = "if" /\ packText[q.bodyEnd + 1] = "pop"
            /\ packText[q.bodyEnd + 2] = "else" /\ packText[q.bodyEnd + 3] = "reset"
            /\ packText[q.bodyEnd + 4] = "endif"
       ELSE q.reset = q.bodyEnd /\ q.last = q.bodyEnd /\ packText[q.bodyEnd] = "reset"
    /\ \/ q.first = q.open
       \/ /\ q.guarded /\ q.first = q.open - 3 /\ q.first \in Nat \ {0}
          /\ packText[q.open - 3] = "if" /\ packText[q.open - 2] = "push" /\ packText[q.open - 1] = "endif"
    /\ \A i \in q.owned :
          \/ i \in {q.open, q.reset}
          \/ q.guarded /\ (i = q.bodyEnd + 1 \/ (i = q.open - 2 /\ q.first = q.open - 3))

\* A region with a body of records.
RegionShape(q) == RegionFrame(q) /\ \A i \in q.open + 1 .. q.bodyEnd - 1 : packText[i] = "record"

\* The packing pragmas of the text are those of its regions.
TextShaped ==
    /\ packText \in Seq(PackKinds)
    /\ \A q \in Regions : RegionShape(q)
    /\ \A i \in 1 .. TextLen : /\ packText[i] # "op"
                               /\ packText[i] \in PackLines => \E q \in Regions : i \in q.owned

\* Two states that differ at most in what a guard reported.
SameState(s, t) == s.pack = t.pack /\ s.saved = t.saved /\ s.conds = t.conds /\ s.x = t.x

\* S is the state before each line in a build that no guard stops.
BuildWalk(S) ==
    /\ \A i \in 1 .. TextLen + 1 : S[i] \in CppStates
    /\ S[1].pack = 0 /\ S[1].saved = << >>
    /\ \A i \in 1 .. TextLen : SameState(S[i + 1], Cpp(S[i], packText[i]))
    /\ \A q \in Regions : q.guarded /\ LiveIn(S[q.open]) => ~S[q.open].x

\* No packing in force, and none saved.
Unpacked(st) == st.pack = 0 /\ st.saved = << >>

\* What region q does.
RegionRuns(S, q) ==
    /\ \A i \in q.open + 1 .. q.bodyEnd :
          S[i].pack = (IF LiveIn(S[q.open]) THEN 1 ELSE 0) /\ (LiveIn(S[i]) <=> LiveIn(S[q.open]))
    /\ Unpacked(S[q.reset + 1])

\* A line that is no pragma, no definition and no conditional does nothing.
LEMMA PlainLine ==
    ASSUME NEW st, NEW kind, kind \in {"record", "macro", "include"}
    PROVE  Cpp(st, kind) = st
    BY DEF Cpp, Directive

\* What a guard reported does not matter to what is compiled.
LEMMA LikeLive ==
    ASSUME NEW s, NEW t, SameState(s, t)
    PROVE  LiveIn(s) <=> LiveIn(t)
    BY DEF SameState, LiveIn

\* The body of a region is packed where its opener is compiled, and only there.
LEMMA BodyRuns ==
    ASSUME TextShaped, NEW S, BuildWalk(S), NEW q \in Regions, Unpacked(S[q.open])
    PROVE  \A i \in q.open + 1 .. q.bodyEnd :
              /\ S[i].pack = (IF LiveIn(S[q.open]) THEN 1 ELSE 0) /\ S[i].saved = << >>
              /\ S[i].conds = S[q.open].conds /\ S[i].x = S[q.open].x
<1> DEFINE o == q.open
           e == q.bodyEnd
           live == LiveIn(S[o])
           At(i) == /\ S[i].pack = (IF live THEN 1 ELSE 0) /\ S[i].saved = << >>
                    /\ S[i].conds = S[o].conds /\ S[i].x = S[o].x
           T == {k \in 0 .. e - (o + 1) : At(o + 1 + k)}
<1>1. /\ TextLen \in Nat /\ o \in 1 .. TextLen /\ e \in o + 1 .. TextLen /\ packText[o] = "open"
      /\ \A i \in o + 1 .. e - 1 : packText[i] = "record"
    BY DEF TextShaped, RegionShape, RegionFrame, TextLen
<1>2. S[o] \in CppStates /\ live \in BOOLEAN
    BY <1>1, LiveIsBoolean DEF BuildWalk
<1> HIDE DEF o, e, live
<1>3. 0 \in T
  <2>1. SameState(S[o + 1], Cpp(S[o], "open"))
      BY <1>1 DEF BuildWalk
  <2>2. Cpp(S[o], "open") = IF live THEN [S[o] EXCEPT !.pack = 1] ELSE S[o]
      BY DEF Cpp, Directive, live
  <2>3. At(o + 1)
      BY <1>2, <2>1, <2>2 DEF SameState, CppStates, Unpacked, o
  <2> QED
      BY <1>1, <2>3
<1>4. ASSUME NEW k \in 1 .. e - (o + 1), k - 1 \in T
      PROVE  k \in T
  <2>1. PICK i \in o + 1 .. e - 1 : i = o + k
      BY <1>1
  <2>2. At(i)
      BY <1>1, <1>4, <2>1
  <2>3. i \in 1 .. TextLen /\ packText[i] = "record"
      BY <1>1, <2>1
  <2>4. SameState(S[i + 1], S[i])
      BY <2>3, PlainLine DEF BuildWalk
  <2>5. At(i + 1)
      BY <2>2, <2>4 DEF SameState
  <2>6. i + 1 = o + 1 + k
      BY <1>1, <2>1
  <2> QED
      BY <2>5, <2>6
<1>5. \A k \in 0 .. e - (o + 1) : k \in T
  <2>1. e - (o + 1) \in Nat
      BY <1>1
  <2> HIDE DEF T
  <2> QED
      BY <1>3, <1>4, <2>1, Induction
<1>6. ASSUME NEW i \in o + 1 .. e
      PROVE  At(i)
  <2>1. PICK k \in 0 .. e - (o + 1) : i = o + 1 + k
    <3>1. i - (o + 1) \in 0 .. e - (o + 1) /\ i = o + 1 + (i - (o + 1))
        BY <1>1
    <3> QED
        BY <3>1
  <2> QED
      BY <1>5, <2>1
<1> QED
    BY <1>6 DEF o, e, live

\* After its reset a region leaves nothing packed, in whatever build.
LEMMA RegionIsRun ==
    ASSUME TextShaped, NEW S, BuildWalk(S), NEW q \in Regions, Unpacked(S[q.open])
    PROVE  RegionRuns(S, q)
<1> DEFINE o == q.open
           e == q.bodyEnd
           live == LiveIn(S[o])
<1>1. TextLen \in Nat /\ o \in 1 .. TextLen /\ e \in o + 1 .. TextLen /\ q.guarded \in BOOLEAN
    BY DEF TextShaped, RegionShape, RegionFrame, TextLen
<1>2. S[o] \in CppStates /\ live \in BOOLEAN /\ S[o].x \in BOOLEAN
    BY <1>1, LiveIsBoolean DEF BuildWalk, CppStates
<1>3. \A i \in o + 1 .. e :
              /\ S[i].pack = (IF live THEN 1 ELSE 0) /\ S[i].saved = << >>
              /\ S[i].conds = S[o].conds /\ S[i].x = S[o].x
    BY BodyRuns
<1>4. \A i \in o + 1 .. e : LiveIn(S[i]) <=> live
    BY <1>3 DEF LiveIn
<1>5. /\ S[e] \in CppStates /\ S[e].pack = (IF live THEN 1 ELSE 0) /\ S[e].saved = << >>
      /\ S[e].x = S[o].x /\ (LiveIn(S[e]) <=> live) /\ LiveIn(S[e]) \in BOOLEAN
  <2>1. e \in o + 1 .. e /\ e \in 1 .. TextLen + 1
      BY <1>1
  <2>2. S[e] \in CppStates
      BY <2>1 DEF BuildWalk
  <2>3. LiveIn(S[e]) \in BOOLEAN
      BY <2>2, LiveIsBoolean
  <2> QED
      BY <1>3, <1>4, <2>1, <2>2, <2>3
<1>6. q.guarded /\ live => ~S[o].x
    BY DEF BuildWalk
<1> HIDE DEF o, e, live
<1>7. CASE ~q.guarded
  <2>1. q.reset = e /\ packText[e] = "reset"
      BY <1>7 DEF TextShaped, RegionShape, RegionFrame, e
  <2>2. SameState(S[e + 1], Cpp(S[e], "reset"))
      BY <1>1, <2>1 DEF BuildWalk
  <2>3. Cpp(S[e], "reset") = IF LiveIn(S[e]) THEN [S[e] EXCEPT !.pack = 0] ELSE S[e]
      BY DEF Cpp, Directive
  <2>4. Unpacked(S[e + 1])
      BY <1>2, <1>5, <2>2, <2>3 DEF SameState, Unpacked, CppStates
  <2> QED
      BY <1>3, <1>4, <2>1, <2>4 DEF RegionRuns, o, e, live
<1>8. CASE q.guarded
  <2>1. /\ e + 4 <= TextLen /\ q.reset = e + 3
        /\ packText[e] = "if" /\ packText[e + 1] = "pop"
        /\ packText[e + 2] = "else" /\ packText[e + 3] = "reset"
      BY <1>8 DEF TextShaped, RegionShape, RegionFrame, e
  <2> DEFINE c == [live |-> LiveIn(S[e]) /\ S[e].x, outer |-> LiveIn(S[e])]
  <2>2. c.live = FALSE /\ c.outer = live /\ c \in Conds
      BY <1>2, <1>5, <1>6, <1>8 DEF Conds
  <2>3. /\ SameState(S[e + 1], Cpp(S[e], "if")) /\ SameState(S[e + 2], Cpp(S[e + 1], "pop"))
        /\ SameState(S[e + 3], Cpp(S[e + 2], "else")) /\ SameState(S[e + 4], Cpp(S[e + 3], "reset"))
    <3>1. SameState(S[e + 1], Cpp(S[e], "if"))
        BY <1>1, <2>1 DEF BuildWalk
    <3>2. ASSUME NEW i \in 1 .. TextLen
          PROVE  SameState(S[i + 1], Cpp(S[i], packText[i]))
        BY DEF BuildWalk
    <3>3. e + 1 \in 1 .. TextLen /\ (e + 1) + 1 = e + 2 /\ e + 2 \in 1 .. TextLen /\ (e + 2) + 1 = e + 3
          /\ e + 3 \in 1 .. TextLen /\ (e + 3) + 1 = e + 4
        BY <1>1, <2>1
    <3>4. SameState(S[e + 2], Cpp(S[e + 1], packText[e + 1]))
        BY <3>2, <3>3
    <3>5. SameState(S[e + 3], Cpp(S[e + 2], packText[e + 2]))
        BY <3>2, <3>3
    <3>6. SameState(S[e + 4], Cpp(S[e + 3], packText[e + 3]))
        BY <3>2, <3>3
    <3> QED
        BY <2>1, <3>1, <3>4, <3>5, <3>6
  <2>4. S[e + 1] \in CppStates /\ S[e + 2] \in CppStates /\ S[e + 3] \in CppStates /\ S[e + 4] \in CppStates
    <3>1. e + 1 \in 1 .. TextLen + 1 /\ e + 2 \in 1 .. TextLen + 1 /\ e + 3 \in 1 .. TextLen + 1 /\ e + 4 \in 1 .. TextLen + 1
        BY <1>1, <2>1
    <3> QED
        BY <3>1 DEF BuildWalk
  <2> DEFINE z == S[e].conds
             n == Len(z) + 1
  <2>5. z \in Seq(Conds) /\ n \in Nat \ {0}
      BY <1>5 DEF CppStates
  <2>6. /\ S[e + 1].conds = Append(z, c) /\ S[e + 1].pack = S[e].pack /\ S[e + 1].saved = << >>
        /\ S[e + 1].x = S[e].x
    <3>1. Cpp(S[e], "if") = [S[e] EXCEPT !.conds = Append(@, c)]
        BY DEF Cpp
    <3> HIDE DEF c
    <3> QED
        BY <1>5, <2>3, <3>1 DEF SameState, CppStates
  <2> HIDE DEF c
  <2>7. Append(z, c) \in Seq(Conds) /\ Len(Append(z, c)) = n /\ Append(z, c)[n] = c /\ Append(z, c) # << >>
      BY <2>2, <2>5
  <2> HIDE DEF z, n
  <2>8. ~LiveIn(S[e + 1])
      BY <2>2, <2>6, <2>7 DEF LiveIn
  <2>9. /\ S[e + 2].conds = Append(z, c) /\ S[e + 2].pack = S[e].pack /\ S[e + 2].saved = << >>
        /\ S[e + 2].x = S[e].x
    <3>1. Cpp(S[e + 1], "pop") = S[e + 1]
        BY <2>8 DEF Cpp
    <3> QED
        BY <2>3, <2>6, <3>1 DEF SameState
  <2> DEFINE d == [Append(z, c)[n] EXCEPT !.live = Append(z, c)[n].outer /\ ~@]
             w == [Append(z, c) EXCEPT ![n] = d]
  <2>10. d.live <=> live
      BY <1>2, <2>2, <2>7 DEF Conds
  <2>11. Len(w) = n /\ w[n] = d /\ w # << >>
    <3> HIDE DEF d
    <3> QED
        BY <2>5, <2>7
  <2>12. /\ S[e + 3].conds = w /\ S[e + 3].pack = S[e].pack /\ S[e + 3].saved = << >>
    <3>1. Cpp(S[e + 2], "else") = [S[e + 2] EXCEPT !.conds = w]
        BY <2>7, <2>9 DEF Cpp
    <3> HIDE DEF w
    <3> QED
        BY <2>3, <2>4, <2>9, <3>1 DEF SameState, CppStates
  <2> HIDE DEF d, w
  <2>13. LiveIn(S[e + 3]) <=> live
      BY <2>10, <2>11, <2>12 DEF LiveIn
  <2>14. Cpp(S[e + 3], "reset") = IF LiveIn(S[e + 3]) THEN [S[e + 3] EXCEPT !.pack = 0] ELSE S[e + 3]
      BY DEF Cpp, Directive
  <2>15. Unpacked(S[e + 4])
      BY <1>2, <1>5, <2>3, <2>4, <2>12, <2>13, <2>14 DEF SameState, Unpacked, CppStates
  <2>16. q.reset + 1 = e + 4
      BY <1>1, <2>1
  <2> QED
      BY <1>3, <1>4, <2>15, <2>16 DEF RegionRuns, o, e, live
<1> QED
    BY <1>1, <1>7, <1>8

\* The line i lies in the packed part of a region.
InRegion(i) == \E q \in Regions : q.open < i /\ i <= q.reset

\* An opener lies in no other region.
LEMMA OpenOutside ==
    ASSUME TextShaped, NEW q \in Regions
    PROVE  ~InRegion(q.open)
<1> SUFFICES ASSUME NEW p \in Regions, p.open < q.open, q.open <= p.reset
             PROVE  FALSE
    BY DEF InRegion
<1>1. RegionShape(p) /\ RegionShape(q)
    BY DEF TextShaped
<1>2. packText[q.open] = "open" /\ q.open \in 1 .. TextLen /\ TextLen \in Nat
    BY <1>1 DEF RegionShape, RegionFrame, TextShaped, TextLen
<1>3. p.open \in 1 .. TextLen /\ p.bodyEnd \in p.open + 1 .. TextLen
      /\ \A i \in p.open + 1 .. p.bodyEnd - 1 : packText[i] = "record"
    BY <1>1 DEF RegionShape, RegionFrame
<1>4. q.open \notin p.open + 1 .. p.bodyEnd - 1
    BY <1>2, <1>3
<1>5. q.open >= p.bodyEnd
    BY <1>2, <1>3, <1>4
<1>6. CASE ~p.guarded
  <2>1. q.open = p.bodyEnd /\ packText[p.bodyEnd] = "reset"
      BY <1>1, <1>2, <1>3, <1>5, <1>6 DEF RegionShape, RegionFrame
  <2> QED
      BY <1>2, <2>1
<1>7. CASE p.guarded
  <2>1. /\ p.reset = p.bodyEnd + 3
        /\ packText[p.bodyEnd] = "if" /\ packText[p.bodyEnd + 1] = "pop"
        /\ packText[p.bodyEnd + 2] = "else" /\ packText[p.bodyEnd + 3] = "reset"
      BY <1>1, <1>7 DEF RegionShape, RegionFrame
  <2>2. q.open \in {p.bodyEnd, p.bodyEnd + 1, p.bodyEnd + 2, p.bodyEnd + 3}
      BY <1>2, <1>3, <1>5, <2>1
  <2> QED
      BY <1>2, <2>1, <2>2
<1> QED
    BY <1>6, <1>7

\* The push before an opener is skipped.
LEMMA PrefixIdle ==
    ASSUME TextShaped, NEW S, BuildWalk(S), NEW q \in Regions, q.guarded, q.first = q.open - 3, q.first \in Nat \ {0}
    PROVE  ~LiveIn(S[q.open - 2])
<1> DEFINE o == q.open
           a == o - 3
<1>1. /\ TextLen \in Nat /\ o \in 1 .. TextLen /\ a \in 1 .. TextLen /\ a + 3 = o
      /\ packText[a] = "if" /\ packText[a + 1] = "push" /\ packText[a + 2] = "endif"
  <2>1. RegionShape(q) /\ TextLen \in Nat
      BY DEF TextShaped, TextLen
  <2>2. o \in 1 .. TextLen /\ a \in 1 .. TextLen /\ a + 3 = o /\ o - 2 = a + 1 /\ o - 1 = a + 2 /\ q.first # o
      BY <2>1 DEF RegionShape, RegionFrame
  <2>3. packText[o - 3] = "if" /\ packText[o - 2] = "push" /\ packText[o - 1] = "endif"
      BY <2>1, <2>2 DEF RegionShape, RegionFrame
  <2> QED
      BY <2>1, <2>2, <2>3
<1>2. q.guarded /\ LiveIn(S[o]) => ~S[o].x
    BY DEF BuildWalk
<1>3. o - 2 = a + 1
    BY <1>1
<1> HIDE DEF o, a
<1>4. /\ S[a] \in CppStates /\ S[a + 1] \in CppStates /\ S[a + 2] \in CppStates
      /\ SameState(S[a + 1], Cpp(S[a], "if")) /\ SameState(S[a + 2], Cpp(S[a + 1], "push"))
      /\ SameState(S[o], Cpp(S[a + 2], "endif"))
  <2>1. ASSUME NEW i \in 1 .. TextLen
        PROVE  S[i] \in CppStates /\ SameState(S[i + 1], Cpp(S[i], packText[i]))
      BY <1>1 DEF BuildWalk
  <2>2. a + 1 \in 1 .. TextLen /\ (a + 1) + 1 = a + 2 /\ a + 2 \in 1 .. TextLen /\ (a + 2) + 1 = o
      BY <1>1
  <2>3. S[a] \in CppStates /\ SameState(S[a + 1], Cpp(S[a], packText[a]))
      BY <1>1, <2>1
  <2>4. S[a + 1] \in CppStates /\ SameState(S[a + 2], Cpp(S[a + 1], packText[a + 1]))
      BY <2>1, <2>2
  <2>5. S[a + 2] \in CppStates /\ SameState(S[o], Cpp(S[a + 2], packText[a + 2]))
      BY <2>1, <2>2
  <2> QED
      BY <1>1, <2>3, <2>4, <2>5
<1> DEFINE c == [live |-> LiveIn(S[a]) /\ S[a].x, outer |-> LiveIn(S[a])]
           z == S[a].conds
<1>5. z \in Seq(Conds) /\ c \in Conds /\ S[a].x \in BOOLEAN /\ LiveIn(S[a]) \in BOOLEAN
  <2>1. z \in Seq(Conds) /\ S[a].x \in BOOLEAN /\ LiveIn(S[a]) \in BOOLEAN
      BY <1>4, LiveIsBoolean DEF CppStates
  <2> QED
      BY <2>1 DEF Conds
<1>6. S[a + 1].conds = Append(z, c) /\ S[a + 1].x = S[a].x
  <2>1. Cpp(S[a], "if") = [S[a] EXCEPT !.conds = Append(@, c)]
      BY DEF Cpp
  <2> HIDE DEF c
  <2> QED
      BY <1>4, <2>1 DEF SameState, CppStates
<1>7. LiveIn(S[a + 1]) <=> LiveIn(S[a]) /\ S[a].x
  <2>1. c.live = (LiveIn(S[a]) /\ S[a].x)
      OBVIOUS
  <2> HIDE DEF c
  <2>2. Append(z, c) # << >> /\ Append(z, c)[Len(Append(z, c))] = c
      BY <1>5
  <2> QED
      BY <1>6, <2>1, <2>2 DEF LiveIn
<1> HIDE DEF c, z
<1>8. S[a + 2].conds = Append(z, c) /\ S[a + 2].x = S[a].x
  <2>1. Cpp(S[a + 1], "push") = IF LiveIn(S[a + 1])
                                 THEN [S[a + 1] EXCEPT !.saved = Append(@, S[a + 1].pack)] ELSE S[a + 1]
      BY DEF Cpp, Directive
  <2>2. Cpp(S[a + 1], "push").conds = S[a + 1].conds /\ Cpp(S[a + 1], "push").x = S[a + 1].x
      BY <1>4, <2>1 DEF CppStates
  <2> QED
      BY <1>4, <1>6, <2>2 DEF SameState
<1>9. S[o].conds = z /\ S[o].x = S[a].x
  <2>1. Cpp(S[a + 2], "endif") = [S[a + 2] EXCEPT !.conds = Front(@)]
      BY DEF Cpp
  <2>2. Front(Append(z, c)) = z
      BY <1>5, FrontIs
  <2> QED
      BY <1>4, <1>8, <2>1, <2>2 DEF SameState, CppStates
<1>10. LiveIn(S[o]) <=> LiveIn(S[a])
    BY <1>9 DEF LiveIn, z
<1> QED
    BY <1>2, <1>3, <1>7, <1>9, <1>10 DEF o

\* One line further outside the regions.
LEMMA FlatStep ==
    ASSUME TextShaped, NEW S, BuildWalk(S), NEW i \in 1 .. TextLen, ~InRegion(i), ~InRegion(i + 1), Unpacked(S[i])
    PROVE  Unpacked(S[i + 1])
<1> DEFINE k == packText[i]
<1>1. TextLen \in Nat /\ S[i] \in CppStates /\ SameState(S[i + 1], Cpp(S[i], k))
    BY DEF TextShaped, TextLen, BuildWalk
<1>2. k # "op" /\ (k \in PackLines => \E q \in Regions : i \in q.owned)
  <2>1. \A j \in 1 .. TextLen : /\ packText[j] # "op"
                                /\ packText[j] \in PackLines => \E q \in Regions : j \in q.owned
      BY DEF TextShaped
  <2>2. packText[i] # "op" /\ (packText[i] \in PackLines => \E q \in Regions : i \in q.owned)
      BY <2>1
  <2> QED
      BY <2>2
<1>3. LiveIn(S[i]) => k \notin PackLines
  <2>1. SUFFICES ASSUME LiveIn(S[i]), k \in PackLines PROVE FALSE
      OBVIOUS
  <2>2. PICK q \in Regions : i \in q.owned
      BY <1>2, <2>1
  <2>3. RegionShape(q)
      BY DEF TextShaped
  <2>4. /\ q.open \in 1 .. TextLen /\ q.bodyEnd \in q.open + 1 .. TextLen
        /\ q.reset \in {q.bodyEnd, q.bodyEnd + 3} /\ (q.guarded => q.reset = q.bodyEnd + 3)
      BY <2>3 DEF RegionShape, RegionFrame
  <2>5. \/ i \in {q.open, q.reset}
        \/ q.guarded /\ (i = q.bodyEnd + 1 \/ (i = q.open - 2 /\ q.first = q.open - 3))
      BY <2>2, <2>3 DEF RegionShape, RegionFrame
  <2>6. CASE i = q.open
    <3>1. q.open < i + 1 /\ i + 1 <= q.reset
        BY <1>1, <2>4, <2>6
    <3> QED
        BY <3>1 DEF InRegion
  <2>7. CASE i = q.reset \/ (q.guarded /\ i = q.bodyEnd + 1)
    <3>1. q.open < i /\ i <= q.reset
        BY <1>1, <2>4, <2>7
    <3> QED
        BY <3>1 DEF InRegion
  <2>8. CASE q.guarded /\ i = q.open - 2 /\ q.first = q.open - 3
    <3>1. q.first \in Nat \ {0}
        BY <1>1, <2>3, <2>4, <2>8 DEF RegionShape, RegionFrame
    <3> QED
        BY <2>1, <2>8, <3>1, PrefixIdle
  <2> QED
      BY <2>5, <2>6, <2>7, <2>8
<1>4. Cpp(S[i], k).pack = S[i].pack /\ Cpp(S[i], k).saved = S[i].saved
  <2>1. CASE k \in {"if", "else", "endif"}
    <3>1. PICK c : Cpp(S[i], k) = [S[i] EXCEPT !.conds = c]
        BY <2>1 DEF Cpp
    <3> QED
        BY <1>1, <3>1 DEF CppStates
  <2>2. CASE k \notin {"if", "else", "endif"} /\ LiveIn(S[i])
    <3>1. Cpp(S[i], k) = Directive(S[i], k)
        BY <2>2 DEF Cpp
    <3>2. k \notin {"push", "pop", "open", "reset", "pack4", "op"}
        BY <1>2, <1>3, <2>2 DEF PackLines
    <3>3. Directive(S[i], k) \in {S[i], [S[i] EXCEPT !.x = (k = "define")], [S[i] EXCEPT !.error = @ \/ S[i].x]}
        BY <3>2 DEF Directive
    <3>4. CASE Directive(S[i], k) = S[i]
        BY <3>1, <3>4
    <3>5. CASE Directive(S[i], k) = [S[i] EXCEPT !.x = (k = "define")]
        BY <1>1, <3>1, <3>5 DEF CppStates
    <3>6. CASE Directive(S[i], k) = [S[i] EXCEPT !.error = @ \/ S[i].x]
        BY <1>1, <3>1, <3>6 DEF CppStates
    <3> QED
        BY <3>3, <3>4, <3>5, <3>6
  <2>3. CASE k \notin {"if", "else", "endif"} /\ ~LiveIn(S[i])
      BY <2>3 DEF Cpp
  <2> QED
      BY <2>1, <2>2, <2>3
<1> QED
    BY <1>1, <1>4 DEF SameState, Unpacked

\* Outside the regions nothing is packed, in whatever build.
LEMMA OutsideFlat ==
    ASSUME TextShaped, NEW S, BuildWalk(S), NEW j \in 1 .. TextLen + 1, ~InRegion(j)
    PROVE  Unpacked(S[j])
<1>0. TextLen \in Nat
    BY DEF TextShaped, TextLen
<1> DEFINE T == {n \in 0 .. TextLen : \A i \in 1 .. n + 1 : ~InRegion(i) => Unpacked(S[i])}
<1>1. 0 \in T
    BY <1>0 DEF BuildWalk, Unpacked
<1>2. ASSUME NEW n \in 1 .. TextLen, n - 1 \in T
      PROVE  n \in T
  <2>1. \A i \in 1 .. n : ~InRegion(i) => Unpacked(S[i])
      BY <1>2
  <2>2. ASSUME ~InRegion(n + 1)
        PROVE  Unpacked(S[n + 1])
    <3>1. CASE ~InRegion(n)
        BY <1>0, <2>1, <2>2, <3>1, FlatStep
    <3>2. CASE InRegion(n)
      <4>1. PICK q \in Regions : q.open < n /\ n <= q.reset
          BY <3>2 DEF InRegion
      <4>2. RegionShape(q)
          BY DEF TextShaped
      <4>3. q.open \in 1 .. TextLen /\ q.reset \in Nat
          BY <1>0, <4>2 DEF RegionShape, RegionFrame
      <4>4. ~(n + 1 <= q.reset)
        <5>1. q.open < n + 1
            BY <4>1, <4>3
        <5> QED
            BY <2>2, <5>1 DEF InRegion
      <4>5. n = q.reset
          BY <4>1, <4>3, <4>4
      <4>6. q.open \in 1 .. n
          BY <4>1, <4>3
      <4>7. Unpacked(S[q.open])
          BY <2>1, <4>6, OpenOutside
      <4>8. RegionRuns(S, q)
          BY <4>7, RegionIsRun
      <4> QED
          BY <4>5, <4>8 DEF RegionRuns
    <3> QED
        BY <3>1, <3>2
  <2>3. ASSUME NEW i \in 1 .. n + 1, ~InRegion(i)
        PROVE  Unpacked(S[i])
    <3>1. CASE i = n + 1
        BY <2>2, <2>3, <3>1
    <3>2. CASE i \in 1 .. n
        BY <2>1, <2>3, <3>2
    <3> QED
        BY <3>1, <3>2
  <2> QED
      BY <2>3
<1>3. TextLen \in T
  <2> HIDE DEF T
  <2> QED
      BY <1>0, <1>1, <1>2, Induction
<1> QED
    BY <1>3

\* Two builds of the text pack a record alike where both compile it.
LEMMA SameLayout ==
    ASSUME TextShaped, NEW S, BuildWalk(S), NEW U, BuildWalk(U), NEW i \in 1 .. TextLen,
           packText[i] = "record", LiveIn(S[i]), LiveIn(U[i])
    PROVE  S[i].pack = U[i].pack
<1>0. TextLen \in Nat
    BY DEF TextShaped, TextLen
<1>1. CASE ~InRegion(i)
  <2>1. i \in 1 .. TextLen + 1
      BY <1>0
  <2>2. Unpacked(S[i]) /\ Unpacked(U[i])
      BY <1>1, <2>1, OutsideFlat
  <2> QED
      BY <2>2 DEF Unpacked
<1>2. CASE InRegion(i)
  <2>1. PICK q \in Regions : q.open < i /\ i <= q.reset
      BY <1>2 DEF InRegion
  <2>2. RegionShape(q)
      BY DEF TextShaped
  <2>3. q.open \in 1 .. TextLen /\ q.bodyEnd \in q.open + 1 .. TextLen
      BY <2>2 DEF RegionShape, RegionFrame
  <2>4. i \in q.open + 1 .. q.bodyEnd
    <3>1. CASE ~q.guarded
        BY <1>0, <2>1, <2>2, <2>3, <3>1 DEF RegionShape, RegionFrame
    <3>2. CASE q.guarded
      <4>1. /\ q.reset = q.bodyEnd + 3
            /\ packText[q.bodyEnd + 1] = "pop"
            /\ packText[q.bodyEnd + 2] = "else" /\ packText[q.bodyEnd + 3] = "reset"
          BY <2>2, <3>2 DEF RegionShape, RegionFrame
      <4>2. i \notin {q.bodyEnd + 1, q.bodyEnd + 2, q.bodyEnd + 3}
          BY <4>1
      <4> QED
          BY <1>0, <2>1, <2>3, <4>1, <4>2
    <3> QED
        BY <2>2, <3>1, <3>2 DEF RegionShape, RegionFrame
  <2>5. Unpacked(S[q.open]) /\ Unpacked(U[q.open])
    <3>1. q.open \in 1 .. TextLen + 1
        BY <1>0, <2>3
    <3> QED
        BY <3>1, OpenOutside, OutsideFlat
  <2>6. RegionRuns(S, q) /\ RegionRuns(U, q)
      BY <2>5, RegionIsRun
  <2> QED
      BY <2>4, <2>6 DEF RegionRuns
<1> QED
    BY <1>1, <1>2

-----------------------------------------------------------------------------
\* The guards before line i of the text, where that line is in the output, and the output's length.
GuardsUpTo(i) == Cardinality({o \in inserts : o <= i})
PlaceOf(i) == i + GuardsUpTo(i)
OutputLen == TextLen + Cardinality(inserts)

\* The guards go before lines of the text.
GuardsOK == packText \in Seq(PackKinds) /\ inserts \subseteq 1 .. TextLen

\* One more line has at most one more guard before it.
LEMMA GuardedIs ==
    ASSUME GuardsOK
    PROVE  /\ TextLen \in Nat /\ Cardinality(inserts) \in Nat
           /\ GuardsUpTo(0) = 0 /\ GuardsUpTo(TextLen) = Cardinality(inserts)
           /\ \A i \in 0 .. TextLen : GuardsUpTo(i) \in Nat
           /\ \A i, j \in 0 .. TextLen : i <= j => GuardsUpTo(i) <= GuardsUpTo(j)
           /\ \A i \in 1 .. TextLen : GuardsUpTo(i) = GuardsUpTo(i - 1) + (IF i \in inserts THEN 1 ELSE 0)
<1> DEFINE G(i) == {o \in inserts : o <= i}
<1>1. TextLen \in Nat
    BY DEF GuardsOK, TextLen
<1>a. \A o \in inserts : o \in 1 .. TextLen
    BY DEF GuardsOK
<1>2. IsFiniteSet(1 .. TextLen)
    BY <1>1, FS_Interval
<1>3. IsFiniteSet(inserts) /\ Cardinality(inserts) \in Nat
    BY <1>2, FS_Subset, FS_CardinalityType DEF GuardsOK
<1>4. \A i : IsFiniteSet(G(i)) /\ Cardinality(G(i)) \in Nat
    BY <1>3, FS_Subset, FS_CardinalityType
<1>5. G(0) = {} /\ G(TextLen) = inserts
  <2>1. \A o \in inserts : ~(o <= 0) /\ o <= TextLen
      BY <1>1, <1>a
  <2> QED
      BY <2>1
<1>6. \A i, j \in 0 .. TextLen : i <= j => Cardinality(G(i)) <= Cardinality(G(j))
  <2>1. \A i, j \in 0 .. TextLen : i <= j => G(i) \subseteq G(j)
    <3>1. \A i, j \in 0 .. TextLen : \A o \in inserts : i <= j /\ o <= i => o <= j
        BY <1>1, <1>a
    <3> QED
        BY <3>1
  <2> HIDE DEF G
  <2> QED
      BY <1>4, <2>1, FS_Subset
<1>7. ASSUME NEW i \in 1 .. TextLen
      PROVE  Cardinality(G(i)) = Cardinality(G(i - 1)) + (IF i \in inserts THEN 1 ELSE 0)
  <2>1. CASE i \in inserts
    <3>1. G(i) = G(i - 1) \cup {i} /\ i \notin G(i - 1)
      <4>1. \A o \in inserts : (o <= i <=> o <= i - 1 \/ o = i)
          BY <1>1, <1>a
      <4>2. ~(i <= i - 1)
          BY <1>1
      <4> QED
          BY <2>1, <4>1, <4>2
    <3> HIDE DEF G
    <3> QED
        BY <1>4, <2>1, <3>1, FS_AddElement
  <2>2. CASE i \notin inserts
    <3>1. G(i) = G(i - 1)
      <4>1. \A o \in inserts : (o <= i <=> o <= i - 1)
          BY <1>1, <1>a, <2>2
      <4> QED
          BY <4>1
    <3>2. Cardinality(G(i)) \in Nat
        BY <1>4
    <3> HIDE DEF G
    <3> QED
        BY <2>2, <3>1, <3>2
  <2> QED
      BY <2>1, <2>2
<1>8. \A i : GuardsUpTo(i) = Cardinality(G(i))
    BY DEF GuardsUpTo
<1> HIDE DEF G
<1> QED
    BY <1>1, <1>3, <1>4, <1>5, <1>6, <1>7, <1>8, FS_EmptySet

\* The lines keep their order in the output, and a guard stands right before its line.
LEMMA BeforeIs ==
    ASSUME GuardsOK
    PROVE  /\ OutputLen \in Nat
           /\ \A i \in 1 .. TextLen : PlaceOf(i) \in 1 .. OutputLen
           /\ \A i, j \in 1 .. TextLen : i < j => PlaceOf(i) < PlaceOf(j)
           /\ \A i \in inserts : PlaceOf(i) - 1 \in 1 .. OutputLen /\ \A j \in 1 .. TextLen : PlaceOf(j) # PlaceOf(i) - 1
           /\ TextLen # 0 => PlaceOf(TextLen) = OutputLen /\ PlaceOf(1) = IF 1 \in inserts THEN 2 ELSE 1
           /\ \A i \in 1 .. TextLen : i + 1 <= TextLen =>
                 PlaceOf(i + 1) = PlaceOf(i) + (IF i + 1 \in inserts THEN 2 ELSE 1)
<1>1. /\ TextLen \in Nat /\ Cardinality(inserts) \in Nat
      /\ GuardsUpTo(0) = 0 /\ GuardsUpTo(TextLen) = Cardinality(inserts)
      /\ \A i \in 0 .. TextLen : GuardsUpTo(i) \in Nat
      /\ \A i, j \in 0 .. TextLen : i <= j => GuardsUpTo(i) <= GuardsUpTo(j)
      /\ \A i \in 1 .. TextLen : GuardsUpTo(i) = GuardsUpTo(i - 1) + (IF i \in inserts THEN 1 ELSE 0)
    BY GuardedIs
<1>2. OutputLen \in Nat /\ OutputLen = TextLen + GuardsUpTo(TextLen)
    BY <1>1 DEF OutputLen
<1>3. ASSUME NEW i \in 1 .. TextLen
      PROVE  PlaceOf(i) \in 1 .. OutputLen /\ PlaceOf(i) = i + GuardsUpTo(i) /\ GuardsUpTo(i) \in Nat
  <2>1. i \in 0 .. TextLen /\ TextLen \in 0 .. TextLen /\ i <= TextLen
      BY <1>1
  <2>2. GuardsUpTo(i) <= GuardsUpTo(TextLen) /\ GuardsUpTo(i) \in Nat /\ GuardsUpTo(TextLen) \in Nat
      BY <1>1, <2>1
  <2> QED
      BY <1>1, <1>2, <2>1, <2>2 DEF PlaceOf
<1>4. ASSUME NEW i \in 1 .. TextLen, NEW j \in 1 .. TextLen, i < j
      PROVE  PlaceOf(i) < PlaceOf(j)
  <2>1. i \in 0 .. TextLen /\ j \in 0 .. TextLen /\ i <= j
      BY <1>1, <1>4
  <2>2. GuardsUpTo(i) <= GuardsUpTo(j) /\ GuardsUpTo(i) \in Nat /\ GuardsUpTo(j) \in Nat
      BY <1>1, <2>1
  <2> QED
      BY <1>1, <1>4, <2>2 DEF PlaceOf
<1>5. ASSUME NEW i \in 1 .. TextLen, i + 1 <= TextLen
      PROVE  PlaceOf(i + 1) = PlaceOf(i) + (IF i + 1 \in inserts THEN 2 ELSE 1)
  <2>1. i + 1 \in 1 .. TextLen /\ (i + 1) - 1 = i
      BY <1>1, <1>5
  <2>2. GuardsUpTo(i + 1) = GuardsUpTo(i) + (IF i + 1 \in inserts THEN 1 ELSE 0)
      BY <1>1, <2>1
  <2>3. GuardsUpTo(i) \in Nat
      BY <1>3
  <2> QED
      BY <1>1, <2>2, <2>3 DEF PlaceOf
<1>6. ASSUME TextLen # 0
      PROVE  PlaceOf(TextLen) = OutputLen /\ PlaceOf(1) = IF 1 \in inserts THEN 2 ELSE 1
  <2>1. 1 \in 1 .. TextLen /\ 1 - 1 = 0
      BY <1>1, <1>6
  <2>2. GuardsUpTo(1) = GuardsUpTo(0) + (IF 1 \in inserts THEN 1 ELSE 0)
      BY <1>1, <2>1
  <2> QED
      BY <1>1, <1>2, <2>2 DEF PlaceOf
<1>7. ASSUME NEW i \in inserts
      PROVE  PlaceOf(i) - 1 \in 1 .. OutputLen /\ \A j \in 1 .. TextLen : PlaceOf(j) # PlaceOf(i) - 1
  <2>1. i \in 1 .. TextLen
      BY DEF GuardsOK
  <2>2. PlaceOf(i) \in 1 .. OutputLen
      BY <1>3, <2>1
  <2>3. CASE i = 1
    <3>1. PlaceOf(1) = 2
        BY <1>1, <1>6, <1>7, <2>1, <2>3
    <3>2. \A j \in 1 .. TextLen : j = 1 \/ (1 < j /\ PlaceOf(1) < PlaceOf(j) /\ PlaceOf(j) \in 1 .. OutputLen)
        BY <1>1, <1>3, <1>4, <2>1, <2>3
    <3> QED
        BY <1>2, <2>2, <2>3, <3>1, <3>2
  <2>4. CASE i # 1
    <3>1. PICK p \in 1 .. TextLen : p + 1 = i /\ p < i /\ p + 1 <= TextLen
      <4>1. i - 1 \in 1 .. TextLen /\ (i - 1) + 1 = i
          BY <1>1, <2>1, <2>4
      <4> QED
          BY <1>1, <2>1, <4>1
    <3>2. PlaceOf(i) = PlaceOf(p) + 2
        BY <1>5, <1>7, <3>1
    <3>3. PlaceOf(p) \in 1 .. OutputLen
        BY <1>3
    <3>4. ASSUME NEW j \in 1 .. TextLen
          PROVE  PlaceOf(j) # PlaceOf(i) - 1
      <4>1. PlaceOf(j) \in 1 .. OutputLen
          BY <1>3
      <4>2. j < p \/ j = p \/ j = i \/ i < j
          BY <1>1, <2>1, <3>1
      <4>3. j < p => PlaceOf(j) < PlaceOf(p)
          BY <1>4
      <4>4. i < j => PlaceOf(i) < PlaceOf(j)
          BY <1>4, <2>1
      <4> QED
          BY <1>2, <2>2, <3>2, <3>3, <4>1, <4>2, <4>3, <4>4
    <3> QED
        BY <1>2, <2>2, <3>2, <3>3, <3>4
  <2> QED
      BY <2>3, <2>4
<1> QED
    BY <1>2, <1>3, <1>4, <1>5, <1>6, <1>7

\* The kinds of the lines of the output.
OutputKinds == [k \in DOMAIN Output |-> Output[k].kind]

\* A record of the output is a record of the text.
LEMMA OutputIs ==
    ASSUME GuardsOK
    PROVE  /\ DOMAIN Output = 1 .. OutputLen
           /\ OutputKinds \in Seq(PackKinds \cup {"guard"}) /\ Len(OutputKinds) = OutputLen
           /\ \A i \in 1 .. TextLen : OutputKinds[PlaceOf(i)] = packText[i]
           /\ \A i \in inserts : OutputKinds[PlaceOf(i) - 1] = "guard"
           /\ \A k \in 1 .. OutputLen : Output[k].kind = "record" =>
                 Output[k].at \in 1 .. TextLen /\ PlaceOf(Output[k].at) = k /\ packText[Output[k].at] = "record"
<1>1. /\ OutputLen \in Nat /\ TextLen \in Nat /\ DOMAIN packText = 1 .. TextLen
      /\ \A i \in 1 .. TextLen : packText[i] \in PackKinds
    BY BeforeIs DEF GuardsOK, TextLen
<1> DEFINE from(k) == {i \in 1 .. TextLen : PlaceOf(i) = k}
           item(k) == IF from(k) = {} THEN [kind |-> "guard", at |-> 0]
                      ELSE LET i == CHOOSE j \in from(k) : TRUE IN [kind |-> packText[i], at |-> i]
<1>2. Output = [k \in 1 .. OutputLen |-> item(k)]
    BY <1>1 DEF Output, PlaceOf, GuardsUpTo, OutputLen, TextLen
<1>3. \A k : from(k) # {} => \E i \in 1 .. TextLen : PlaceOf(i) = k /\ item(k) = [kind |-> packText[i], at |-> i]
  <2>1. SUFFICES ASSUME NEW k, from(k) # {}
                 PROVE  \E i \in 1 .. TextLen : PlaceOf(i) = k /\ item(k) = [kind |-> packText[i], at |-> i]
      OBVIOUS
  <2> DEFINE i == CHOOSE j \in from(k) : TRUE
  <2>2. i \in from(k)
      BY <2>1
  <2>3. item(k) = [kind |-> packText[i], at |-> i]
      BY <2>1
  <2> HIDE DEF i, item
  <2> QED
      BY <2>2, <2>3
<1>4. \A k : from(k) = {} => item(k) = [kind |-> "guard", at |-> 0]
    OBVIOUS
<1>5. \A k : from(k) = {} <=> \A i \in 1 .. TextLen : PlaceOf(i) # k
    OBVIOUS
<1> HIDE DEF from, item
<1>6. DOMAIN Output = 1 .. OutputLen /\ \A k \in 1 .. OutputLen : Output[k] = item(k)
    BY <1>2
<1>7. OutputKinds = [k \in 1 .. OutputLen |-> Output[k].kind]
    BY <1>6 DEF OutputKinds
<1>8. ASSUME NEW k \in 1 .. OutputLen
      PROVE  Output[k].kind \in PackKinds \cup {"guard"}
  <2>1. CASE from(k) = {}
      BY <1>4, <1>6, <2>1
  <2>2. CASE from(k) # {}
    <3>1. PICK i \in 1 .. TextLen : PlaceOf(i) = k /\ item(k) = [kind |-> packText[i], at |-> i]
        BY <1>3, <2>2
    <3> QED
        BY <1>1, <1>6, <3>1
  <2> QED
      BY <2>1, <2>2
<1>9. OutputKinds \in Seq(PackKinds \cup {"guard"}) /\ Len(OutputKinds) = OutputLen
    BY <1>1, <1>7, <1>8
<1>10. ASSUME NEW i \in 1 .. TextLen
       PROVE  OutputKinds[PlaceOf(i)] = packText[i]
  <2>1. PlaceOf(i) \in 1 .. OutputLen
      BY BeforeIs
  <2>2. PICK j \in 1 .. TextLen : PlaceOf(j) = PlaceOf(i) /\ item(PlaceOf(i)) = [kind |-> packText[j], at |-> j]
      BY <1>3, <1>5
  <2>3. j = i
    <3>1. PlaceOf(j) \in 1 .. OutputLen /\ (i < j => PlaceOf(i) < PlaceOf(j)) /\ (j < i => PlaceOf(j) < PlaceOf(i))
        BY BeforeIs
    <3> QED
        BY <1>1, <2>1, <2>2, <3>1
  <2> QED
      BY <1>6, <1>7, <2>1, <2>2, <2>3
<1>11. ASSUME NEW i \in inserts
       PROVE  OutputKinds[PlaceOf(i) - 1] = "guard"
  <2>1. PlaceOf(i) - 1 \in 1 .. OutputLen /\ \A j \in 1 .. TextLen : PlaceOf(j) # PlaceOf(i) - 1
      BY BeforeIs
  <2> QED
      BY <1>4, <1>5, <1>6, <1>7, <2>1
<1>12. ASSUME NEW k \in 1 .. OutputLen, Output[k].kind = "record"
       PROVE  Output[k].at \in 1 .. TextLen /\ PlaceOf(Output[k].at) = k /\ packText[Output[k].at] = "record"
  <2>1. from(k) # {}
      BY <1>4, <1>6, <1>12
  <2>2. PICK i \in 1 .. TextLen : PlaceOf(i) = k /\ item(k) = [kind |-> packText[i], at |-> i]
      BY <1>3, <2>1
  <2> QED
      BY <1>6, <1>12, <2>2
<1> QED
    BY <1>6, <1>9, <1>10, <1>11, <1>12

\* A guard that fired stops the build.
LEMMA ErrorStays ==
    ASSUME NEW t, NEW K, t \in Seq(K), NEW x \in BOOLEAN,
           NEW k \in 1 .. Len(t) + 1, Compiled(t, x)[k].error
    PROVE  Compiled(t, x)[Len(t) + 1].error
<1> DEFINE M == Len(t)
           c == Compiled(t, x)
           T == {n \in 0 .. M + 1 - k : c[k + n].error}
<1>1. M \in Nat /\ k \in 1 .. M + 1
    OBVIOUS
<1>2. /\ \A i \in 1 .. M : c[i + 1] = Cpp(c[i], t[i])
      /\ \A i \in 1 .. M + 1 : c[i] \in CppStates
    BY CompiledIs
<1>3. c[k].error
    OBVIOUS
<1> HIDE DEF M, c
<1>4. 0 \in T
    BY <1>1, <1>3
<1>5. ASSUME NEW n \in 1 .. M + 1 - k, n - 1 \in T
      PROVE  n \in T
  <2>1. PICK i \in 1 .. M : i = k + (n - 1) /\ i + 1 = k + n
      BY <1>1
  <2>2. c[i].error /\ c[i] \in CppStates
      BY <1>1, <1>2, <1>5, <2>1
  <2>3. Cpp(c[i], t[i]).error
    <3>1. ASSUME NEW st \in CppStates, st.error, NEW kind
          PROVE  Directive(st, kind).error
      <4>1. CASE kind = "pop"
        <5>1. CASE st.saved = << >>
            BY <3>1, <4>1, <5>1 DEF Directive
        <5>2. CASE st.saved # << >>
            BY <3>1, <4>1, <5>2 DEF Directive, CppStates
        <5> QED
            BY <5>1, <5>2
      <4>2. CASE kind # "pop"
          BY <3>1, <4>2 DEF Directive, CppStates
      <4> QED
          BY <4>1, <4>2
    <3>2. CASE t[i] \in {"if", "else", "endif"}
      <4>1. PICK d : Cpp(c[i], t[i]) = [c[i] EXCEPT !.conds = d]
          BY <3>2 DEF Cpp
      <4> QED
          BY <2>2, <4>1 DEF CppStates
    <3>3. CASE t[i] \notin {"if", "else", "endif"}
      <4>1. Cpp(c[i], t[i]) = IF LiveIn(c[i]) THEN Directive(c[i], t[i]) ELSE c[i]
          BY <3>3 DEF Cpp
      <4> QED
          BY <2>2, <3>1, <4>1
    <3> QED
        BY <3>2, <3>3
  <2>4. c[k + n].error
      BY <1>2, <2>1, <2>3
  <2> QED
      BY <2>4
<1>6. M + 1 - k \in T
  <2>1. PICK m \in Nat : m = M + 1 - k
      BY <1>1
  <2> HIDE DEF T
  <2>2. \A n \in 1 .. m : n - 1 \in T => n \in T
      BY <1>5, <2>1
  <2>3. \A n \in 0 .. m : n \in T
      BY <1>4, <2>2, Induction
  <2> QED
      BY <2>1, <2>3
<1>7. c[k + (M + 1 - k)].error /\ k + (M + 1 - k) = M + 1
    BY <1>1, <1>6
<1>8. c[M + 1].error
    BY <1>7
<1> QED
    BY <1>8 DEF c, M

\* The state of a build of the output before line i of the text.
OutputBuild(d) == [i \in 1 .. TextLen + 1 |-> IF i = TextLen + 1 THEN Compiled(OutputKinds, d)[OutputLen + 1]
                                              ELSE Compiled(OutputKinds, d)[PlaceOf(i)]]

\* A guard changes nothing, or stops the build.
LEMMA GuardLine ==
    ASSUME NEW st \in CppStates
    PROVE  /\ SameState(Cpp(st, "guard"), st)
           /\ LiveIn(st) /\ st.x => Cpp(st, "guard").error
  BY DEF Cpp, Directive, SameState, CppStates

\* A build of the output that no guard stops reads the text like any other.
LEMMA BuiltWalks ==
    ASSUME TextShaped, GuardsOK, TextLen # 0, \A q \in Regions : q.guarded => q.open \in inserts,
           NEW d \in BOOLEAN, ~Compiled(OutputKinds, d)[OutputLen + 1].error
    PROVE  BuildWalk(OutputBuild(d))
<1> DEFINE b == Compiled(OutputKinds, d)
           S == OutputBuild(d)
<1>1. /\ OutputLen \in Nat
      /\ \A i \in 1 .. TextLen : PlaceOf(i) \in 1 .. OutputLen
      /\ \A i \in inserts : PlaceOf(i) - 1 \in 1 .. OutputLen
      /\ PlaceOf(TextLen) = OutputLen /\ PlaceOf(1) = IF 1 \in inserts THEN 2 ELSE 1
      /\ \A i \in 1 .. TextLen : i + 1 <= TextLen =>
            PlaceOf(i + 1) = PlaceOf(i) + (IF i + 1 \in inserts THEN 2 ELSE 1)
    BY BeforeIs
<1>2. /\ OutputKinds \in Seq(PackKinds \cup {"guard"}) /\ Len(OutputKinds) = OutputLen
      /\ \A i \in 1 .. TextLen : OutputKinds[PlaceOf(i)] = packText[i]
      /\ \A i \in inserts : OutputKinds[PlaceOf(i) - 1] = "guard"
    BY OutputIs
<1>3. /\ b[1] = Cpp0(d)
      /\ \A k \in 1 .. OutputLen : b[k + 1] = Cpp(b[k], OutputKinds[k])
      /\ \A k \in 1 .. OutputLen + 1 : b[k] \in CppStates
  <2>1. /\ b[1] = Cpp0(d)
        /\ \A k \in 1 .. Len(OutputKinds) : b[k + 1] = Cpp(b[k], OutputKinds[k])
        /\ \A k \in 1 .. Len(OutputKinds) + 1 : b[k] \in CppStates
      BY <1>2, CompiledIs
  <2> HIDE DEF b
  <2> QED
      BY <1>2, <2>1
<1>4. \A k \in 1 .. OutputLen + 1 : ~b[k].error
  <2>1. ASSUME NEW k \in 1 .. OutputLen + 1, b[k].error
        PROVE  FALSE
    <3>1. k \in 1 .. Len(OutputKinds) + 1
        BY <1>2
    <3>2. Compiled(OutputKinds, d)[Len(OutputKinds) + 1].error
        BY <1>2, <2>1, <3>1, ErrorStays
    <3> QED
        BY <1>2, <3>2
  <2> QED
      BY <2>1
<1>5. TextLen \in Nat /\ TextLen >= 1
    BY DEF TextShaped, TextLen
<1>6. /\ \A i \in 1 .. TextLen : S[i] = b[PlaceOf(i)]
      /\ S[TextLen + 1] = b[OutputLen + 1]
  <2> HIDE DEF b
  <2>1. S = [i \in 1 .. TextLen + 1 |-> IF i = TextLen + 1 THEN b[OutputLen + 1] ELSE b[PlaceOf(i)]]
      BY DEF OutputBuild, b
  <2> HIDE DEF S
  <2>2. \A i \in 1 .. TextLen : i \in 1 .. TextLen + 1 /\ i # TextLen + 1
      BY <1>5
  <2>3. TextLen + 1 \in 1 .. TextLen + 1
      BY <1>5
  <2> QED
      BY <2>1, <2>2, <2>3
<1> HIDE DEF b, S
<1>7. ASSUME NEW i \in 1 .. TextLen + 1
      PROVE  S[i] \in CppStates
  <2>1. CASE i = TextLen + 1
      BY <1>1, <1>3, <1>6, <2>1
  <2>2. CASE i \in 1 .. TextLen
    <3>1. PlaceOf(i) \in 1 .. OutputLen + 1
        BY <1>1, <2>2
    <3> QED
        BY <1>3, <1>6, <2>2, <3>1
  <2> QED
      BY <1>5, <2>1, <2>2
<1>8. ASSUME NEW i \in inserts
      PROVE  /\ PlaceOf(i) - 1 \in 1 .. OutputLen /\ b[PlaceOf(i) - 1] \in CppStates
             /\ b[PlaceOf(i)] = Cpp(b[PlaceOf(i) - 1], "guard")
             /\ SameState(b[PlaceOf(i)], b[PlaceOf(i) - 1])
             /\ LiveIn(b[PlaceOf(i)]) => ~b[PlaceOf(i)].x
  <2>1. PICK k \in 1 .. OutputLen : k = PlaceOf(i) - 1
      BY <1>1
  <2>2. k + 1 = PlaceOf(i) /\ k + 1 \in 1 .. OutputLen + 1 /\ k \in 1 .. OutputLen + 1
    <3>1. i \in 1 .. TextLen
        BY DEF GuardsOK
    <3>2. PlaceOf(i) \in 1 .. OutputLen
        BY <1>1, <3>1
    <3> QED
        BY <1>1, <2>1, <3>2
  <2>3. b[k + 1] = Cpp(b[k], "guard") /\ b[k] \in CppStates /\ ~b[k + 1].error
      BY <1>2, <1>3, <1>4, <2>1, <2>2
  <2>4. SameState(b[k + 1], b[k]) /\ (LiveIn(b[k]) => ~b[k].x)
      BY <2>3, GuardLine
  <2>5. LiveIn(b[k + 1]) => ~b[k + 1].x
      BY <2>4, LikeLive DEF SameState
  <2> QED
      BY <2>1, <2>2, <2>3, <2>4, <2>5
<1>9. S[1].pack = 0 /\ S[1].saved = << >>
  <2>1. b[1].pack = 0 /\ b[1].saved = << >>
      BY <1>3 DEF Cpp0
  <2>2. S[1] = b[PlaceOf(1)]
      BY <1>5, <1>6
  <2>3. CASE 1 \in inserts
    <3>1. PlaceOf(1) = 2 /\ PlaceOf(1) - 1 = 1
        BY <1>1, <2>3
    <3>2. SameState(b[2], b[1])
        BY <1>8, <2>3, <3>1
    <3> QED
        BY <2>1, <2>2, <3>1, <3>2 DEF SameState
  <2>4. CASE 1 \notin inserts
      BY <1>1, <2>1, <2>2, <2>4
  <2> QED
      BY <2>3, <2>4
<1>10. ASSUME NEW i \in 1 .. TextLen
       PROVE  SameState(S[i + 1], Cpp(S[i], packText[i]))
  <2>1. PICK k \in 1 .. OutputLen : k = PlaceOf(i)
      BY <1>1
  <2>2. S[i] = b[k] /\ b[k + 1] = Cpp(S[i], packText[i])
      BY <1>2, <1>3, <1>6, <2>1
  <2>3. CASE i = TextLen
    <3>1. S[i + 1] = b[k + 1]
        BY <1>1, <1>6, <2>1, <2>3
    <3> QED
        BY <2>2, <3>1 DEF SameState
  <2>4. CASE i # TextLen
    <3>1. i + 1 \in 1 .. TextLen /\ i + 1 <= TextLen
        BY <1>5, <2>4
    <3>2. S[i + 1] = b[PlaceOf(i + 1)]
        BY <1>6, <3>1
    <3>3. CASE i + 1 \in inserts
      <4>1. PlaceOf(i + 1) = k + 2 /\ PlaceOf(i + 1) - 1 = k + 1
          BY <1>1, <2>1, <3>1, <3>3
      <4>2. SameState(b[PlaceOf(i + 1)], b[PlaceOf(i + 1) - 1])
          BY <1>8, <3>3
      <4>3. SameState(S[i + 1], b[k + 1])
          BY <3>2, <4>1, <4>2
      <4> QED
          BY <2>2, <4>3
    <3>4. CASE i + 1 \notin inserts
      <4>1. PlaceOf(i + 1) = k + 1
          BY <1>1, <2>1, <3>1, <3>4
      <4> QED
          BY <2>2, <3>2, <4>1 DEF SameState
    <3> QED
        BY <3>3, <3>4
  <2> QED
      BY <2>3, <2>4
<1>11. ASSUME NEW q \in Regions, q.guarded, LiveIn(S[q.open])
       PROVE  ~S[q.open].x
  <2>1. q.open \in inserts /\ q.open \in 1 .. TextLen
      BY <1>11 DEF GuardsOK
  <2>2. S[q.open] = b[PlaceOf(q.open)]
      BY <1>6, <2>1
  <2> QED
      BY <1>8, <1>11, <2>1, <2>2
<1> QED
    BY <1>7, <1>9, <1>10, <1>11 DEF BuildWalk, S

-----------------------------------------------------------------------------
\* The state before each line in the CUDA parse.
CudaParse == Compiled(packText, FALSE)

\* What the class records of a region.
RegionRecords ==
    [open : Nat, bodyEnd : Nat, guarded : BOOLEAN, closed : BOOLEAN, reset : Nat, first : Int, last : Nat,
     owned : SUBSET Int]

\* The types of the class's state.
PackType ==
    /\ packText \in Seq(PackKinds) /\ line \in 1 .. TextLen + 1
    /\ regions \in Seq(RegionRecords)
    /\ packVerdict \in {"open", "proved", "accepted", "rejected"}

\* A region the class took on is a frame, and its condition did not hold in the parse.
RegionTaken(q) == RegionFrame(q) /\ (q.guarded => ~CudaParse[q.open].x)

\* What the class proved about the text before it let the guards in.
PackProved ==
    /\ \A i \in 1 .. TextLen : /\ packText[i] # "op"
                               /\ packText[i] \in PackLines => \E q \in Regions : i \in q.owned
    /\ \A q \in Regions : \A i \in q.open + 1 .. q.bodyEnd - 1 : packText[i] = "record"
    /\ inserts = Guards

\* The inductive invariant.
PackInv ==
    /\ PackType
    /\ \A q \in Regions : RegionTaken(q)
    /\ packVerdict = "open" => cpp = CudaParse[line]
    /\ active => regions # << >>
    /\ packVerdict \in {"proved", "accepted"} /\ regions # << >> => PackProved
    /\ packVerdict = "accepted" => EditClear(line, line) \/ EditClear(line, line + 1)

\* The invariant contains the property: both readings walk the regions alike.
LEMMA PackMeans == PackInv => PackedLayoutKept
<1> SUFFICES ASSUME PackInv, packVerdict = "accepted", regions # << >>
             PROVE  LET output == Output
                        kinds == [k \in DOMAIN output |-> output[k].kind]
                    IN  /\ \A defined \in BOOLEAN :
                              LET built == Compiled(kinds, defined)
                              IN  \/ built[Len(kinds) + 1].error
                                  \/ \A k \in DOMAIN output :
                                        output[k].kind = "record" /\ LiveIn(built[k]) /\ LiveIn(CudaParse[output[k].at]) =>
                                            built[k].pack = CudaParse[output[k].at].pack
                        /\ line <= Len(packText) => CudaParse[line].pack = 0
    BY DEF PackedLayoutKept, CudaParse
<1>1. /\ packText \in Seq(PackKinds) /\ TextLen \in Nat /\ line \in 1 .. TextLen + 1 /\ PackProved
      /\ \A q \in Regions : RegionFrame(q) /\ (q.guarded => ~CudaParse[q.open].x)
      /\ regions \in Seq(RegionRecords)
    BY DEF PackInv, PackType, RegionTaken, TextLen
<1>2. TextShaped
    BY <1>1 DEF TextShaped, RegionShape, PackProved
<1>3. inserts = Guards /\ GuardsOK /\ \A q \in Regions : q.guarded => q.open \in inserts
  <2>1. inserts = {r.open : r \in {q \in Regions : q.guarded}}
      BY <1>1 DEF PackProved, Guards
  <2>2. \A q \in Regions : q.open \in 1 .. TextLen
      BY <1>1 DEF RegionFrame
  <2> QED
      BY <1>1, <2>1, <2>2 DEF GuardsOK, Guards
<1>4. TextLen # 0
  <2>1. 1 \in DOMAIN regions
      BY <1>1
  <2>2. regions[1] \in Regions
      BY <2>1 DEF Regions
  <2> QED
      BY <1>1, <2>2 DEF RegionFrame
<1>5. BuildWalk(CudaParse)
  <2>1. /\ CudaParse[1] = Cpp0(FALSE)
        /\ \A i \in 1 .. TextLen : CudaParse[i + 1] = Cpp(CudaParse[i], packText[i])
        /\ \A i \in 1 .. TextLen + 1 : CudaParse[i] \in CppStates
      BY <1>1, CompiledIs DEF CudaParse, TextLen
  <2> QED
      BY <1>1, <2>1 DEF BuildWalk, Cpp0, SameState
<1>6. /\ DOMAIN Output = 1 .. OutputLen /\ Len(OutputKinds) = OutputLen
      /\ \A k \in 1 .. OutputLen : Output[k].kind = "record" =>
            Output[k].at \in 1 .. TextLen /\ PlaceOf(Output[k].at) = k /\ packText[Output[k].at] = "record"
    BY <1>3, OutputIs
<1>7. ASSUME NEW d \in BOOLEAN, ~Compiled(OutputKinds, d)[Len(OutputKinds) + 1].error,
             NEW k \in DOMAIN Output, Output[k].kind = "record", LiveIn(Compiled(OutputKinds, d)[k]),
             LiveIn(CudaParse[Output[k].at])
      PROVE  Compiled(OutputKinds, d)[k].pack = CudaParse[Output[k].at].pack
  <2>1. BuildWalk(OutputBuild(d))
      BY <1>2, <1>3, <1>4, <1>6, <1>7, BuiltWalks
  <2>2. PICK i \in 1 .. TextLen : i = Output[k].at /\ PlaceOf(i) = k /\ packText[i] = "record"
      BY <1>6, <1>7
  <2>3. OutputBuild(d)[i] = Compiled(OutputKinds, d)[k]
    <3>1. i \in 1 .. TextLen + 1 /\ i # TextLen + 1
        BY <1>1
    <3> QED
        BY <2>2, <3>1 DEF OutputBuild
  <2>4. OutputBuild(d)[i].pack = CudaParse[i].pack
      BY <1>2, <1>5, <1>7, <2>1, <2>2, <2>3, SameLayout
  <2> QED
      BY <2>2, <2>3, <2>4
<1>8. ASSUME line <= TextLen
      PROVE  CudaParse[line].pack = 0
  <2>1. ~InRegion(line)
    <3>1. SUFFICES ASSUME NEW q \in Regions, q.open < line, line <= q.reset
                   PROVE  FALSE
        BY DEF InRegion
    <3>2. RegionFrame(q)
        BY <1>1
    <3>3. q.open \in Nat /\ q.reset \in Nat /\ q.last \in Nat
          /\ q.reset <= q.last /\ q.first \in Int /\ q.first <= q.open
      <4>1. q.open \in Nat /\ q.bodyEnd \in Nat
          BY <1>1, <3>2 DEF RegionFrame
      <4>2. q.first = q.open \/ q.first = q.open - 3
          BY <3>2 DEF RegionFrame
      <4>3. (q.reset = q.bodyEnd + 3 /\ q.last = q.bodyEnd + 4) \/ (q.reset = q.bodyEnd /\ q.last = q.bodyEnd)
          BY <3>2 DEF RegionFrame
      <4> QED
          BY <4>1, <4>2, <4>3
    <3>4. EditClear(line, line) \/ EditClear(line, line + 1)
        BY DEF PackInv
    <3>5. (line < q.first \/ line > q.last + 1) \/ (line + 1 <= q.first \/ line > q.last)
        BY <1>1, <3>4 DEF EditClear
    <3>6. line < q.first \/ line > q.last
      <4>1. TextLen \in Nat /\ line \in Nat
          BY <1>1
      <4> QED
          BY <3>3, <3>5, <4>1
    <3> QED
        BY <1>1, <3>1, <3>3, <3>6
  <2>2. Unpacked(CudaParse[line])
      BY <1>1, <1>2, <1>5, <2>1, OutsideFlat
  <2> QED
      BY <2>2 DEF Unpacked
<1> QED
    BY <1>6, <1>7, <1>8 DEF OutputKinds, TextLen

\* Where the body of an opener ends.
LEMMA BodyEndIs ==
    ASSUME packText \in Seq(PackKinds), NEW o \in 1 .. TextLen, BodyEnd(o) > 0
    PROVE  BodyEnd(o) \in o + 1 .. TextLen
<1> DEFINE after == {i \in o + 1 .. TextLen : packText[i] \notin {"record", "macro"}}
           R == {ss \in Nat \X Nat : ss[1] < ss[2]}
<1>1. TextLen \in Nat
    BY DEF TextLen
<1>2. BodyEnd(o) = IF after = {} THEN 0 ELSE CHOOSE i \in after : \A j \in after : i <= j
    BY DEF BodyEnd, TextLen
<1>3. after # {}
    BY <1>2
<1>4. after \subseteq Nat
    BY <1>1
<1>5. IsWellFoundedOn(R, Nat)
    BY NatLessThanWellFounded DEF OpToRel
<1> HIDE DEF after, R
<1>6. PICK m \in after : \A k \in after : ~(<<k, m>> \in R)
    BY <1>3, <1>4, <1>5, WFMin
<1>7. ASSUME NEW k \in after
      PROVE  m <= k
  <2>1. k \in Nat /\ m \in Nat /\ ~(<<k, m>> \in R)
      BY <1>4, <1>6, <1>7
  <2>2. k < m => <<k, m>> \in R
      BY <2>1 DEF R
  <2> QED
      BY <2>1, <2>2
<1>8. BodyEnd(o) \in after
    BY <1>2, <1>3, <1>6, <1>7
<1> QED
    BY <1>8 DEF after

\* What a match of the footer or of the prefix says about the lines.
LinesMatched(i, s, n) ==
    /\ i \in 1 .. TextLen /\ i + n - 1 <= TextLen
    /\ \A j \in 1 .. n : packText[i + j - 1] = s[j]

LEMMA LinesAreIs ==
    ASSUME packText \in Seq(PackKinds), NEW i \in Int, NEW s, NEW n \in Nat \ {0}, Len(s) = n, LinesAre(i, s)
    PROVE  LinesMatched(i, s, n)
<1>1. TextLen \in Nat /\ Len(packText) = TextLen
    BY DEF TextLen
<1>2. i > 0 /\ i + n - 1 <= TextLen /\ SubSeq(packText, i, i + n - 1) = s
    BY <1>1 DEF LinesAre
<1>3. ASSUME NEW j \in 1 .. n
      PROVE  packText[i + j - 1] = s[j]
  <2>1. SubSeq(packText, i, i + n - 1)[j] = packText[i + j - 1]
      BY <1>1, <1>2
  <2> QED
      BY <1>2, <2>1
<1> QED
    BY <1>1, <1>2, <1>3 DEF LinesMatched

\* The region the class takes at an opener is a frame.
LEMMA RegionAtIs ==
    ASSUME packText \in Seq(PackKinds), NEW o \in 1 .. TextLen, packText[o] = "open", RegionAdmitted(o)
    PROVE  /\ RegionAt(o) \in RegionRecords /\ RegionFrame(RegionAt(o))
           /\ RegionAt(o).open = o /\ (RegionAt(o).guarded => ~cpp.x)
<1> DEFINE e == BodyEnd(o)
           footed == LinesAre(e, Footer)
           first == IF footed /\ LinesAre(o - 3, Prefix) THEN o - 3 ELSE o
           owned == {o} \cup (IF footed THEN {e + 1, e + 3} ELSE {e}) \cup (IF first < o THEN {o - 2} ELSE {})
           r == RegionAt(o)
<1>1. TextLen \in Nat /\ e \in o + 1 .. TextLen
    BY BodyEndIs DEF RegionAdmitted, TextLen
<1>2. r = [open |-> o, bodyEnd |-> e, guarded |-> footed, closed |-> FALSE,
           reset |-> IF footed THEN e + 3 ELSE e,
           first |-> first, last |-> IF footed THEN e + 4 ELSE e, owned |-> owned]
    BY DEF RegionAt
<1>3. footed \in BOOLEAN
    BY DEF LinesAre
<1>4. ASSUME footed
      PROVE  /\ e + 4 <= TextLen
             /\ packText[e] = "if" /\ packText[e + 1] = "pop" /\ packText[e + 2] = "else"
             /\ packText[e + 3] = "reset" /\ packText[e + 4] = "endif"
  <2>1. Len(Footer) = 5
      BY DEF Footer
  <2>2. e + 5 - 1 <= TextLen /\ \A j \in 1 .. 5 : packText[e + j - 1] = Footer[j]
    <3>1. e \in Int /\ 5 \in Nat \ {0} /\ LinesAre(e, Footer)
        BY <1>1, <1>4
    <3>2. LinesMatched(e, Footer, 5)
      <4> HIDE DEF e
      <4> QED
          BY <2>1, <3>1, LinesAreIs, Zenon
    <3> QED
        BY <3>2 DEF LinesMatched
  <2>3. packText[e + 1 - 1] = "if" /\ packText[e + 2 - 1] = "pop" /\ packText[e + 3 - 1] = "else"
        /\ packText[e + 4 - 1] = "reset" /\ packText[e + 5 - 1] = "endif"
      BY <2>2 DEF Footer
  <2>4. e + 1 - 1 = e /\ e + 2 - 1 = e + 1 /\ e + 3 - 1 = e + 2 /\ e + 4 - 1 = e + 3 /\ e + 5 - 1 = e + 4
      BY <1>1
  <2> QED
      BY <2>2, <2>3, <2>4
<1>5. ASSUME first # o
      PROVE  /\ footed /\ first = o - 3 /\ first \in Nat \ {0}
             /\ packText[o - 3] = "if" /\ packText[o - 2] = "push" /\ packText[o - 1] = "endif"
  <2>1. footed /\ first = o - 3 /\ LinesAre(o - 3, Prefix)
      BY <1>5
  <2>2. Len(Prefix) = 3
      BY DEF Prefix
  <2>3. o - 3 \in 1 .. TextLen /\ \A j \in 1 .. 3 : packText[(o - 3) + j - 1] = Prefix[j]
    <3>1. o - 3 \in Int /\ 3 \in Nat \ {0} /\ LinesAre(o - 3, Prefix)
        BY <1>1, <2>1
    <3>2. LinesMatched(o - 3, Prefix, 3)
        BY <2>2, <3>1, LinesAreIs, Zenon
    <3> QED
        BY <3>2 DEF LinesMatched
  <2>4. packText[(o - 3) + 1 - 1] = "if" /\ packText[(o - 3) + 2 - 1] = "push" /\ packText[(o - 3) + 3 - 1] = "endif"
      BY <2>3 DEF Prefix
  <2>5. (o - 3) + 1 - 1 = o - 3 /\ (o - 3) + 2 - 1 = o - 2 /\ (o - 3) + 3 - 1 = o - 1
      BY <1>1
  <2> QED
      BY <1>1, <2>1, <2>3, <2>4, <2>5
<1>6. packText[e] = "reset" \/ (footed /\ ~cpp.x)
    BY <1>2 DEF RegionAdmitted
<1>7. footed => ~cpp.x
    BY <1>4, <1>6
<1>8. first \in Int
    BY <1>1
<1> HIDE DEF e, footed, first, r
<1>9. owned \subseteq Int
    BY <1>1
<1>10. r \in RegionRecords
    BY <1>1, <1>2, <1>3, <1>8, <1>9 DEF RegionRecords
<1>11. /\ r.open = o /\ r.bodyEnd = e /\ r.guarded = footed /\ r.first = first /\ r.owned = owned
       /\ r.reset = (IF footed THEN e + 3 ELSE e) /\ r.last = (IF footed THEN e + 4 ELSE e)
    BY <1>2
<1>12. \A i \in r.owned :
          \/ i \in {r.open, r.reset}
          \/ r.guarded /\ (i = r.bodyEnd + 1 \/ (i = r.open - 2 /\ r.first = r.open - 3))
    BY <1>1, <1>5, <1>11
<1>13. RegionFrame(r)
    BY <1>1, <1>3, <1>4, <1>5, <1>6, <1>11, <1>12 DEF RegionFrame
<1> QED
    BY <1>7, <1>10, <1>11, <1>13 DEF r

\* The regions after one more, and after a change of one.
LEMMA RegionsAppended ==
    ASSUME NEW s \in Seq(RegionRecords), NEW r \in RegionRecords
    PROVE  /\ Append(s, r) \in Seq(RegionRecords) /\ Append(s, r) # << >>
           /\ \A i \in DOMAIN Append(s, r) : Append(s, r)[i] = r \/ (i \in DOMAIN s /\ Append(s, r)[i] = s[i])
<1>1. Len(Append(s, r)) = Len(s) + 1 /\ DOMAIN Append(s, r) = 1 .. Len(s) + 1 /\ DOMAIN s = 1 .. Len(s)
    OBVIOUS
<1>2. ASSUME NEW i \in DOMAIN Append(s, r)
      PROVE  Append(s, r)[i] = r \/ (i \in DOMAIN s /\ Append(s, r)[i] = s[i])
  <2>1. CASE i = Len(s) + 1
      BY <2>1
  <2>2. CASE i \in 1 .. Len(s)
      BY <2>2
  <2> QED
      BY <1>1, <2>1, <2>2
<1> QED
    BY <1>1, <1>2

\* Closing the last region.
LEMMA RegionsClosed ==
    ASSUME NEW s \in Seq(RegionRecords), s # << >>
    PROVE  LET n == Len(s)
               c == [s EXCEPT ![n].closed = TRUE]
           IN  /\ c \in Seq(RegionRecords) /\ c # << >> /\ DOMAIN c = DOMAIN s
               /\ \A i \in DOMAIN s : /\ s[i] \in RegionRecords
                                      /\ c[i] = s[i] \/ c[i] = [s[i] EXCEPT !.closed = TRUE]
<1> DEFINE n == Len(s)
           d == [s[n] EXCEPT !.closed = TRUE]
           c == [s EXCEPT ![n] = d]
<1>1. n \in Nat /\ n # 0 /\ s[n] \in RegionRecords /\ \A i \in DOMAIN s : s[i] \in RegionRecords
    OBVIOUS
<1>2. d \in RegionRecords
    BY <1>1 DEF RegionRecords
<1>3. c \in Seq(RegionRecords) /\ DOMAIN c = DOMAIN s /\ Len(c) = n
  <2> HIDE DEF d
  <2> QED
      BY <1>1, <1>2
<1>4. \A i \in DOMAIN s : c[i] = IF i = n THEN d ELSE s[i]
    OBVIOUS
<1>5. [s EXCEPT ![n].closed = TRUE] = c
    OBVIOUS
<1> QED
    BY <1>1, <1>3, <1>4, <1>5

\* Closing a region changes neither its lines nor what it asks of the parse.
LEMMA ClosedAdmitted ==
    ASSUME NEW r \in RegionRecords, RegionTaken(r)
    PROVE  RegionTaken([r EXCEPT !.closed = TRUE])
<1> DEFINE q == [r EXCEPT !.closed = TRUE]
<1>1. /\ q.open = r.open /\ q.bodyEnd = r.bodyEnd /\ q.guarded = r.guarded /\ q.reset = r.reset
      /\ q.first = r.first /\ q.last = r.last /\ q.owned = r.owned
    BY DEF RegionRecords
<1> HIDE DEF q
<1> QED
    BY <1>1 DEF RegionTaken, RegionFrame, q

\* No line was read.
LEMMA PackStarts == PackInit => PackInv
<1> SUFFICES ASSUME PackInit PROVE PackInv
    OBVIOUS
<1>1. packText \in Seq(PackKinds) /\ TextLen \in Nat
    BY PackTextsAssumption DEF PackInit, TextLen
<1>2. CudaParse[1] = Cpp0(FALSE)
    BY <1>1, CompiledIs DEF CudaParse
<1>3. regions = << >> /\ Regions = {}
    BY DEF PackInit, Regions
<1>4. PackType
    BY <1>1, <1>3 DEF PackType, PackInit
<1> QED
    BY <1>2, <1>3, <1>4 DEF PackInit, PackInv

\* The parse after one line, and the regions a callback leaves.
LEMMA LineRead ==
    ASSUME PackInv, ReadPackLine
    PROVE  PackInv'
<1>1. /\ packText \in Seq(PackKinds) /\ packText' = packText /\ TextLen \in Nat /\ TextLen' = TextLen
      /\ line \in 1 .. TextLen /\ line' = line + 1 /\ packVerdict = "open" /\ packVerdict' = "open"
      /\ cpp = CudaParse[line] /\ CudaParse' = CudaParse /\ cpp' = Cpp(cpp, packText[line])
      /\ regions \in Seq(RegionRecords) /\ (active => regions # << >>)
    BY DEF PackInv, PackType, ReadPackLine, TextLen, CudaParse, Compiled
<1>2. cpp' = CudaParse'[line']
  <2>1. CudaParse[line + 1] = Cpp(CudaParse[line], packText[line])
      BY <1>1, CompiledIs DEF CudaParse, TextLen
  <2> QED
      BY <1>1, <2>1
<1>3. \A q : RegionTaken(q) => RegionTaken(q)'
    BY <1>1 DEF RegionTaken, RegionFrame
<1>4. \A q \in Regions : RegionTaken(q)
    BY DEF PackInv
<1>5. /\ regions' \in Seq(RegionRecords) /\ (active' => regions' # << >>)
      /\ \A i \in DOMAIN regions' : RegionTaken(regions'[i])
  <2>1. CASE UNCHANGED <<regions, active>>
    <3>1. regions' = regions /\ active' = active
        BY <2>1
    <3>2. \A i \in DOMAIN regions : RegionTaken(regions[i])
        BY <1>4 DEF Regions
    <3>3. \A i \in DOMAIN regions' : RegionTaken(regions'[i])
        BY <3>1, <3>2, Zenon
    <3>4. regions' \in Seq(RegionRecords) /\ (active' => regions' # << >>)
        BY <1>1, <3>1, Zenon
    <3> QED
        BY <3>3, <3>4
  <2>2. CASE packText[line] = "open" /\ Open
    <3>1. CASE ~active /\ RegionAdmitted(line)
      <4>1. /\ RegionAt(line) \in RegionRecords /\ RegionFrame(RegionAt(line)) /\ RegionAt(line).open = line
            /\ (RegionAt(line).guarded => ~cpp.x)
          BY <1>1, <2>2, <3>1, RegionAtIs
      <4>2. RegionTaken(RegionAt(line))
          BY <1>1, <4>1 DEF RegionTaken
      <4>3. regions' = Append(regions, RegionAt(line))
          BY <2>2, <3>1 DEF Open
      <4>4. /\ regions' \in Seq(RegionRecords) /\ regions' # << >>
            /\ \A i \in DOMAIN regions' : regions'[i] = RegionAt(line) \/ (i \in DOMAIN regions /\ regions'[i] = regions[i])
        <5> DEFINE r == RegionAt(line)
        <5>1. regions \in Seq(RegionRecords) /\ r \in RegionRecords
            BY <1>1, <4>1
        <5> HIDE DEF r
        <5>2. /\ Append(regions, r) \in Seq(RegionRecords) /\ Append(regions, r) # << >>
              /\ \A i \in DOMAIN Append(regions, r) :
                    Append(regions, r)[i] = r \/ (i \in DOMAIN regions /\ Append(regions, r)[i] = regions[i])
            BY <5>1, RegionsAppended, Zenon
        <5>3. regions' = Append(regions, r)
            BY <4>3 DEF r
        <5>4. /\ regions' \in Seq(RegionRecords) /\ regions' # << >>
              /\ \A i \in DOMAIN regions' : regions'[i] = r \/ (i \in DOMAIN regions /\ regions'[i] = regions[i])
            BY <5>2, <5>3, Zenon
        <5> QED
            BY <5>4 DEF r
      <4>5. \A i \in DOMAIN regions : regions[i] \in Regions
          BY DEF Regions
      <4> QED
          BY <1>4, <4>2, <4>4, <4>5
    <3>2. CASE ~(~active /\ RegionAdmitted(line))
        BY <2>1, <2>2, <3>2 DEF Open
    <3> QED
        BY <3>1, <3>2
  <2>3. CASE Reset
    <3>1. CASE active /\ regions' = [regions EXCEPT ![Len(regions)].closed = TRUE]
      <4>1. /\ regions' \in Seq(RegionRecords) /\ regions' # << >> /\ DOMAIN regions' = DOMAIN regions
            /\ \A i \in DOMAIN regions : /\ regions[i] \in RegionRecords
                                         /\ regions'[i] = regions[i] \/ regions'[i] = [regions[i] EXCEPT !.closed = TRUE]
        <5> DEFINE c == [regions EXCEPT ![Len(regions)].closed = TRUE]
        <5>1. regions \in Seq(RegionRecords) /\ regions # << >>
            BY <1>1, <3>1
        <5>2. /\ c \in Seq(RegionRecords) /\ c # << >> /\ DOMAIN c = DOMAIN regions
              /\ \A i \in DOMAIN regions : /\ regions[i] \in RegionRecords
                                           /\ c[i] = regions[i] \/ c[i] = [regions[i] EXCEPT !.closed = TRUE]
            BY <5>1, RegionsClosed, Zenon
        <5>3. regions' = c
            BY <3>1
        <5> HIDE DEF c
        <5> QED
            BY <5>2, <5>3, Zenon
      <4>2. \A i \in DOMAIN regions : RegionTaken(regions[i])
          BY <1>4 DEF Regions
      <4> QED
          BY <4>1, <4>2, ClosedAdmitted
    <3> QED
        BY <2>1, <2>3, <3>1 DEF Reset
  <2> QED
      BY <2>1, <2>2, <2>3 DEF ReadPackLine, Unproven, includeOrFileTransition
<1>6. PackType'
    BY <1>1, <1>5 DEF PackType
<1>7. \A q \in Regions' : RegionTaken(q)'
    BY <1>3, <1>5 DEF Regions
<1> QED
    BY <1>1, <1>2, <1>5, <1>6, <1>7 DEF PackInv

\* What the proof of the class establishes about the text.
LEMMA ProvedIs ==
    ASSUME PackInv, Prove, packVerdict' = "proved", regions # << >>
    PROVE  PackProved'
<1>1. /\ packText' = packText /\ regions' = regions /\ Regions' = Regions /\ inserts' = Guards /\ TextLen' = TextLen
      /\ NoOtherPack /\ ~failure /\ ~active /\ \A r \in Regions : PlainRecords(r)
    BY DEF Prove, Regions, TextLen
<1>2. ASSUME NEW i \in 1 .. TextLen
      PROVE  /\ packText[i] # "op"
             /\ packText[i] \in PackLines => \E q \in Regions : i \in q.owned
  <2>1. DOMAIN packText = 1 .. TextLen
      BY DEF PackInv, PackType, TextLen
  <2>2. packText[i] # "op" /\ (packText[i] \in PackLines => i \in OwnedLines)
      BY <1>1, <1>2, <2>1 DEF NoOtherPack
  <2>3. OwnedLines = UNION {r.owned : r \in {q \in Regions : q.closed}}
      BY <1>1 DEF OwnedLines
  <2>4. i \in OwnedLines => \E q \in Regions : i \in q.owned
      BY <2>3
  <2> QED
      BY <2>2, <2>4
<1>3. \A q \in Regions : \A i \in q.open + 1 .. q.bodyEnd - 1 : packText[i] = "record"
    BY <1>1 DEF PlainRecords
<1>4. Guards' = Guards
    BY <1>1 DEF Guards
<1> QED
    BY <1>1, <1>2, <1>3, <1>4 DEF PackProved

\* Every step keeps the invariant.
LEMMA PackStep == PackInv /\ [PackNext]_packVars => PackInv'
<1> SUFFICES ASSUME PackInv, [PackNext]_packVars PROVE PackInv'
    OBVIOUS
<1>1. CASE ReadPackLine
    BY <1>1, LineRead
<1>2. ASSUME packText' = packText, regions' = regions, active' = active
      PROVE  /\ Regions' = Regions /\ TextLen' = TextLen
             /\ (\A q \in Regions : RegionTaken(q)) <=> (\A q \in Regions : RegionTaken(q))'
             /\ regions' \in Seq(RegionRecords) /\ packText' \in Seq(PackKinds)
             /\ (active' => regions' # << >>)
  <2>1. Regions' = Regions /\ TextLen' = TextLen /\ CudaParse' = CudaParse
      BY <1>2 DEF Regions, TextLen, CudaParse, Compiled
  <2>2. \A q : RegionTaken(q) <=> RegionTaken(q)'
      BY <1>2, <2>1 DEF RegionTaken, RegionFrame
  <2>3. regions \in Seq(RegionRecords) /\ packText \in Seq(PackKinds) /\ (active => regions # << >>)
      BY DEF PackInv, PackType
  <2> QED
      BY <1>2, <2>1, <2>2, <2>3
<1>3. ASSUME packText' = packText, regions' = regions, inserts' = inserts
      PROVE  PackProved' <=> PackProved
  <2>1. Regions' = Regions /\ TextLen' = TextLen
      BY <1>3 DEF Regions, TextLen
  <2> QED
      BY <1>3, <2>1 DEF PackProved, Guards
<1>4. /\ PackType /\ \A q \in Regions : RegionTaken(q)
      /\ packVerdict \in {"proved", "accepted"} /\ regions # << >> => PackProved
    BY DEF PackInv
<1>5. CASE Prove
  <2>1. /\ packText' = packText /\ regions' = regions /\ active' = active /\ line' = line
        /\ packVerdict' \in {"proved", "rejected"}
      BY <1>5 DEF Prove
  <2>2. PackType'
      BY <1>2, <1>4, <2>1 DEF PackType
  <2>3. packVerdict' \in {"proved", "accepted"} /\ regions' # << >> => PackProved'
      BY <1>5, <2>1, ProvedIs
  <2> QED
      BY <1>2, <1>4, <2>1, <2>2, <2>3 DEF PackInv
<1>6. ASSUME NEW a \in 1 .. Len(packText) + 1, NEW b \in {a, a + 1}, AuditFinalEdits(a, b)
      PROVE  PackInv'
  <2>1. /\ packText' = packText /\ regions' = regions /\ active' = active /\ inserts' = inserts /\ line' = a
        /\ packVerdict = "proved" /\ packVerdict' \in {"accepted", "rejected"}
        /\ (packVerdict' = "accepted" => EditClear(a, b))
      BY <1>6 DEF AuditFinalEdits
  <2>2. PackType'
      BY <1>2, <1>4, <1>6, <2>1 DEF PackType, TextLen
  <2>3. packVerdict' \in {"proved", "accepted"} /\ regions' # << >> => PackProved'
      BY <1>3, <1>4, <2>1
  <2>4. packVerdict' = "accepted" => EditClear(line, line)' \/ EditClear(line, line + 1)'
    <3>1. Regions' = Regions
        BY <1>2, <2>1
    <3>2. CASE b = a
        BY <2>1, <3>1, <3>2 DEF EditClear
    <3>3. CASE b = a + 1
        BY <2>1, <3>1, <3>3 DEF EditClear
    <3> QED
        BY <1>6, <3>2, <3>3
  <2> QED
      BY <1>2, <1>4, <2>1, <2>2, <2>3, <2>4 DEF PackInv
<1>7. CASE UNCHANGED packVars
  <2>1. /\ packText' = packText /\ regions' = regions /\ active' = active /\ inserts' = inserts /\ line' = line
        /\ packVerdict' = packVerdict /\ cpp' = cpp
      BY <1>7 DEF packVars
  <2>2. PackType'
      BY <1>2, <1>4, <2>1 DEF PackType
  <2>3. packVerdict' \in {"proved", "accepted"} /\ regions' # << >> => PackProved'
      BY <1>3, <1>4, <2>1
  <2>4. CudaParse' = CudaParse /\ Regions' = Regions
      BY <2>1 DEF CudaParse, Compiled, Regions
  <2>5. packVerdict' = "accepted" => EditClear(line, line)' \/ EditClear(line, line + 1)'
      BY <2>1, <2>4 DEF PackInv, EditClear
  <2>6. packVerdict' = "open" => cpp' = CudaParse'[line']
      BY <2>1, <2>4 DEF PackInv
  <2> QED
      BY <1>2, <1>4, <2>1, <2>2, <2>3, <2>5, <2>6 DEF PackInv
<1> QED
    BY <1>1, <1>5, <1>6, <1>7 DEF PackNext

\* Whatever the text, and however often and wherever it packs: in an accepted unit every
\* record is packed in each build of the output as in the CUDA parse, or the build stops,
\* and the edit that was let through is outside every region (PackedRecordBoundary::prove,
\* auditFinalEdits).
THEOREM AcceptedLayoutKept == PackInit /\ [][PackNext]_packVars => []PackedLayoutKept
<1>1. PackInit => PackInv
    BY PackStarts
<1>2. PackInv /\ [PackNext]_packVars => PackInv'
    BY PackStep
<1>3. PackInv => PackedLayoutKept
    BY PackMeans
<1> QED
    BY <1>1, <1>2, <1>3, PTL

-----------------------------------------------------------------------------
(* Dynamic groups                                                          *)

Value(i) == input.values[i]
ValueNames == {d.v : d \in ToSet(input.values)}

\* Value j is the one that name v means in function f.
Meant(j, v, f) == Value(j).v = v /\ Value(j).f = f

\* A value that was registered when those before it were.
Registered(i) ==
    LET d == Value(i) IN
    /\ written(d) /\ trusted(d) /\ d.form = "local"
    /\ \/ d.factory \in {"coalesced_threads", "this_grid"}
       \/ \E j \in 1 .. i - 1 : Meant(j, d.parent, d.f)
       \/ d.parent \in DOMAIN input.tiles /\ input.tiles[d.parent].f = d.f

ValuesRegistered(n) ==
    /\ groups = {[v |-> Value(i).v, f |-> Value(i).f] : i \in 1 .. n}
    /\ \A i \in 1 .. n : Registered(i)

CallsAdmitted(n) ==
    \A i \in 1 .. n :
        LET c == input.calls[i] IN
        /\ written(c) /\ trusted(c)
        /\ \E j \in 1 .. Len(input.values) : Meant(j, c.g, c.f)

\* The stages from one on.
FromTails == {"tails", "running"}
FromAudit == {"audit"} \cup FromTails
FromOperations == {"operations"} \cup FromAudit

DynamicType ==
    /\ input \in DynamicSources /\ next \in Nat /\ activations \in Seq({"k", "h"})
    /\ stage \in {"declarations", "values", "refused"} \cup FromOperations
    /\ formed \in [ValueNames -> Nat]

DynamicInv ==
    /\ DynamicType
    /\ stage = "declarations" => next = 0 /\ groups = {}
    /\ stage = "values" => next <= Len(input.values) /\ ValuesRegistered(next)
    /\ stage \in FromOperations => ValuesRegistered(Len(input.values))
    /\ stage = "operations" => next <= Len(input.calls) /\ CallsAdmitted(next)
    /\ stage \in FromAudit => CallsAdmitted(Len(input.calls))
    /\ stage \in FromTails => input.mentions \subseteq harmless
    /\ stage = "running" => padded = tailed /\ (tailed => paddable)
    /\ stage # "running" => groupUses = {}
    /\ MasksFresh

\* The values and calls are those of the sequences.
LEMMA SourceSequences ==
    ASSUME DynamicType
    PROVE  /\ Len(input.values) \in Nat /\ Len(input.calls) \in Nat
           /\ ToSet(input.values) = {Value(i) : i \in 1 .. Len(input.values)}
           /\ ToSet(input.calls) = {input.calls[i] : i \in 1 .. Len(input.calls)}
           /\ \A d \in ToSet(input.values) : d.v \notin DOMAIN input.tiles
<1> DEFINE S == ToSet(input.values)
           T == ToSet(input.calls)
<1>1. input.values \in Seq(S) /\ input.calls \in Seq(T)
    BY DynamicSourcesAssumption DEF DynamicType
<1>2. \A d \in S : d.v \notin DOMAIN input.tiles
    BY DynamicSourcesAssumption DEF DynamicType
<1> HIDE DEF S, T
<1>3. /\ Len(input.values) \in Nat /\ Len(input.calls) \in Nat
      /\ DOMAIN input.values = 1 .. Len(input.values) /\ DOMAIN input.calls = 1 .. Len(input.calls)
    BY <1>1
<1> QED
    BY <1>2, <1>3 DEF S, T, ToSet, Value

LEMMA MasksRecursion ==
    ASSUME Len(input.values) \in Nat, NEW f, NEW now
    PROVE  /\ MasksAfter(f, now)[0] = formed
           /\ \A i \in 1 .. Len(input.values) :
                 MasksAfter(f, now)[i] = DeclarationRead(f, now, MasksAfter(f, now)[i - 1], i)
<1> DEFINE N == Len(input.values)
           Is(g) == g = [i \in 0 .. N |-> IF i = 0 THEN formed ELSE DeclarationRead(f, now, g[i - 1], i)]
           Upto(g, n) == g[0] = formed /\ \A i \in 1 .. n : g[i] = DeclarationRead(f, now, g[i - 1], i)
           S == {n \in 0 .. N : \E g : Upto(g, n)}
<1>1. N \in Nat
    OBVIOUS
<1> HIDE DEF N
<1>2. 0 \in S
  <2> DEFINE g == [i \in 0 .. N |-> formed]
  <2>1. g[0] = formed
      BY <1>1
  <2> HIDE DEF g
  <2>2. Upto(g, 0)
      BY <2>1
  <2> HIDE DEF Upto
  <2> QED
      BY <1>1, <2>2
<1>3. ASSUME NEW n \in 1 .. N, n - 1 \in S PROVE n \in S
  <2>1. PICK g : Upto(g, n - 1)
      BY <1>3
  <2> DEFINE h == [i \in 0 .. N |-> IF i = n THEN DeclarationRead(f, now, g[n - 1], n) ELSE g[i]]
  <2>2. h[n] = DeclarationRead(f, now, g[n - 1], n) /\ \A i \in 0 .. n - 1 : h[i] = g[i]
      BY <1>1
  <2> HIDE DEF h
  <2>3. h[0] = formed
      BY <2>1, <2>2
  <2>4. ASSUME NEW i \in 1 .. n PROVE h[i] = DeclarationRead(f, now, h[i - 1], i)
    <3>1. CASE i = n
        BY <2>2, <3>1
    <3>2. CASE i # n
      <4>1. i \in 1 .. n - 1 /\ i \in 0 .. n - 1 /\ i - 1 \in 0 .. n - 1
          BY <3>2
      <4>2. h[i] = g[i] /\ h[i - 1] = g[i - 1] /\ g[i] = DeclarationRead(f, now, g[i - 1], i)
          BY <2>1, <2>2, <4>1
      <4> QED
          BY <4>2
    <3> QED
        BY <3>1, <3>2
  <2>5. Upto(h, n)
      BY <2>3, <2>4
  <2> HIDE DEF Upto
  <2> QED
      BY <2>5
<1>4. N \in S
  <2> HIDE DEF S, Upto, Is
  <2>1. \A n \in 1 .. N : n - 1 \in S => n \in S
      BY <1>3
  <2>2. \A n \in 0 .. N : n \in S
      BY <1>1, <1>2, <2>1, Induction
  <2> QED
      BY <1>1, <2>2
<1>5. PICK g : Upto(g, N)
    BY <1>4
<1> DEFINE h == [i \in 0 .. N |-> g[i]]
<1>6. Is(h)
  <2>1. \A i \in 0 .. N : h[i] = IF i = 0 THEN formed ELSE DeclarationRead(f, now, h[i - 1], i)
    <3> SUFFICES ASSUME NEW i \in 0 .. N, i # 0
                 PROVE  h[i] = DeclarationRead(f, now, h[i - 1], i)
        BY <1>5
    <3>1. i \in 1 .. N /\ i - 1 \in 0 .. N
        BY <1>1
    <3>2. h[i] = g[i] /\ h[i - 1] = g[i - 1]
        BY <3>1
    <3> QED
        BY <1>5, <3>1, <3>2
  <2>2. h = [i \in 0 .. N |-> h[i]]
      OBVIOUS
  <2> HIDE DEF h
  <2> QED
      BY <2>1, <2>2
<1>7. Is(MasksAfter(f, now))
  <2>1. MasksAfter(f, now) = CHOOSE g2 : Is(g2)
      BY DEF MasksAfter, N
  <2> HIDE DEF Is, h
  <2> QED
      BY <1>6, <2>1
<1> DEFINE m == MasksAfter(f, now)
<1> HIDE DEF m
<1>8. Is(m)
    BY <1>7 DEF m
<1>9. m[0] = formed
    BY <1>1, <1>8
<1>10. ASSUME NEW i \in 1 .. N PROVE m[i] = DeclarationRead(f, now, m[i - 1], i)
  <2>1. i \in 0 .. N /\ i # 0
      BY <1>1
  <2> QED
      BY <1>8, <2>1
<1> QED
    BY <1>9, <1>10 DEF m, N

\* The declarations of f that were reached formed their masks in this activation.
MasksOf(masks, f, now, n) ==
    /\ masks \in [ValueNames -> Nat]
    /\ \A j \in 1 .. n : Value(j).f = f => masks[Value(j).v] = now

LEMMA DeclarationFormsMask ==
    ASSUME DynamicType, input.mentions \subseteq harmless, NEW n \in 1 .. Len(input.values),
           \A i \in 1 .. n : Registered(i), NEW f, NEW now \in Nat, NEW masks,
           MasksOf(masks, f, now, n - 1)
    PROVE  MasksOf(DeclarationRead(f, now, masks, n), f, now, n)
<1> DEFINE d == Value(n)
           made == MaskOf(d, masks, now)
<1>1. d.v \in ValueNames /\ \A j \in 1 .. n : Value(j).v \in ValueNames
  <2>1. \A j \in 1 .. Len(input.values) : Value(j).v \in ValueNames
      BY SourceSequences DEF ValueNames
  <2> QED
      BY <2>1, SourceSequences
<1>2. Registered(n)
    OBVIOUS
<1>3. ~Elsewhere(d)
    BY <1>2 DEF Registered, Elsewhere, harmless
<1>4. ASSUME d.f = f PROVE made = now
  <2>1. \/ d.factory \in {"coalesced_threads", "this_grid"}
        \/ d.parent \in ValueNames /\ masks[d.parent] = now
        \/ d.parent \notin ValueNames /\ d.parent \in DOMAIN input.tiles /\ input.tiles[d.parent].f = d.f
    <3>1. CASE \E j \in 1 .. n - 1 : Meant(j, d.parent, d.f)
      <4>1. PICK j \in 1 .. n - 1 : Meant(j, d.parent, d.f)
          BY <3>1
      <4>2. Value(j).f = f /\ Value(j).v = d.parent /\ j \in 1 .. n
          BY <1>4, <4>1 DEF Meant
      <4> QED
          BY <1>1, <4>1, <4>2 DEF MasksOf
    <3>2. CASE d.parent \in DOMAIN input.tiles /\ input.tiles[d.parent].f = d.f
      <4>1. d.parent \notin ValueNames
          BY <3>2, SourceSequences DEF ValueNames
      <4> QED
          BY <3>2, <4>1
    <3> QED
        BY <1>2, <3>1, <3>2 DEF Registered
  <2>2. DOMAIN masks = ValueNames
      BY DEF MasksOf
  <2>3. d.form = "local"
      BY <1>2 DEF Registered
  <2> HIDE DEF d
  <2> QED
      BY <1>3, <1>4, <2>1, <2>2, <2>3 DEF MaskOf
<1>5. CASE d.f = f
  <2> DEFINE out == [masks EXCEPT ![d.v] = now]
  <2>1. DeclarationRead(f, now, masks, n) = out
      BY <1>4, <1>5 DEF DeclarationRead, Value
  <2>2. out \in [ValueNames -> Nat] /\ \A v \in ValueNames : out[v] = IF v = d.v THEN now ELSE masks[v]
      BY <1>1 DEF MasksOf
  <2> HIDE DEF out
  <2>3. ASSUME NEW j \in 1 .. n, Value(j).f = f PROVE out[Value(j).v] = now
    <3>1. CASE Value(j).v = d.v
        BY <1>1, <2>2, <3>1
    <3>2. CASE Value(j).v # d.v
      <4>1. j \in 1 .. n - 1
          BY <3>2, SourceSequences
      <4> QED
          BY <1>1, <2>2, <2>3, <3>2, <4>1 DEF MasksOf
    <3> QED
        BY <3>1, <3>2
  <2> QED
      BY <2>1, <2>2, <2>3 DEF MasksOf
<1>6. CASE d.f # f
  <2>1. DeclarationRead(f, now, masks, n) = masks
      BY <1>6 DEF DeclarationRead, Value
  <2>2. ASSUME NEW j \in 1 .. n, Value(j).f = f PROVE masks[Value(j).v] = now
    <3>1. j \in 1 .. n - 1
        BY <1>6, <2>2, SourceSequences
    <3> QED
        BY <2>2, <3>1 DEF MasksOf
  <2> QED
      BY <2>1, <2>2 DEF MasksOf
<1> QED
    BY <1>5, <1>6

LEMMA ActivationFormsMasks ==
    ASSUME DynamicType, input.mentions \subseteq harmless,
           \A i \in 1 .. Len(input.values) : Registered(i), NEW f, NEW now \in Nat
    PROVE  MasksOf(MasksAfter(f, now)[Len(input.values)], f, now, Len(input.values))
<1> DEFINE N == Len(input.values)
           m == MasksAfter(f, now)
           S == {n \in 0 .. N : MasksOf(m[n], f, now, n)}
<1>1. N \in Nat /\ m[0] = formed /\ \A i \in 1 .. N : m[i] = DeclarationRead(f, now, m[i - 1], i)
    BY SourceSequences, MasksRecursion
<1> HIDE DEF N, m
<1>2. 0 \in S
    BY <1>1 DEF MasksOf, DynamicType
<1>3. ASSUME NEW n \in 1 .. N, n - 1 \in S PROVE n \in S
  <2>1. MasksOf(m[n - 1], f, now, n - 1) /\ \A i \in 1 .. n : Registered(i)
      BY <1>1, <1>3 DEF N
  <2> DEFINE before == m[n - 1]
  <2> HIDE DEF before
  <2>2. MasksOf(DeclarationRead(f, now, before, n), f, now, n)
      BY <2>1, DeclarationFormsMask DEF N, before
  <2> QED
      BY <1>1, <2>2 DEF before
<1>4. \A n \in 0 .. N : n \in S
  <2> HIDE DEF S
  <2>1. \A n \in 1 .. N : n - 1 \in S => n \in S
      BY <1>3
  <2> QED
      BY <1>1, <1>2, <2>1, Induction
<1>5. N \in S
    BY <1>1, <1>4
<1> QED
    BY <1>5 DEF m, N

LEMMA DynamicInitInv == ASSUME DynamicInit PROVE DynamicInv
<1>1. formed \in [ValueNames -> Nat]
    BY DEF DynamicInit, ValueNames
<1>2. DynamicType
    BY <1>1 DEF DynamicInit, DynamicType
<1> QED
    BY <1>2 DEF DynamicInit, DynamicInv, MasksFresh, FromOperations, FromAudit, FromTails

\* What is said about the source alone stays true.
LEMMA SourceStays ==
    ASSUME input' = input
    PROVE  /\ ValueNames' = ValueNames /\ harmless' = harmless
           /\ \A i : Registered(i)' <=> Registered(i)
           /\ \A n : CallsAdmitted(n)' <=> CallsAdmitted(n)
           /\ groups' = groups => \A n : ValuesRegistered(n)' <=> ValuesRegistered(n)
<1>1. \A i : Registered(i)' <=> Registered(i)
    BY DEF Registered, Value, Meant, written, trusted
<1>2. \A n : CallsAdmitted(n)' <=> CallsAdmitted(n)
    BY DEF CallsAdmitted, Value, Meant, written, trusted
<1>3. groups' = groups => \A n : ValuesRegistered(n)' <=> ValuesRegistered(n)
    BY <1>1 DEF ValuesRegistered, Value
<1> QED
    BY <1>1, <1>2, <1>3 DEF ValueNames, harmless

\* A step of the translation executes nothing.
LEMMA TranslationInv ==
    ASSUME DynamicInv, DynamicType', stage # "running",
           UNCHANGED <<input, groupUses>>,
           stage' = "declarations" => next' = 0 /\ groups' = {},
           stage' = "values" => next' <= Len(input.values) /\ ValuesRegistered(next)',
           stage' \in FromOperations => ValuesRegistered(Len(input.values))',
           stage' = "operations" => next' <= Len(input.calls) /\ CallsAdmitted(next)',
           stage' \in FromAudit => CallsAdmitted(Len(input.calls)),
           stage' \in FromTails => input.mentions \subseteq harmless,
           stage' = "running" => padded' = tailed' /\ (tailed' => paddable)
    PROVE  DynamicInv'
<1>1. (\A n : CallsAdmitted(n)' <=> CallsAdmitted(n)) /\ harmless' = harmless /\ (paddable' <=> paddable)
    BY SourceStays DEF paddable, directReference
<1>2. groupUses = {}
    BY DEF DynamicInv
<1>3. (FromTails' = FromTails) /\ (FromAudit' = FromAudit) /\ (FromOperations' = FromOperations)
    BY DEF FromTails, FromAudit, FromOperations
<1>4. CallsAdmitted(Len(input.calls))' <=> CallsAdmitted(Len(input.calls))
    BY DEF CallsAdmitted, Value, Meant, written, trusted
<1>5. MasksFresh'
    BY <1>2 DEF MasksFresh
<1>6. /\ stage' = "values" => next' <= Len(input'.values) /\ ValuesRegistered(next)'
      /\ stage' \in FromOperations => ValuesRegistered(Len(input.values))'
      /\ stage' = "operations" => next' <= Len(input'.calls) /\ CallsAdmitted(next)'
      /\ stage' \in FromAudit => CallsAdmitted(Len(input.calls))'
      /\ stage' \in FromTails => input'.mentions \subseteq harmless'
      /\ stage' = "running" => padded' = tailed' /\ (tailed' => paddable')
      /\ stage' # "running" => groupUses' = {}
    BY <1>1, <1>2, <1>4
<1> QED
    BY <1>3, <1>5, <1>6 DEF DynamicInv

LEMMA TypeStays ==
    ASSUME DynamicType, UNCHANGED <<input, activations, formed>>, next' \in Nat,
           stage' \in {"declarations", "values", "refused"} \cup FromOperations
    PROVE  DynamicType'
    BY SourceStays DEF DynamicType, FromTails, FromAudit, FromOperations

\* A source that does not mention groups has nothing to prove.
LEMMA CheckDeclarationsInv == ASSUME DynamicInv, CheckDeclarations PROVE DynamicInv'
<1>1. /\ DynamicType /\ stage = "declarations" /\ next = 0 /\ groups = {}
      /\ UNCHANGED <<input, next, groups, approved, padded, activations, formed, groupUses>>
      /\ stage' \in {"tails", "values", "refused"}
    BY DEF CheckDeclarations, Keep, Program, DynamicInv, Refuse
<1>2. DynamicType'
    BY <1>1, TypeStays DEF DynamicType, FromTails, FromAudit, FromOperations
<1>3. ValuesRegistered(0)
    BY <1>1 DEF ValuesRegistered
<1>4. ASSUME stage' = "tails"
      PROVE  Len(input.values) = 0 /\ Len(input.calls) = 0 /\ input.mentions \subseteq harmless
  <2>1. ~used
      BY <1>4 DEF CheckDeclarations, Refuse
  <2> QED
      BY <2>1 DEF used, harmless
<1>5. ValuesRegistered(next)' /\ ValuesRegistered(0)'
    BY <1>1, <1>3 DEF ValuesRegistered
<1>6. stage' = "tails" => ValuesRegistered(Len(input.values))'
  <2>1. ASSUME stage' = "tails" PROVE ValuesRegistered(Len(input.values))'
    <3>1. Len(input'.values) = 0
        BY <1>1, <1>4, <2>1
    <3> QED
        BY <1>5, <3>1 DEF ValuesRegistered
  <2> QED
      BY <2>1
<1>7. stage' = "tails" => CallsAdmitted(Len(input.calls))
  <2>1. CallsAdmitted(0)
      BY DEF CallsAdmitted
  <2> QED
      BY <1>4, <2>1
<1>8. Len(input.values) >= 0
    BY <1>1, SourceSequences
<1> QED
    BY <1>1, <1>2, <1>4, <1>5, <1>6, <1>7, <1>8, TranslationInv
       DEF FromTails, FromAudit, FromOperations

LEMMA registerVariableInv == ASSUME DynamicInv, registerVariable PROVE DynamicInv'
<1>1. /\ DynamicType /\ stage = "values" /\ next <= Len(input.values) /\ ValuesRegistered(next)
      /\ UNCHANGED <<input, approved, padded, activations, formed, groupUses>>
    BY DEF registerVariable, Keep, Program, DynamicInv
<1>2. next \in Nat /\ Len(input.values) \in Nat /\ Len(input.calls) \in Nat
    BY <1>1, SourceSequences DEF DynamicType
<1>3. CASE next = Len(input.values)
  <2>1. stage' = "operations" /\ next' = 0 /\ groups' = groups
      BY <1>3 DEF registerVariable
  <2>2. DynamicType'
      BY <1>1, <2>1, TypeStays DEF FromOperations
  <2>3. ValuesRegistered(Len(input.values))'
      BY <1>1, <1>3, <2>1 DEF ValuesRegistered, Registered, Value, Meant, written, trusted
  <2>4. CallsAdmitted(next)'
      BY <2>1 DEF CallsAdmitted
  <2> QED
      BY <1>1, <1>2, <2>1, <2>2, <2>3, <2>4, TranslationInv DEF FromTails, FromAudit, FromOperations
<1>4. CASE next # Len(input.values)
  <2> DEFINE d == Value(next + 1)
             g == [v |-> d.v, f |-> d.f]
  <2>1. CASE registerable(d)
    <3>1. stage' = "values" /\ next' = next + 1 /\ groups' = groups \cup {g}
        BY <1>1, <1>4, <2>1 DEF registerVariable, Value
    <3>2. DynamicType'
        BY <1>1, <1>2, <3>1, TypeStays
    <3>3. Registered(next + 1)
      <4>1. ASSUME partitionParent(d)
            PROVE  \/ \E j \in 1 .. next : Meant(j, d.parent, d.f)
                   \/ d.parent \in DOMAIN input.tiles /\ input.tiles[d.parent].f = d.f
        <5>1. CASE groupArgument(d.parent, d.f)
            BY <1>1, <5>1 DEF groupArgument, registered, ValuesRegistered, Meant
        <5>2. CASE staticParent(d.parent, d.f)
            BY <5>2 DEF staticParent
        <5> QED
            BY <4>1, <5>1, <5>2 DEF partitionParent
      <4>2. 1 .. (next + 1) - 1 = 1 .. next
          BY <1>2
      <4>3. /\ written(d) /\ trusted(d) /\ d.form = "local"
            /\ d.factory \in {"coalesced_threads", "this_grid"} \/ partitionParent(d)
          BY <2>1 DEF registerable
      <4>4. \/ d.factory \in {"coalesced_threads", "this_grid"}
            \/ \E j \in 1 .. (next + 1) - 1 : Meant(j, d.parent, d.f)
            \/ d.parent \in DOMAIN input.tiles /\ input.tiles[d.parent].f = d.f
        <5>1. CASE d.factory \in {"coalesced_threads", "this_grid"}
            BY <5>1
        <5>2. CASE partitionParent(d)
          <6>1. CASE \E j \in 1 .. next : Meant(j, d.parent, d.f)
              BY <4>2, <6>1
          <6>2. CASE d.parent \in DOMAIN input.tiles /\ input.tiles[d.parent].f = d.f
              BY <6>2
          <6> QED
              BY <4>1, <5>2, <6>1, <6>2
        <5> QED
            BY <4>3, <5>1, <5>2
      <4> DEFINE n == next + 1
      <4>5. /\ written(Value(n)) /\ trusted(Value(n)) /\ Value(n).form = "local"
            /\ \/ Value(n).factory \in {"coalesced_threads", "this_grid"}
               \/ \E j \in 1 .. n - 1 : Meant(j, Value(n).parent, Value(n).f)
               \/ Value(n).parent \in DOMAIN input.tiles /\ input.tiles[Value(n).parent].f = Value(n).f
          BY <4>3, <4>4
      <4> HIDE DEF n
      <4>6. Registered(n)
          BY <4>5 DEF Registered
      <4> QED
          BY <4>6 DEF n
    <3>4. groups' = {[v |-> Value(i).v, f |-> Value(i).f] : i \in 1 .. next + 1}
      <4>1. 1 .. next + 1 = (1 .. next) \cup {next + 1}
          BY <1>2
      <4> QED
          BY <1>1, <3>1, <4>1 DEF ValuesRegistered
    <3>5. \A i \in 1 .. next + 1 : Registered(i)
      <4>1. 1 .. next + 1 = (1 .. next) \cup {next + 1}
          BY <1>2
      <4> QED
          BY <1>1, <3>3, <4>1 DEF ValuesRegistered
    <3>6. ValuesRegistered(next)'
      <4>1. \A i : (Registered(i)' <=> Registered(i)) /\ Value(i)' = Value(i)
          BY <1>1, SourceStays DEF Value
      <4> QED
          BY <3>1, <3>4, <3>5, <4>1 DEF ValuesRegistered
    <3> QED
        BY <1>1, <1>2, <1>4, <3>1, <3>2, <3>6, TranslationInv DEF FromTails, FromAudit, FromOperations
  <2>2. CASE ~registerable(d)
    <3>1. stage' = "refused" /\ next' = next /\ groups' = groups
        BY <1>4, <2>2 DEF registerVariable, Value, Refuse
    <3>2. DynamicType'
        BY <1>1, <1>2, <3>1, TypeStays
    <3> QED
        BY <1>1, <3>1, <3>2, TranslationInv DEF FromTails, FromAudit, FromOperations
  <2> QED
      BY <2>1, <2>2
<1> QED
    BY <1>3, <1>4

LEMMA admitCallInv == ASSUME DynamicInv, admitCall PROVE DynamicInv'
<1>1. /\ DynamicType /\ stage = "operations" /\ next <= Len(input.calls) /\ CallsAdmitted(next)
      /\ ValuesRegistered(Len(input.values))
      /\ UNCHANGED <<input, groups, padded, activations, formed, groupUses>>
    BY DEF admitCall, Keep, Program, DynamicInv, FromOperations
<1>2. next \in Nat /\ Len(input.values) \in Nat /\ Len(input.calls) \in Nat
    BY <1>1, SourceSequences DEF DynamicType
<1>3. ValuesRegistered(Len(input.values))'
    BY <1>1 DEF ValuesRegistered, Registered, Value, Meant, written, trusted
<1>4. CASE next = Len(input.calls)
  <2>1. stage' = "audit" /\ next' = next
      BY <1>4 DEF admitCall
  <2>2. DynamicType'
      BY <1>1, <1>2, <2>1, TypeStays DEF FromOperations, FromAudit
  <2>3. CallsAdmitted(Len(input.calls))
      BY <1>1, <1>4
  <2> QED
      BY <1>1, <1>3, <2>1, <2>2, <2>3, TranslationInv DEF FromTails, FromAudit, FromOperations
<1>5. CASE next # Len(input.calls)
  <2> DEFINE c == input.calls[next + 1]
  <2>1. CASE operation(c)
    <3>1. stage' = "operations" /\ next' = next + 1
        BY <1>1, <1>5, <2>1 DEF admitCall
    <3>2. DynamicType'
        BY <1>1, <1>2, <3>1, TypeStays DEF FromOperations
    <3>3. written(c) /\ trusted(c) /\ \E j \in 1 .. Len(input.values) : Meant(j, c.g, c.f)
        BY <1>1, <2>1 DEF operation, groupArgument, registered, ValuesRegistered, Meant
    <3>4. CallsAdmitted(next + 1)
      <4>1. 1 .. next + 1 = (1 .. next) \cup {next + 1}
          BY <1>2
      <4> QED
          BY <1>1, <3>3, <4>1 DEF CallsAdmitted
    <3>5. CallsAdmitted(next)'
        BY <1>1, <3>1, <3>4 DEF CallsAdmitted, Value, Meant, written, trusted
    <3> QED
        BY <1>1, <1>2, <1>3, <1>5, <3>1, <3>2, <3>5, TranslationInv DEF FromTails, FromAudit, FromOperations
  <2>2. CASE ~operation(c)
    <3>1. stage' = "refused" /\ next' = next
        BY <1>5, <2>2 DEF admitCall, Refuse
    <3>2. DynamicType'
        BY <1>1, <1>2, <3>1, TypeStays
    <3> QED
        BY <1>1, <3>1, <3>2, TranslationInv DEF FromTails, FromAudit, FromOperations
  <2> QED
      BY <2>1, <2>2
<1> QED
    BY <1>4, <1>5

LEMMA AuditMentionsInv == ASSUME DynamicInv, AuditMentions PROVE DynamicInv'
<1>1. /\ DynamicType /\ stage = "audit" /\ CallsAdmitted(Len(input.calls))
      /\ ValuesRegistered(Len(input.values))
      /\ UNCHANGED <<input, next, groups, approved, padded, activations, formed, groupUses>>
      /\ stage' \in {"tails", "refused"}
    BY DEF AuditMentions, Keep, Program, DynamicInv, FromOperations, FromAudit, Refuse
<1>2. DynamicType'
    BY <1>1, TypeStays DEF DynamicType, FromTails, FromAudit, FromOperations
<1>3. ValuesRegistered(Len(input.values))'
    BY <1>1 DEF ValuesRegistered, Registered, Value, Meant, written, trusted
<1>4. stage' = "tails" => input.mentions \subseteq harmless
    BY DEF AuditMentions, auditMentions, Refuse
<1> QED
    BY <1>1, <1>2, <1>3, <1>4, TranslationInv DEF FromTails, FromAudit, FromOperations

LEMMA KernelTailsInv == ASSUME DynamicInv, ProveDynamicKernelAbiTails PROVE DynamicInv'
<1>1. /\ DynamicType /\ stage = "tails" /\ CallsAdmitted(Len(input.calls))
      /\ ValuesRegistered(Len(input.values)) /\ input.mentions \subseteq harmless
      /\ UNCHANGED <<input, next, groups, approved, activations, formed, groupUses>>
      /\ stage' \in {"running", "refused"}
    BY DEF ProveDynamicKernelAbiTails, Keep, Program, DynamicInv, FromOperations, FromAudit, FromTails, Refuse
<1>2. DynamicType'
    BY <1>1, TypeStays DEF DynamicType, FromTails, FromAudit, FromOperations
<1>3. ValuesRegistered(Len(input.values))'
    BY <1>1 DEF ValuesRegistered, Registered, Value, Meant, written, trusted
<1>4. tailed' = tailed
    BY <1>1 DEF tailed
<1>5. stage' = "running" => padded' = tailed' /\ (tailed' => paddable)
    BY <1>4 DEF ProveDynamicKernelAbiTails, Refuse
<1> QED
    BY <1>1, <1>2, <1>3, <1>5, TranslationInv DEF FromTails, FromAudit, FromOperations

LEMMA ActivateInv == ASSUME DynamicInv, NEW f \in {"k", "h"}, Activate(f) PROVE DynamicInv'
<1> DEFINE now == Len(activations) + 1
           masks == MasksAfter(f, now)[Len(input.values)]
<1>1. /\ DynamicType /\ stage = "running" /\ stage' = stage
      /\ UNCHANGED <<input, next, groups, approved, padded>>
      /\ activations' = Append(activations, f) /\ formed' = masks
    BY DEF Activate, Keep, DynamicInv
<1>2. /\ ValuesRegistered(Len(input.values)) /\ CallsAdmitted(Len(input.calls))
      /\ input.mentions \subseteq harmless /\ padded = tailed /\ (tailed => paddable) /\ MasksFresh
    BY <1>1 DEF DynamicInv, FromOperations, FromAudit, FromTails
<1>3. now \in Nat
    BY <1>1 DEF DynamicType
<1>4. MasksOf(masks, f, now, Len(input.values))
  <2> HIDE DEF now
  <2> QED
      BY <1>1, <1>2, <1>3, ActivationFormsMasks DEF ValuesRegistered
<1>5. DynamicType'
  <2>1. masks \in [ValueNames -> Nat]
      BY <1>4 DEF MasksOf
  <2> HIDE DEF masks
  <2> QED
      BY <1>1, <2>1, SourceStays DEF DynamicType, FromTails, FromAudit, FromOperations
<1>6. ASSUME NEW c \in ToSet(input.calls), c.f = f
      PROVE  ~Elsewhere(c) /\ c.g \in DOMAIN masks /\ masks[c.g] = now
  <2>1. written(c) /\ trusted(c) /\ \E j \in 1 .. Len(input.values) : Meant(j, c.g, c.f)
      BY <1>1, <1>2, SourceSequences DEF CallsAdmitted
  <2>2. PICK j \in 1 .. Len(input.values) : Value(j).v = c.g /\ Value(j).f = f
      BY <1>6, <2>1 DEF Meant
  <2>3. masks[c.g] = now
      BY <1>4, <2>2 DEF MasksOf
  <2>4. c.g \in DOMAIN masks
      BY <1>1, <1>4, <2>2, SourceSequences DEF MasksOf, ValueNames
  <2>5. ~Elsewhere(c)
      BY <1>2, <2>1 DEF Elsewhere, harmless
  <2> QED
      BY <2>3, <2>4, <2>5
<1>7. ~Mentions("reference") /\ ~Mentions("type use")
    BY <1>2 DEF Mentions, harmless
<1>8. \A u \in groupUses' : u \in groupUses \/ (u.by = now /\ u.mask = now)
  <2> DEFINE mask(v) == IF v \in DOMAIN masks THEN masks[v] ELSE 0
             called == {[by |-> now, mask |-> IF Elsewhere(c) THEN 0 ELSE mask(c.g)] :
                           c \in {k \in ToSet(input.calls) : k.f = f}}
             aliased == {[by |-> now, mask |-> masks[g]] :
                           g \in {v \in DOMAIN masks : Mentions("reference") \/ Mentions("type use")}}
  <2>1. groupUses' = groupUses \cup called \cup aliased
      BY DEF Activate
  <2>2. aliased = {}
      BY <1>7
  <2>3. \A u \in called : u.by = now /\ u.mask = now
    <3> HIDE DEF masks, now
    <3> QED
        BY <1>6
  <2> HIDE DEF called, aliased
  <2> QED
      BY <2>1, <2>2, <2>3
<1>9. MasksFresh'
    BY <1>2, <1>8 DEF MasksFresh
<1>10. ValuesRegistered(Len(input.values))' /\ CallsAdmitted(Len(input.calls))'
  <2>1. ValuesRegistered(Len(input.values))'
      BY <1>1, <1>2 DEF ValuesRegistered, Registered, Value, Meant, written, trusted
  <2>2. CallsAdmitted(Len(input.calls))'
      BY <1>1, <1>2 DEF CallsAdmitted, Registered, Value, Meant, written, trusted
  <2> QED
      BY <2>1, <2>2
<1>11. tailed' = tailed /\ (paddable' <=> paddable) /\ harmless' = harmless
    BY <1>1 DEF tailed, paddable, directReference, harmless
<1> QED
    BY <1>1, <1>2, <1>5, <1>9, <1>10, <1>11 DEF DynamicInv

LEMMA DynamicStutterInv == ASSUME DynamicInv, UNCHANGED dynamicVars PROVE DynamicInv'
<1>1. UNCHANGED <<input, stage, next, groups, approved, padded, activations, formed, groupUses>>
    BY DEF dynamicVars
<1>2. DynamicType'
    BY <1>1 DEF DynamicInv, DynamicType, ValueNames, FromTails, FromAudit, FromOperations
<1>3. /\ ValuesRegistered(Len(input.values))' <=> ValuesRegistered(Len(input.values))
      /\ ValuesRegistered(next)' <=> ValuesRegistered(next)
      /\ CallsAdmitted(Len(input.calls))' <=> CallsAdmitted(Len(input.calls))
      /\ CallsAdmitted(next)' <=> CallsAdmitted(next)
    BY <1>1 DEF ValuesRegistered, CallsAdmitted, Registered, Value, Meant, written, trusted
<1>4. tailed' = tailed /\ (paddable' <=> paddable) /\ harmless' = harmless /\ (MasksFresh' <=> MasksFresh)
    BY <1>1 DEF tailed, paddable, directReference, harmless, MasksFresh
<1> QED
    BY <1>1, <1>2, <1>3, <1>4 DEF DynamicInv, FromTails, FromAudit, FromOperations

\* Nothing that a padded signature is tied to.
LEMMA FreshFromInv == ASSUME DynamicInv PROVE GroupsFresh
<1> SUFFICES ASSUME stage = "running" PROVE TailsAgree
    BY DEF DynamicInv, GroupsFresh, TailsAgree
<1>1. ValuesRegistered(Len(input.values)) /\ padded = tailed /\ (tailed => paddable) /\ DynamicType
    BY DEF DynamicInv, FromOperations, FromAudit, FromTails
<1>2. input.kernel.f \in {g.f : g \in groups} <=> \E d \in ToSet(input.values) : d.f = input.kernel.f
  <2> DEFINE N == Len(input.values)
             k == input.kernel.f
  <2>1. groups = {[v |-> Value(i).v, f |-> Value(i).f] : i \in 1 .. N}
      BY <1>1 DEF ValuesRegistered
  <2>2. ToSet(input.values) = {Value(i) : i \in 1 .. N}
      BY <1>1, SourceSequences
  <2> HIDE DEF N, k
  <2>3. k \in {g.f : g \in groups} <=> \E i \in 1 .. N : Value(i).f = k
    <3>1. ASSUME NEW g \in groups, g.f = k PROVE \E i \in 1 .. N : Value(i).f = k
        BY <2>1, <3>1
    <3>2. ASSUME NEW i \in 1 .. N, Value(i).f = k PROVE k \in {g.f : g \in groups}
      <4> DEFINE r == [v |-> Value(i).v, f |-> Value(i).f]
      <4>1. r \in groups /\ r.f = k
          BY <2>1, <3>2
      <4> HIDE DEF r
      <4> QED
          BY <4>1
    <3> QED
        BY <3>1, <3>2
  <2>4. (\E d \in ToSet(input.values) : d.f = k) <=> \E i \in 1 .. N : Value(i).f = k
      BY <2>2
  <2> QED
      BY <2>3, <2>4 DEF k
<1>3. padded <=> input.kernel.shape = "pointers, unsigned" /\ \E d \in ToSet(input.values) : d.f = input.kernel.f
    BY <1>1, <1>2 DEF tailed
<1>4. ASSUME padded
      PROVE  /\ input.kernel.uses \cap {"address", "overload", "symbol", "template argument",
                                        "signature", "launch in template"} = {}
             /\ input.kernel.definition = "one literal"
  <2>1. paddable
      BY <1>1, <1>4
  <2> QED
      BY <2>1 DEF paddable, directReference
<1> QED
    BY <1>3, <1>4 DEF TailsAgree

\* Whatever functions an accepted program calls, and in whatever order, an operation on a
\* group uses the mask that its own activation formed; a padded signature is one that
\* nothing else depends on (DynamicWarpGroups.cpp, proveDynamicKernelAbiTails).
THEOREM AdmittedGroupsFresh == DynamicSpec => []GroupsFresh
<1>1. DynamicInit => DynamicInv
    BY DynamicInitInv
<1>2. DynamicInv /\ [DynamicNext]_dynamicVars => DynamicInv'
  <2> SUFFICES ASSUME DynamicInv, [DynamicNext]_dynamicVars PROVE DynamicInv'
      OBVIOUS
  <2>1. CASE CheckDeclarations
      BY <2>1, CheckDeclarationsInv
  <2>2. CASE registerVariable
      BY <2>2, registerVariableInv
  <2>3. CASE admitCall
      BY <2>3, admitCallInv
  <2>4. CASE AuditMentions
      BY <2>4, AuditMentionsInv
  <2>5. CASE ProveDynamicKernelAbiTails
      BY <2>5, KernelTailsInv
  <2>6. CASE \E f \in {"k", "h"} : Activate(f)
      BY <2>6, ActivateInv
  <2>7. CASE UNCHANGED dynamicVars
      BY <2>7, DynamicStutterInv
  <2> QED
      BY <2>1, <2>2, <2>3, <2>4, <2>5, <2>6, <2>7 DEF DynamicNext
<1>3. DynamicInv => GroupsFresh
    BY FreshFromInv
<1> QED
    BY <1>1, <1>2, <1>3, PTL DEF DynamicSpec

-----------------------------------------------------------------------------
(* Block reductions                                                        *)

\* Bags of elements of U.
BagsOf(U) == UNION {[D -> Nat] : D \in SUBSET U}

LEMMA SetIsBag ==
    ASSUME NEW U, NEW S \in SUBSET U
    PROVE  SetToBag(S) \in BagsOf(U)
    BY DEF SetToBag, BagsOf

LEMMA BagSum ==
    ASSUME NEW U, NEW B1 \in BagsOf(U), NEW B2 \in BagsOf(U)
    PROVE  B1 (+) B2 \in BagsOf(U)
<1>1. PICK D1 \in SUBSET U : B1 \in [D1 -> Nat]
    BY DEF BagsOf
<1>2. PICK D2 \in SUBSET U : B2 \in [D2 -> Nat]
    BY DEF BagsOf
<1>3. B1 (+) B2 \in [D1 \cup D2 -> Nat]
    BY <1>1, <1>2 DEF (+)
<1> QED
    BY <1>3 DEF BagsOf

LEMMA BagJoin ==
    ASSUME NEW S, NEW T, S \cap T = {}
    PROVE  SetToBag(S) (+) SetToBag(T) = SetToBag(S \cup T)
    BY DEF SetToBag, (+)

\* The first m lanes of register v hold the parts of A, each element of it in one lane.
Covers(v, m, A) ==
    \E S \in [0 .. m - 1 -> SUBSET A] :
        /\ \A i, j \in 0 .. m - 1 : i # j => S[i] \cap S[j] = {}
        /\ \A x \in A : \E i \in 0 .. m - 1 : x \in S[i]
        /\ \A l \in 0 .. m - 1 : v[l] = SetToBag(S[l])

\* A level of either loop halves the lanes that hold the parts.
LEMMA LevelCovers ==
    ASSUME NEW U, NEW A, NEW h \in Nat \ {0}, 2 * h <= WarpSize, NEW always,
           NEW v \in [Lanes -> BagsOf(U)]
    PROVE  /\ Level(v, h, always) \in [Lanes -> BagsOf(U)]
           /\ Covers(v, 2 * h, A) => Covers(Level(v, h, always), h, A)
<1> DEFINE above == uniform_reduction_shuffle_down(v, h)
           w == Level(v, h, always)
<1>0. WarpSize \in Nat \ {0}
    BY ReductionShape
<1>1. above \in [Lanes -> BagsOf(U)]
    BY DEF uniform_reduction_shuffle_down
<1>2. w = [l \in Lanes |-> IF l \in always \/ l < h THEN v[l] (+) above[l] ELSE v[l]]
    BY DEF Level
<1>3. w \in [Lanes -> BagsOf(U)]
  <2> HIDE DEF above, w
  <2>1. \A l \in Lanes : v[l] (+) above[l] \in BagsOf(U) /\ v[l] \in BagsOf(U)
      BY <1>1, BagSum
  <2> QED
      BY <1>2, <2>1
<1>4. \A l \in 0 .. h - 1 : w[l] = v[l] (+) v[l + h]
  <2>1. \A l \in 0 .. h - 1 : l \in Lanes /\ l + h \in Lanes /\ l < h
      BY <1>0 DEF Lanes
  <2>2. \A l \in 0 .. h - 1 : above[l] = v[l + h]
      BY <2>1 DEF uniform_reduction_shuffle_down
  <2> HIDE DEF above, w
  <2> QED
      BY <1>2, <2>1, <2>2
<1>5. ASSUME Covers(v, 2 * h, A) PROVE Covers(w, h, A)
  <2> HIDE DEF w
  <2>1. PICK S \in [0 .. 2 * h - 1 -> SUBSET A] :
            /\ \A i, j \in 0 .. 2 * h - 1 : i # j => S[i] \cap S[j] = {}
            /\ \A x \in A : \E i \in 0 .. 2 * h - 1 : x \in S[i]
            /\ \A l \in 0 .. 2 * h - 1 : v[l] = SetToBag(S[l])
      BY <1>5 DEF Covers
  <2> DEFINE R == [l \in 0 .. h - 1 |-> S[l] \cup S[l + h]]
  <2>2. \A l \in 0 .. h - 1 : l \in 0 .. 2 * h - 1 /\ l + h \in 0 .. 2 * h - 1 /\ l # l + h
      OBVIOUS
  <2>3. R \in [0 .. h - 1 -> SUBSET A]
      BY <2>2
  <2>4. ASSUME NEW i \in 0 .. h - 1, NEW j \in 0 .. h - 1, i # j
        PROVE  R[i] \cap R[j] = {}
    <3>1. i # j + h /\ i + h # j /\ i + h # j + h
        BY <2>4
    <3>2. /\ S[i] \cap S[j] = {} /\ S[i] \cap S[j + h] = {}
          /\ S[i + h] \cap S[j] = {} /\ S[i + h] \cap S[j + h] = {}
        BY <2>1, <2>2, <2>4, <3>1
    <3> QED
        BY <3>2
  <2>5. ASSUME NEW x \in A
        PROVE  \E i \in 0 .. h - 1 : x \in R[i]
    <3>1. PICK i \in 0 .. 2 * h - 1 : x \in S[i]
        BY <2>1
    <3>2. CASE i < h
        BY <3>1, <3>2
    <3>3. CASE i >= h
      <4>1. i - h \in 0 .. h - 1 /\ (i - h) + h = i
          BY <3>3
      <4> QED
          BY <3>1, <4>1
    <3> QED
        BY <3>2, <3>3
  <2>6. ASSUME NEW l \in 0 .. h - 1
        PROVE  w[l] = SetToBag(R[l])
    <3>1. w[l] = SetToBag(S[l]) (+) SetToBag(S[l + h])
        BY <1>4, <2>1, <2>2
    <3>2. S[l] \cap S[l + h] = {}
        BY <2>1, <2>2
    <3>3. w[l] = SetToBag(S[l] \cup S[l + h])
        BY <3>1, <3>2, BagJoin
    <3> QED
        BY <3>3
  <2> HIDE DEF R
  <2> QED
      BY <2>3, <2>4, <2>5, <2>6 DEF Covers
<1> QED
    BY <1>3, <1>5

\* One iteration on the register and the offset of a warp.
LoopBody(s, always) ==
    [value |-> IF s.offset = 0 THEN s.value ELSE Level(s.value, s.offset, always),
     offset |-> s.offset \div 2]

LEMMA IterationFields ==
    ASSUME NEW s, NEW always
    PROVE  /\ LoopBody(s, always).offset = s.offset \div 2
           /\ LoopBody(s, always).value =
                 IF s.offset = 0 THEN s.value ELSE Level(s.value, s.offset, always)
    BY DEF LoopBody

\* What the loop holds before a level with this offset, when n lanes held A at first.
LoopInv(U, A, Q, s) ==
    /\ s \in [value : [Lanes -> BagsOf(U)], offset : 0 .. WarpSize]
    /\ \/ s.offset = 0 /\ Covers(s.value, 1, A)
       \/ s.offset \in Q /\ 2 * s.offset <= WarpSize /\ Covers(s.value, 2 * s.offset, A)

LEMMA LoopStep ==
    ASSUME NEW U, NEW A, NEW always, NEW Q \in SUBSET (1 .. WarpSize), PowersOfTwo(Q),
           NEW s, LoopInv(U, A, Q, s)
    PROVE  /\ LoopInv(U, A, Q, LoopBody(s, always))
           /\ s.offset = 0 => LoopBody(s, always).offset = 0
           /\ s.offset > 0 => LoopBody(s, always).offset < s.offset
<1> DEFINE v == s.value
           h == s.offset
           w == Level(v, h, always)
<1>0. WarpSize \in Nat \ {0} /\ v \in [Lanes -> BagsOf(U)] /\ h \in 0 .. WarpSize
    BY ReductionShape DEF LoopInv
<1>1. CASE h = 0
  <2>1. h \div 2 = 0
      BY <1>1
  <2>2. LoopBody(s, always) = [value |-> v, offset |-> 0]
      BY <1>1, <2>1 DEF LoopBody
  <2> QED
      BY <1>0, <1>1, <2>2 DEF LoopInv
<1>2. CASE h > 0
  <2>1. h \in Q /\ h \in Nat \ {0} /\ 2 * h <= WarpSize /\ Covers(v, 2 * h, A)
      BY <1>0, <1>2 DEF LoopInv
  <2>2. w \in [Lanes -> BagsOf(U)] /\ Covers(w, h, A)
    <3> HIDE DEF v, h
    <3> QED
        BY <1>0, <2>1, LevelCovers
  <2>3. LoopBody(s, always) = [value |-> w, offset |-> h \div 2]
      BY <1>2 DEF LoopBody
  <2> HIDE DEF v, h, w
  <2>4. CASE h = 1
    <3>1. h \div 2 = 0
        BY <2>4
    <3> QED
        BY <1>0, <2>2, <2>3, <2>4, <3>1 DEF LoopInv, h
  <2>5. CASE h # 1
    <3>1. h % 2 = 0 /\ h \div 2 \in Q
        BY <2>1, <2>5 DEF PowersOfTwo
    <3>2. 2 * (h \div 2) = h /\ h \div 2 \in 1 .. WarpSize /\ h \div 2 < h
        BY <1>0, <2>1, <2>5, <3>1
    <3>3. Covers(w, 2 * (h \div 2), A)
        BY <2>2, <3>2
    <3> QED
        BY <1>0, <2>1, <2>2, <2>3, <3>1, <3>2, <3>3 DEF LoopInv, h
  <2> QED
      BY <2>4, <2>5
<1> QED
    BY <1>0, <1>1, <1>2

LEMMA TreeCovers ==
    ASSUME NEW U, NEW A, NEW always, NEW Q \in SUBSET (1 .. WarpSize), PowersOfTwo(Q),
           NEW n \in Q, NEW v \in [Lanes -> BagsOf(U)], Covers(v, n, A)
    PROVE  /\ Tree(v, n \div 2, always) \in [Lanes -> BagsOf(U)]
           /\ Tree(v, n \div 2, always)[0] = SetToBag(A)
<1> DEFINE I == {s \in [value : [Lanes -> BagsOf(U)], offset : 0 .. WarpSize] : LoopInv(U, A, Q, s)}
           a == [value |-> v, offset |-> n \div 2]
           step == [s \in I |-> LoopBody(s, always)]
           Is(f) == f = [k \in 0 .. WarpSize |-> IF k = 0 THEN a ELSE LoopBody(f[k - 1], always)]
<1>0. WarpSize \in Nat \ {0}
    BY ReductionShape
<1>1. a \in I
  <2>1. CASE n = 1
    <3>1. n \div 2 = 0
        BY <2>1
    <3> QED
        BY <1>0, <2>1, <3>1 DEF LoopInv
  <2>2. CASE n # 1
    <3>1. n % 2 = 0 /\ n \div 2 \in Q
        BY <2>2 DEF PowersOfTwo
    <3>2. 2 * (n \div 2) = n /\ n \div 2 \in 1 .. WarpSize /\ n <= WarpSize
        BY <1>0, <2>2, <3>1
    <3>3. Covers(v, 2 * (n \div 2), A)
        BY <3>2
    <3> QED
        BY <1>0, <3>1, <3>2, <3>3 DEF LoopInv
  <2> QED
      BY <2>1, <2>2
<1>2. \A s \in I : LoopBody(s, always) \in I
  <2> TAKE s \in I
  <2>1. LoopInv(U, A, Q, LoopBody(s, always))
      BY LoopStep
  <2> QED
      BY <2>1 DEF LoopInv
<1>3. step \in [I -> I]
    BY <1>2
<1>4. PICK f \in [0 .. WarpSize -> I] : Iterates(f, WarpSize, a, step)
  <2> HIDE DEF I, a, step
  <2> QED
      BY <1>0, <1>1, <1>3, Recursion
<1>5. Is(f)
  <2> HIDE DEF I, a
  <2>1. \A k \in 0 .. WarpSize : k # 0 => step[f[k - 1]] = LoopBody(f[k - 1], always)
      BY <1>0
  <2> HIDE DEF step
  <2> QED
      BY <1>4, <2>1 DEF Iterates
<1> DEFINE o == [k \in 0 .. WarpSize |-> f[k].offset]
           g == [k \in 0 .. WarpSize |-> f[k].value]
           offset == Offset(n \div 2)
           reg == Loop(v, n \div 2, always)
           IsOffset(x) == x = [k \in 0 .. WarpSize |-> IF k = 0 THEN n \div 2 ELSE x[k - 1] \div 2]
           IsLoop(x) == x = [k \in 0 .. WarpSize |->
                                IF k = 0 THEN v ELSE IF offset[k - 1] = 0 THEN x[k - 1]
                                ELSE Level(x[k - 1], offset[k - 1], always)]
<1>f. /\ f[0].offset = n \div 2 /\ f[0].value = v
      /\ \A k \in 1 .. WarpSize :
            /\ f[k].offset = f[k - 1].offset \div 2
            /\ f[k].value = IF f[k - 1].offset = 0 THEN f[k - 1].value
                            ELSE Level(f[k - 1].value, f[k - 1].offset, always)
  <2>1. \A k \in 0 .. WarpSize : f[k] = IF k = 0 THEN a ELSE LoopBody(f[k - 1], always)
    <3> HIDE DEF a
    <3> QED
        BY <1>5
  <2>2. 0 \in 0 .. WarpSize /\ \A k \in 1 .. WarpSize : k \in 0 .. WarpSize /\ k # 0
      BY <1>0
  <2>3. f[0] = a /\ \A k \in 1 .. WarpSize : f[k] = LoopBody(f[k - 1], always)
    <3> HIDE DEF a
    <3> QED
        BY <2>1, <2>2, Zenon
  <2>4. f[0].offset = n \div 2 /\ f[0].value = v
      BY <2>3
  <2>5. ASSUME NEW k \in 1 .. WarpSize
        PROVE  /\ f[k].offset = f[k - 1].offset \div 2
               /\ f[k].value = IF f[k - 1].offset = 0 THEN f[k - 1].value
                               ELSE Level(f[k - 1].value, f[k - 1].offset, always)
    <3>1. f[k] = LoopBody(f[k - 1], always)
        BY <2>3
    <3> QED
        BY <3>1, IterationFields, Zenon
  <2> QED
      BY <2>4, <2>5
<1>6. IsOffset(offset)
  <2>1. \A k \in 0 .. WarpSize : k # 0 => k \in 1 .. WarpSize /\ k - 1 \in 0 .. WarpSize
      BY <1>0
  <2>2. IsOffset(o)
      BY <1>f, <2>1
  <2>3. offset = CHOOSE x : IsOffset(x)
      BY DEF Offset
  <2> HIDE DEF IsOffset, o, offset
  <2> QED
      BY <2>2, <2>3
<1>o. \A k \in 0 .. WarpSize : offset[k] = f[k].offset
  <2> DEFINE S == {k \in 0 .. WarpSize : offset[k] = f[k].offset}
  <2> HIDE DEF offset
  <2>a. \A k \in 0 .. WarpSize : offset[k] = IF k = 0 THEN n \div 2 ELSE offset[k - 1] \div 2
      BY <1>6
  <2>1. 0 \in S
      BY <1>0, <1>f, <2>a
  <2>2. \A k \in 1 .. WarpSize : k - 1 \in S => k \in S
      BY <1>0, <1>f, <2>a
  <2> HIDE DEF S
  <2>3. \A k \in 0 .. WarpSize : k \in S
      BY <1>0, <2>1, <2>2, Induction
  <2> QED
      BY <2>3 DEF S
<1>p. IsLoop(reg)
  <2>1. \A k \in 0 .. WarpSize : k # 0 => k \in 1 .. WarpSize /\ k - 1 \in 0 .. WarpSize
      BY <1>0
  <2>2. IsLoop(g)
    <3> HIDE DEF offset
    <3> QED
        BY <1>f, <1>o, <2>1
  <2>3. reg = CHOOSE x : IsLoop(x)
      BY DEF Loop
  <2> HIDE DEF IsLoop, g, reg
  <2> QED
      BY <2>2, <2>3
<1> DEFINE r == [k \in 0 .. WarpSize |-> [value |-> reg[k], offset |-> offset[k]]]
           S == {k \in 0 .. WarpSize : r[k] \in I /\ r[k].offset <= WarpSize - k}
<1>7. r[0] = a /\ \A k \in 1 .. WarpSize : r[k] = LoopBody(r[k - 1], always)
  <2> HIDE DEF reg, offset
  <2>1. 0 \in 0 .. WarpSize
        /\ \A k \in 1 .. WarpSize : k \in 0 .. WarpSize /\ k # 0 /\ k - 1 \in 0 .. WarpSize
      BY <1>0
  <2>2. /\ offset[0] = n \div 2
        /\ \A k \in 1 .. WarpSize : offset[k] = offset[k - 1] \div 2
      BY <1>6, <2>1
  <2>3. \A k \in 0 .. WarpSize :
            reg[k] = IF k = 0 THEN v ELSE IF offset[k - 1] = 0 THEN reg[k - 1]
                     ELSE Level(reg[k - 1], offset[k - 1], always)
      BY <1>p
  <2>4. r[0] = a
      BY <2>1, <2>2, <2>3
  <2>5. ASSUME NEW k \in 1 .. WarpSize
        PROVE  r[k] = LoopBody(r[k - 1], always)
    <3>1. r[k] = [value |-> reg[k], offset |-> offset[k]]
          /\ r[k - 1] = [value |-> reg[k - 1], offset |-> offset[k - 1]]
        BY <2>1
    <3>2. /\ offset[k] = offset[k - 1] \div 2
          /\ reg[k] = IF offset[k - 1] = 0 THEN reg[k - 1]
                      ELSE Level(reg[k - 1], offset[k - 1], always)
        BY <2>1, <2>2, <2>3
    <3> HIDE DEF r
    <3> QED
        BY <3>1, <3>2 DEF LoopBody
  <2> QED
      BY <2>4, <2>5
<1>e. r[WarpSize].value = Tree(v, n \div 2, always)
  <2> HIDE DEF offset
  <2> QED
      BY <1>0 DEF Tree
<1>8. 0 \in S
  <2>1. a.offset <= WarpSize
      BY <1>1
  <2> HIDE DEF I, a, r
  <2> QED
      BY <1>0, <1>1, <1>7, <2>1
<1>9. ASSUME NEW k \in 1 .. WarpSize, k - 1 \in S
      PROVE  k \in S
  <2> DEFINE s == r[k - 1]
             t == LoopBody(s, always)
  <2>1. s \in I /\ s.offset <= WarpSize - (k - 1) /\ r[k] = t
      BY <1>7, <1>9
  <2>2. t \in I /\ s.offset \in Nat /\ t.offset \in Nat
    <3>1. t \in I
      <4> HIDE DEF s
      <4> QED
          BY <1>2, <2>1
    <3> HIDE DEF s, t
    <3> QED
        BY <2>1, <3>1
  <2>3. (s.offset = 0 => t.offset = 0) /\ (s.offset > 0 => t.offset < s.offset)
    <3> HIDE DEF s
    <3>1. LoopInv(U, A, Q, s)
        BY <2>1
    <3> QED
        BY <3>1, LoopStep DEF t
  <2> HIDE DEF s, t, I, r
  <2> QED
      BY <1>0, <2>1, <2>2, <2>3
<1>10. WarpSize \in S
  <2> HIDE DEF S
  <2>1. WarpSize \in Nat /\ WarpSize \in 0 .. WarpSize
      BY <1>0
  <2>2. \A k \in 0 .. WarpSize : k \in S
      BY <1>8, <1>9, <2>1, Induction
  <2> QED
      BY <2>1, <2>2
<1>11. r[WarpSize] \in I /\ r[WarpSize].offset <= 0
    BY <1>0, <1>10
<1> HIDE DEF r
<1>12. /\ r[WarpSize].value \in [Lanes -> BagsOf(U)]
       /\ r[WarpSize].offset = 0 /\ Covers(r[WarpSize].value, 1, A)
    BY <1>0, <1>11 DEF LoopInv
<1>13. r[WarpSize].value[0] = SetToBag(A)
  <2>1. PICK P \in [0 .. 0 -> SUBSET A] :
            /\ \A x \in A : \E i \in 0 .. 0 : x \in P[i]
            /\ r[WarpSize].value[0] = SetToBag(P[0])
      BY <1>12 DEF Covers
  <2>a. 0 .. 0 = {0}
      OBVIOUS
  <2>2. P[0] = A
      BY <2>1, <2>a
  <2> QED
      BY <2>1, <2>2
<1> QED
    BY <1>12, <1>13, <1>e

LEMMA Division ==
    ASSUME NEW a \in Nat, NEW k \in Nat \ {0}
    PROVE  /\ a \div k \in Nat /\ a % k \in 0 .. k - 1
           /\ a = k * (a \div k) + (a % k)
    OBVIOUS

\* A quotient is determined by the interval its number lies in.
LEMMA Quotient ==
    ASSUME NEW q \in Int, NEW p \in Int, NEW k \in Nat \ {0}, NEW r \in 0 .. k - 1, NEW s \in 0 .. k - 1,
           k * q + r = k * p + s
    PROVE  q = p
<1>1. k * (q - p) = s - r
    OBVIOUS
<1>2. CASE q - p >= 1
  <2>1. k * (q - p) >= k
      BY <1>2
  <2> QED
      BY <1>1, <2>1
<1>3. CASE q - p <= -1
  <2>1. k * (q - p) <= -k
      BY <1>3
  <2> QED
      BY <1>1, <2>1
<1> QED
    BY <1>2, <1>3

LEMMA TileWarps ==
    ASSUME NEW n \in Nat, NEW k \in Nat \ {0}, n % k = 0, NEW w \in 0 .. n - 1
    PROVE  /\ w \div k \in 0 .. n - 1 /\ (w \div k) * k \in 0 .. n - 1
           /\ (w \div k) * k + (k - 1) <= n - 1
           /\ \A v \in 0 .. n - 1 : v \div k = w \div k <=> v \in (w \div k) * k .. (w \div k) * k + (k - 1)
           /\ ((w \div k) * k) \div k = w \div k /\ ((w \div k) * k) % k = 0
           /\ w % k = 0 => w = (w \div k) * k
<1> DEFINE q == w \div k
           N == n \div k
<1>1. q \in Nat /\ w % k \in 0 .. k - 1 /\ w = k * q + (w % k)
  <2>1. w \in Nat
      OBVIOUS
  <2> QED
      BY <2>1, Division
<1>2. N \in Nat /\ n = k * N
  <2>1. N \in Nat /\ n = k * N + (n % k)
      BY Division
  <2> QED
      BY <2>1
<1>a. k * q = q * k /\ k * N = N * k
    BY <1>1, <1>2
<1>b. k * q \in Nat
    BY <1>1
<1>3. q < N
  <2>1. SUFFICES ASSUME q >= N PROVE FALSE
      BY <1>1, <1>2
  <2>2. k * q >= k * N
      BY <1>1, <1>2, <2>1
  <2> QED
      BY <1>1, <1>2, <1>b, <2>2
<1>4. k * q + (k - 1) <= n - 1
  <2>1. k * (q + 1) <= k * N
      BY <1>1, <1>2, <1>3
  <2>2. k * (q + 1) = k * q + k
      BY <1>1
  <2> QED
      BY <1>2, <1>b, <2>1, <2>2
<1>5. q <= k * q
    BY <1>1
<1>6. q \in 0 .. n - 1 /\ k * q \in 0 .. n - 1
    BY <1>1, <1>4, <1>5, <1>b
<1>7. ASSUME NEW v \in 0 .. n - 1
      PROVE  v \div k = q <=> v \in k * q .. k * q + (k - 1)
  <2> DEFINE p == v \div k
             s == v % k
  <2>1. p \in Nat /\ s \in 0 .. k - 1 /\ v = k * p + s
    <3>1. v \in Nat
        OBVIOUS
    <3> QED
        BY <3>1, Division
  <2> HIDE DEF p, s, q
  <2>2. ASSUME p = q PROVE v \in k * q .. k * q + (k - 1)
      BY <1>b, <2>1, <2>2
  <2>3. ASSUME v \in k * q .. k * q + (k - 1) PROVE p = q
    <3>1. v - k * q \in 0 .. k - 1 /\ k * q + (v - k * q) = v
        BY <1>b, <2>3
    <3> QED
        BY <1>1, <2>1, <3>1, Quotient
  <2> QED
      BY <2>2, <2>3 DEF p
<1>8. (k * q) \div k = q /\ (k * q) % k = 0
  <2> DEFINE p == (k * q) \div k
             s == (k * q) % k
  <2>1. p \in Nat /\ s \in 0 .. k - 1 /\ k * q = k * p + s
    <3> HIDE DEF q
    <3> QED
        BY <1>b, Division
  <2> HIDE DEF p, s, q
  <2>2. 0 \in 0 .. k - 1 /\ k * p + s = k * q + 0
      BY <1>b, <2>1
  <2>3. p = q
      BY <1>1, <2>1, <2>2, Quotient
  <2>4. s = 0
      BY <1>b, <2>1, <2>3
  <2> QED
      BY <2>3, <2>4 DEF p, s
<1> HIDE DEF q
<1>9. w % k = 0 => w = k * q
    BY <1>1, <1>b
<1> QED
    BY <1>4, <1>6, <1>7, <1>8, <1>9, <1>a DEF q

Operands == Int \X Int \X Int
LaneOperands(w, c) == {<<w, l, c>> : l \in Lanes}

\* The operands of the lanes of k warps from warp b on.
SpanOperands(b, k, c) == {<<u, l, c>> : u \in b .. b + (k - 1), l \in Lanes}

\* The first warp of the tile of w, in the call that w executes.
Leader(w) == Tile(w) * WarpsPerTile(w)

LEMMA WarpTotal ==
    ASSUME NEW w \in Int, NEW c \in Int
    PROVE  /\ WarpTree([l \in Lanes |-> Contribution(w, l, c)]) \in [Lanes -> BagsOf(Operands)]
           /\ WarpTree([l \in Lanes |-> Contribution(w, l, c)])[0] = SetToBag(LaneOperands(w, c))
<1> DEFINE v == [l \in Lanes |-> Contribution(w, l, c)]
           A == LaneOperands(w, c)
           S == [l \in 0 .. WarpSize - 1 |-> {<<w, l, c>>}]
<1>1. PICK Q \in SUBSET (1 .. WarpSize) : PowersOfTwo(Q) /\ WarpSize \in Q
    BY ReductionShape
<1>2. v \in [Lanes -> BagsOf(Operands)]
  <2>1. \A l \in Lanes : {<<w, l, c>>} \in SUBSET Operands
      BY DEF Lanes, Operands
  <2>2. \A l \in Lanes : Contribution(w, l, c) \in BagsOf(Operands)
      BY <2>1, SetIsBag DEF Contribution
  <2> QED
      BY <2>2
<1>3. Covers(v, WarpSize, A)
  <2>1. S \in [0 .. WarpSize - 1 -> SUBSET A]
      BY DEF LaneOperands, Lanes
  <2>2. \A i, j \in 0 .. WarpSize - 1 : i # j => S[i] \cap S[j] = {}
      OBVIOUS
  <2>3. \A x \in A : \E i \in 0 .. WarpSize - 1 : x \in S[i]
      BY DEF LaneOperands, Lanes
  <2>4. \A l \in 0 .. WarpSize - 1 : v[l] = SetToBag(S[l])
      BY DEF Contribution, Lanes
  <2> HIDE DEF S, A, v
  <2> QED
      BY <2>1, <2>2, <2>3, <2>4 DEF Covers
<1>4. /\ Tree(v, WarpSize \div 2, Lanes) \in [Lanes -> BagsOf(Operands)]
      /\ Tree(v, WarpSize \div 2, Lanes)[0] = SetToBag(A)
  <2> HIDE DEF v, A
  <2> QED
      BY <1>1, <1>2, <1>3, TreeCovers
<1> QED
    BY <1>4 DEF WarpTree

\* The lanes hold the partial sums of the k warps from b on; the tree leaves their sum.
HoldsPartials(v, b, k, c) == \A l \in 0 .. k - 1 : v[l] = SetToBag(LaneOperands(b + l, c))
SumsPartials(v, b, k, c) == PartialTree(v, k)[0] = SetToBag(SpanOperands(b, k, c))

LEMMA PartialTotal ==
    ASSUME NEW b \in Int, NEW k \in Nat \ {0}, NEW c \in Int, NEW v \in [Lanes -> BagsOf(Operands)],
           NEW Q \in SUBSET (1 .. WarpSize), PowersOfTwo(Q), k \in Q, HoldsPartials(v, b, k, c)
    PROVE  SumsPartials(v, b, k, c)
<1> DEFINE A == SpanOperands(b, k, c)
           S == [i \in 0 .. k - 1 |-> LaneOperands(b + i, c)]
<1>3. Covers(v, k, A)
  <2>1. S \in [0 .. k - 1 -> SUBSET A]
    <3>1. \A i \in 0 .. k - 1 : b + i \in b .. b + (k - 1)
        OBVIOUS
    <3> QED
        BY <3>1 DEF LaneOperands, SpanOperands
  <2>2. \A i, j \in 0 .. k - 1 : i # j => S[i] \cap S[j] = {}
    <3>1. \A i, j \in 0 .. k - 1 : i # j => b + i # b + j
        OBVIOUS
    <3> QED
        BY <3>1 DEF LaneOperands
  <2>3. ASSUME NEW x \in A
        PROVE  \E i \in 0 .. k - 1 : x \in S[i]
    <3>1. PICK u \in b .. b + (k - 1), l \in Lanes : x = <<u, l, c>>
        BY DEF SpanOperands
    <3>2. u - b \in 0 .. k - 1 /\ b + (u - b) = u
        OBVIOUS
    <3> QED
        BY <3>1, <3>2 DEF LaneOperands
  <2>4. \A l \in 0 .. k - 1 : v[l] = SetToBag(S[l])
      BY DEF HoldsPartials
  <2> HIDE DEF S, A
  <2> QED
      BY <2>1, <2>2, <2>3, <2>4 DEF Covers
<1>4. /\ Tree(v, k \div 2, {}) \in [Lanes -> BagsOf(Operands)]
      /\ Tree(v, k \div 2, {})[0] = SetToBag(A)
  <2> HIDE DEF A
  <2> QED
      BY <1>3, TreeCovers
<1> QED
    BY <1>4 DEF PartialTree, SumsPartials

-----------------------------------------------------------------------------
Stages == {"enter", "barrier1", "fold", "barrier2", "read", "barrier3"}

\* The barrier a warp has passed last.
Passed(place) ==
    CASE place \in {"enter", "barrier1"} -> 0
      [] place \in {"fold", "barrier2"} -> 1
      [] OTHER -> 2

ReduceType ==
    /\ full \in [Warps -> BOOLEAN] /\ trapped \in BOOLEAN
    /\ rpc \in [Warps -> Stages]
    /\ call \in [Warps -> 1 .. Len(Calls) + 1]
    /\ warpSlot \in [Types -> [Warps -> BagsOf(Operands)]]
    /\ resultSlot \in [Types -> [Warps -> BagsOf(Operands)]]
    /\ results \in [Warps -> Seq(BagsOf(Operands))]

\* The warps of the block are between the same two barriers of the same call.
Abreast ==
    \A u, w \in Warps : call[u] = call[w] /\ Passed(rpc[u]) = Passed(rpc[w])

Started(w) == rpc[w] # "enter" \/ call[w] > 1

ReduceInv ==
    /\ ReduceType
    /\ Abreast
    /\ \A w \in Warps : rpc[w] # "enter" => call[w] <= Len(Calls)
    /\ \A w \in Warps : Started(w) => blockSize = BlockWarps * WarpSize /\ full[w]
    /\ \A w \in Warps :
          rpc[w] # "enter" => warpSlot[Type(w)][w] = SetToBag(LaneOperands(w, call[w]))
    /\ \A w \in Warps :
          rpc[w] \in {"barrier2", "read", "barrier3"} /\ LeadsTile(w) =>
             resultSlot[Type(w)][Tile(w)] = TileOperands(w, call[w])
    /\ \A w \in Warps :
          /\ Len(results[w]) = IF rpc[w] = "barrier3" THEN call[w] ELSE call[w] - 1
          /\ \A c \in 1 .. Len(results[w]) : results[w][c] = TileOperands(w, c)

LEMMA CallShape ==
    ASSUME ReduceType, NEW w \in Warps, call[w] <= Len(Calls)
    PROVE  /\ call[w] \in 1 .. Len(Calls) /\ Type(w) \in Types
           /\ WarpsPerTile(w) \in 1 .. WarpSize /\ BlockWarps % WarpsPerTile(w) = 0
<1>1. call[w] \in 1 .. Len(Calls)
    BY ReductionShape DEF ReduceType
<1>2. Calls[call[w]] \in [type : Types, wpt : 1 .. WarpSize]
  <2> DEFINE R == [type : Types, wpt : 1 .. WarpSize]
  <2>1. Calls \in Seq(R)
      BY ReductionShape
  <2> HIDE DEF R
  <2>2. Calls[call[w]] \in R
      BY <1>1, <2>1
  <2> QED
      BY <2>2 DEF R
<1> QED
    BY <1>1, <1>2, ReductionShape DEF Type, WarpsPerTile

LEMMA TileShape ==
    ASSUME ReduceType, NEW w \in Warps, call[w] <= Len(Calls)
    PROVE  /\ Tile(w) \in Warps /\ Leader(w) \in Warps
           /\ \A l \in 0 .. WarpsPerTile(w) - 1 : Leader(w) + l \in Warps
           /\ \A u \in Warps : u \div WarpsPerTile(w) = Tile(w) <=>
                                u \in Leader(w) .. Leader(w) + (WarpsPerTile(w) - 1)
           /\ Leader(w) \div WarpsPerTile(w) = Tile(w) /\ Leader(w) % WarpsPerTile(w) = 0
           /\ LeadsTile(w) => w = Leader(w)
<1> DEFINE k == WarpsPerTile(w)
<1>1. k \in Nat \ {0} /\ BlockWarps % k = 0 /\ BlockWarps \in Nat
    BY CallShape, ReductionShape
<1>2. w \in 0 .. BlockWarps - 1
    BY DEF Warps
<1> HIDE DEF k
<1>3. /\ w \div k \in 0 .. BlockWarps - 1 /\ (w \div k) * k \in 0 .. BlockWarps - 1
      /\ (w \div k) * k + (k - 1) <= BlockWarps - 1
      /\ \A v \in 0 .. BlockWarps - 1 :
            v \div k = w \div k <=> v \in (w \div k) * k .. (w \div k) * k + (k - 1)
      /\ ((w \div k) * k) \div k = w \div k /\ ((w \div k) * k) % k = 0
      /\ w % k = 0 => w = (w \div k) * k
    BY <1>1, <1>2, TileWarps
<1> DEFINE q == w \div k
           b == q * k
<1> HIDE DEF q, b
<1>4. \A l \in 0 .. k - 1 : b + l \in 0 .. BlockWarps - 1
  <2>1. b \in 0 .. BlockWarps - 1 /\ b + (k - 1) <= BlockWarps - 1
      BY <1>3 DEF q, b
  <2> QED
      BY <1>1, <2>1
<1>5. Tile(w) = q /\ Leader(w) = b
    BY DEF Tile, Leader, q, b, k
<1> QED
    BY <1>3, <1>4, <1>5 DEF Warps, LeadsTile, q, b, k

\* What every warp of a tile is to get, as the leader of the tile gathers it.
LEMMA TileTotal ==
    ASSUME ReduceType, NEW w \in Warps, call[w] <= Len(Calls)
    PROVE  TileOperands(w, call[w]) =
              SetToBag(SpanOperands(Leader(w), WarpsPerTile(w), call[w]))
<1> DEFINE k == WarpsPerTile(w)
           R == Leader(w) .. Leader(w) + (k - 1)
           T == {u \in Warps : u \div k = w \div k}
<1>1. T = R
  <2>1. Leader(w) \in Int /\ k \in Int /\ \A u \in R : u - Leader(w) \in 0 .. k - 1
                                                       /\ Leader(w) + (u - Leader(w)) = u
      BY TileShape, CallShape DEF Warps
  <2>2. \A u \in R : u \in Warps
      BY <2>1, TileShape
  <2>3. \A u \in Warps : u \in T <=> u \in R
      BY TileShape DEF Tile
  <2> QED
      BY <2>2, <2>3
<1>2. TileOperands(w, call[w]) = SetToBag({<<u, l, call[w]>> : u \in T, l \in Lanes})
    BY DEF TileOperands, WarpsPerTile
<1>3. SetToBag({<<u, l, call[w]>> : u \in T, l \in Lanes})
         = SetToBag({<<u, l, call[w]>> : u \in R, l \in Lanes})
  <2> HIDE DEF T, R
  <2> QED
      BY <1>1
<1> QED
    BY <1>2, <1>3 DEF SpanOperands

LEMMA TileOperandsBag ==
    ASSUME NEW w \in Warps, NEW c \in Int
    PROVE  TileOperands(w, c) \in BagsOf(Operands)
<1> DEFINE A == {<<v, l, c>> : v \in {u \in Warps : u \div Calls[c].wpt = w \div Calls[c].wpt},
                             l \in Lanes}
<1>1. A \in SUBSET Operands
    BY DEF Operands, Warps, Lanes
<1>2. SetToBag(A) \in BagsOf(Operands)
  <2> HIDE DEF A
  <2> QED
      BY <1>1, SetIsBag
<1> QED
    BY <1>2 DEF TileOperands

LEMMA ReduceInvInit ==
    ReduceInit => ReduceInv
<1> SUFFICES ASSUME ReduceInit PROVE ReduceInv
    OBVIOUS
<1>1. Len(Calls) \in Nat
    BY ReductionShape
<1>2. Uninitialised \in BagsOf(Operands)
  <2>1. {<<-1, -1, -1>>} \in SUBSET Operands
      BY DEF Operands
  <2> QED
      BY <2>1, SetIsBag DEF Uninitialised
<1>3. full \in [Warps -> BOOLEAN] /\ trapped \in BOOLEAN
    BY DEF ReduceInit
<1>4. \A w \in Warps : rpc[w] = "enter" /\ call[w] = 1 /\ results[w] = <<>>
    BY DEF ReduceInit
<1>5. ReduceType
    BY <1>1, <1>2, <1>3 DEF ReduceInit, ReduceType, Stages
<1>6. Abreast
    BY <1>4 DEF Abreast
<1>7. \A w \in Warps : Len(results[w]) = 0 /\ ~Started(w)
    BY <1>4 DEF Started
<1> QED
    BY <1>4, <1>5, <1>6, <1>7 DEF ReduceInv

\* The first tree leaves the sum of a warp's own operands in its slot.
LEMMA EnterKeepsInv ==
    ASSUME ReduceInv, NEW w \in Warps, EnterReduce(w)
    PROVE  ReduceInv'
<1> DEFINE reg == WarpTree([l \in Lanes |-> Contribution(w, l, call[w])])
           B == BagsOf(Operands)
<1>0. ReduceType /\ Abreast /\ rpc[w] = "enter" /\ call[w] <= Len(Calls)
    BY DEF ReduceInv, EnterReduce
<1>1. UNCHANGED <<blockSize, full, call, resultSlot, results>>
    BY DEF EnterReduce
<1>2. CASE blockSize # BlockWarps * WarpSize \/ ~full[w]
  <2>1. trapped' = TRUE /\ UNCHANGED <<rpc, warpSlot>>
      BY <1>2 DEF EnterReduce
  <2>2. ReduceType'
      BY <1>0, <1>1, <2>1 DEF ReduceType
  <2> QED
      BY <1>1, <2>1, <2>2 DEF ReduceInv, Abreast, Started, Type, Tile, LeadsTile, WarpsPerTile,
                              TileOperands, LaneOperands
<1>3. CASE blockSize = BlockWarps * WarpSize /\ full[w]
  <2>1. /\ warpSlot' = [warpSlot EXCEPT ![Type(w)][w] = reg[0]]
        /\ rpc' = [rpc EXCEPT ![w] = "barrier1"] /\ UNCHANGED trapped
      BY <1>3 DEF EnterReduce
  <2>2. reg \in [Lanes -> B] /\ reg[0] = SetToBag(LaneOperands(w, call[w])) /\ 0 \in Lanes
    <3>1. w \in Int /\ call[w] \in Int /\ 0 \in Lanes
        BY <1>0, CallShape, ReductionShape DEF Warps, Lanes
    <3> QED
        BY <3>1, WarpTotal
  <2> HIDE DEF reg
  <2>3. Type(w) \in Types /\ reg[0] \in B
      BY <1>0, <2>2, CallShape
  <2>4. /\ rpc' \in [Warps -> Stages] /\ rpc'[w] = "barrier1"
        /\ \A u \in Warps : u # w => rpc'[u] = rpc[u]
      BY <1>0, <2>1 DEF ReduceType, Stages
  <2>5. /\ warpSlot' \in [Types -> [Warps -> B]]
        /\ warpSlot'[Type(w)][w] = reg[0]
        /\ \A t \in Types : \A u \in Warps : u # w => warpSlot'[t][u] = warpSlot[t][u]
    <3> HIDE DEF B
    <3>1. warpSlot \in [Types -> [Warps -> B]]
        BY <1>0 DEF ReduceType, B
    <3> QED
        BY <2>1, <2>3, <3>1
  <2>6. ReduceType'
      BY <1>0, <1>1, <2>1, <2>4, <2>5 DEF ReduceType
  <2>7. \A u \in Warps : Passed(rpc'[u]) = Passed(rpc[u])
      BY <1>0, <2>4 DEF Passed
  <2>8. Abreast'
      BY <1>0, <1>1, <2>7 DEF Abreast
  <2>9. \A u \in Warps : rpc[u] \in {"enter", "barrier1"}
    <3>1. \A u \in Warps : Passed(rpc[u]) = 0
        BY <1>0 DEF Abreast, Passed
    <3> QED
        BY <1>0, <3>1 DEF Passed
  <2>10. \A u \in Warps : rpc'[u] \in {"enter", "barrier1"}
      BY <2>4, <2>9
  <2>11. \A u \in Warps : /\ call'[u] = call[u] /\ Type(u)' = Type(u)
                          /\ LaneOperands(u, call[u])' = LaneOperands(u, call[u])
      BY <1>1 DEF Type, LaneOperands
  <2>12. \A u \in Warps : rpc'[u] # "enter" => call'[u] <= Len(Calls)
      BY <1>0, <1>1, <2>4 DEF ReduceInv
  <2>13. \A u \in Warps : Started(u)' => blockSize' = BlockWarps * WarpSize /\ full'[u]
      BY <1>1, <1>3, <2>4 DEF ReduceInv, Started
  <2>14. ASSUME NEW u \in Warps, rpc'[u] # "enter"
         PROVE  warpSlot'[Type(u)'][u] = SetToBag(LaneOperands(u, call'[u]))
    <3>1. CASE u = w
        BY <2>2, <2>5, <2>11, <3>1
    <3>2. CASE u # w
      <4>1. rpc[u] # "enter" /\ call[u] <= Len(Calls)
          BY <2>4, <2>14, <3>2 DEF ReduceInv
      <4>2. Type(u) \in Types
          BY <1>0, <4>1, CallShape
      <4>3. warpSlot[Type(u)][u] = SetToBag(LaneOperands(u, call[u]))
          BY <4>1 DEF ReduceInv
      <4>4. warpSlot'[Type(u)'][u] = warpSlot[Type(u)][u]
          BY <2>5, <2>11, <3>2, <4>2
      <4> QED
          BY <2>11, <4>3, <4>4
    <3> QED
        BY <3>1, <3>2
  <2>15. \A u \in Warps :
            /\ Len(results'[u]) = IF rpc'[u] = "barrier3" THEN call'[u] ELSE call'[u] - 1
            /\ \A c \in 1 .. Len(results'[u]) : results'[u][c] = TileOperands(u, c)'
    <3>1. \A u \in Warps : rpc[u] # "barrier3" /\ rpc'[u] # "barrier3"
        BY <2>9, <2>10
    <3> QED
        BY <1>1, <3>1 DEF ReduceInv, TileOperands
  <2>16. \A u \in Warps : (LaneOperands(u, call[u]))' = LaneOperands(u, call'[u])
      BY DEF LaneOperands
  <2> QED
      BY <2>6, <2>8, <2>10, <2>12, <2>13, <2>14, <2>15, <2>16 DEF ReduceInv
<1> QED
    BY <1>2, <1>3

\* The second tree, run by the leader of a tile, leaves the sum of the tile in its slot.
LEMMA FoldedTotal ==
    ASSUME ReduceInv, NEW w \in Warps, FoldPartials(w), LeadsTile(w)
    PROVE  /\ resultSlot' = [resultSlot EXCEPT ![Type(w)][Tile(w)] = TileOperands(w, call[w])]
           /\ call[w] <= Len(Calls)
<1> DEFINE k == WarpsPerTile(w)
           loaded == [l \in Lanes |->
                         IF l < k THEN warpSlot[Type(w)][Tile(w) * k + l] ELSE Zero]
           reg == PartialTree(loaded, k)
<1>0. ReduceType /\ Abreast /\ rpc[w] = "fold" /\ call[w] <= Len(Calls)
    BY DEF ReduceInv, FoldPartials
<1>1. resultSlot' = [resultSlot EXCEPT ![Type(w)][Tile(w)] = reg[0]]
    BY DEF FoldPartials
<1>2. k \in 1 .. WarpSize /\ WarpSize \in Nat /\ call[w] \in 1 .. Len(Calls) /\ Type(w) \in Types
    BY <1>0, CallShape, ReductionShape
<1>3. PICK Q \in SUBSET (1 .. WarpSize) : PowersOfTwo(Q) /\ \A c \in 1 .. Len(Calls) : Calls[c].wpt \in Q
    BY ReductionShape
<1>4. k \in Q
    BY <1>2, <1>3 DEF WarpsPerTile
<1>5. /\ Leader(w) \in Warps /\ Leader(w) \in Int
      /\ \A l \in 0 .. k - 1 : Leader(w) + l \in Warps
  <2>1. /\ Leader(w) \in Warps
        /\ \A l \in 0 .. k - 1 : Leader(w) + l \in Warps
      BY <1>0, TileShape
  <2> QED
      BY <2>1 DEF Warps
<1>6. \A u \in Warps : /\ call[u] = call[w] /\ Type(u) = Type(w)
                       /\ warpSlot[Type(w)][u] = SetToBag(LaneOperands(u, call[w]))
                       /\ warpSlot[Type(w)][u] \in BagsOf(Operands)
  <2> TAKE u \in Warps
  <2>1. call[u] = call[w] /\ Passed(rpc[u]) = 1
      BY <1>0 DEF Abreast, Passed
  <2>2. rpc[u] # "enter"
      BY <2>1 DEF Passed
  <2>3. warpSlot[Type(u)][u] = SetToBag(LaneOperands(u, call[u])) /\ Type(u) = Type(w)
      BY <2>1, <2>2 DEF ReduceInv, Type
  <2> QED
      BY <1>0, <1>2, <2>1, <2>3 DEF ReduceType
<1>7. \A l \in Lanes : l < k => /\ l \in 0 .. k - 1
                               /\ loaded[l] = warpSlot[Type(w)][Leader(w) + l]
    BY <1>2 DEF Lanes, Leader
<1>8. loaded \in [Lanes -> BagsOf(Operands)]
  <2>1. Zero \in BagsOf(Operands)
    <3>1. {<<-1, -1, 0>>} \in SUBSET Operands
        BY DEF Operands
    <3> QED
        BY <3>1, SetIsBag DEF Zero
  <2>2. \A l \in Lanes : loaded[l] \in BagsOf(Operands)
    <3> TAKE l \in Lanes
    <3>1. CASE l < k
      <4>1. Leader(w) + l \in Warps /\ loaded[l] = warpSlot[Type(w)][Leader(w) + l]
          BY <1>5, <1>7, <3>1
      <4> HIDE DEF loaded
      <4> QED
          BY <1>6, <4>1
    <3>2. CASE ~(l < k)
        BY <2>1, <3>2
    <3> QED
        BY <3>1, <3>2
  <2> QED
      BY <2>2
<1>9. \A l \in 0 .. k - 1 : loaded[l] = SetToBag(LaneOperands(Leader(w) + l, call[w]))
  <2> TAKE l \in 0 .. k - 1
  <2>1. l \in Lanes /\ l < k
      BY <1>2 DEF Lanes
  <2>2. Leader(w) + l \in Warps /\ loaded[l] = warpSlot[Type(w)][Leader(w) + l]
      BY <1>5, <1>7, <2>1
  <2> HIDE DEF loaded
  <2> QED
      BY <1>6, <2>2
<1>10. reg[0] = SetToBag(SpanOperands(Leader(w), k, call[w]))
  <2>1. k \in Nat \ {0} /\ call[w] \in Int
      BY <1>2, ReductionShape
  <2> DEFINE b == Leader(w)
             c == call[w]
  <2>2. b \in Int /\ c \in Int /\ HoldsPartials(loaded, b, k, c)
      BY <1>5, <1>9, <2>1 DEF HoldsPartials
  <2> HIDE DEF loaded, k, b, c
  <2>3. SumsPartials(loaded, b, k, c)
    <3>1. PowersOfTwo(Q) /\ k \in Q /\ k \in Nat \ {0} /\ b \in Int /\ c \in Int
        BY <1>3, <1>4, <2>1, <2>2
    <3>2. loaded \in [Lanes -> BagsOf(Operands)]
        BY <1>8
    <3> HIDE DEF reg
    <3> QED
        BY <2>2, <3>1, <3>2, PartialTotal, Zenon
  <2> QED
      BY <2>3 DEF b, c, SumsPartials
<1> HIDE DEF reg
<1>11. reg[0] = TileOperands(w, call[w])
    BY <1>0, <1>10, TileTotal
<1>12. LeadsTile(w) => resultSlot' = [resultSlot EXCEPT ![Type(w)][Tile(w)] = reg[0]]
    BY <1>1
<1> QED
    BY <1>0, <1>11, <1>12

\* Two warps that lead tiles of one size lead different tiles.
LEMMA LeadersDiffer ==
    ASSUME ReduceType, NEW u \in Warps, NEW w \in Warps, call[u] = call[w], call[w] <= Len(Calls),
           LeadsTile(u), LeadsTile(w), Tile(u) = Tile(w)
    PROVE  u = w
<1>1. u = Leader(u) /\ w = Leader(w)
    BY TileShape
<1>2. WarpsPerTile(u) = WarpsPerTile(w)
    BY DEF WarpsPerTile
<1> QED
    BY <1>1, <1>2 DEF Leader

LEMMA FoldKeepsInv ==
    ASSUME ReduceInv, NEW w \in Warps, FoldPartials(w)
    PROVE  ReduceInv'
<1> DEFINE B == BagsOf(Operands)
<1>0. ReduceType /\ Abreast /\ rpc[w] = "fold" /\ call[w] <= Len(Calls)
    BY DEF ReduceInv, FoldPartials
<1>1. /\ UNCHANGED <<blockSize, full, call, warpSlot, results, trapped>>
      /\ rpc' = [rpc EXCEPT ![w] = "barrier2"]
    BY DEF FoldPartials
<1>2. /\ rpc' \in [Warps -> Stages] /\ rpc'[w] = "barrier2"
      /\ \A u \in Warps : u # w => rpc'[u] = rpc[u]
    BY <1>0, <1>1 DEF ReduceType, Stages
<1>3. Type(w) \in Types /\ Tile(w) \in Warps /\ TileOperands(w, call[w]) \in B
      /\ call[w] \in 1 .. Len(Calls)
    BY <1>0, CallShape, TileShape, TileOperandsBag, ReductionShape
<1>4. /\ resultSlot' \in [Types -> [Warps -> B]]
      /\ LeadsTile(w) => resultSlot'[Type(w)][Tile(w)] = TileOperands(w, call[w])
      /\ \A t \in Types : \A i \in Warps :
            ~LeadsTile(w) \/ i # Tile(w) => resultSlot'[t][i] = resultSlot[t][i]
  <2>1. resultSlot \in [Types -> [Warps -> B]]
      BY <1>0 DEF ReduceType
  <2>2. CASE LeadsTile(w)
    <3>1. resultSlot' = [resultSlot EXCEPT ![Type(w)][Tile(w)] = TileOperands(w, call[w])]
        BY <2>2, FoldedTotal
    <3> HIDE DEF B
    <3> QED
        BY <1>3, <2>1, <2>2, <3>1
  <2>3. CASE ~LeadsTile(w)
    <3>1. resultSlot' = resultSlot
        BY <2>3 DEF FoldPartials
    <3> QED
        BY <2>1, <2>3, <3>1
  <2> QED
      BY <2>2, <2>3
<1>5. ReduceType'
    BY <1>0, <1>1, <1>2, <1>4 DEF ReduceType
<1>6. \A u \in Warps : Passed(rpc'[u]) = Passed(rpc[u])
    BY <1>0, <1>2 DEF Passed
<1>7. Abreast'
    BY <1>0, <1>1, <1>6 DEF Abreast
<1>8. \A u \in Warps : /\ rpc[u] \in {"fold", "barrier2"} /\ rpc'[u] \in {"fold", "barrier2"}
                       /\ call[u] = call[w]
  <2>1. \A u \in Warps : Passed(rpc[u]) = 1 /\ call[u] = call[w]
      BY <1>0 DEF Abreast, Passed
  <2>2. \A u \in Warps : rpc[u] \in {"fold", "barrier2"}
      BY <1>0, <2>1 DEF Passed, ReduceType, Stages
  <2> QED
      BY <1>2, <2>1, <2>2
<1>9. \A u \in Warps : /\ call'[u] = call[u] /\ Type(u)' = Type(u) /\ Tile(u)' = Tile(u)
                       /\ LeadsTile(u)' = LeadsTile(u)
                       /\ TileOperands(u, call[u])' = TileOperands(u, call[u])
    BY <1>1 DEF Type, Tile, LeadsTile, WarpsPerTile, TileOperands
<1>10. \A u \in Warps : rpc'[u] # "enter" => call'[u] <= Len(Calls)
    BY <1>0, <1>1, <1>8
<1>11. \A u \in Warps : Started(u)' => blockSize' = BlockWarps * WarpSize /\ full'[u]
    BY <1>1, <1>8 DEF ReduceInv, Started
<1>12. \A u \in Warps :
          rpc'[u] # "enter" => warpSlot'[Type(u)'][u] = SetToBag(LaneOperands(u, call'[u]))
    BY <1>1, <1>8, <1>9 DEF ReduceInv
<1>13. ASSUME NEW u \in Warps, rpc'[u] \in {"barrier2", "read", "barrier3"}, LeadsTile(u)'
       PROVE  resultSlot'[Type(u)'][Tile(u)'] = TileOperands(u, call'[u])
  <2>1. LeadsTile(u) /\ call[u] = call[w] /\ call[u] <= Len(Calls) /\ Type(u) = Type(w)
      BY <1>0, <1>8, <1>9, <1>13 DEF Type
  <2>2. CASE u = w
      BY <1>4, <1>9, <1>13, <2>2
  <2>3. CASE u # w
    <3>1. rpc[u] = "barrier2"
        BY <1>2, <1>8, <1>13, <2>3
    <3>2. resultSlot[Type(u)][Tile(u)] = TileOperands(u, call[u])
        BY <2>1, <3>1 DEF ReduceInv
    <3>3. ~LeadsTile(w) \/ Tile(u) # Tile(w)
        BY <1>0, <2>1, <2>3, LeadersDiffer
    <3>4. Tile(u) \in Warps /\ Type(u) \in Types
        BY <1>0, <2>1, CallShape, TileShape
    <3> QED
        BY <1>4, <1>9, <3>2, <3>3, <3>4
  <2> QED
      BY <2>2, <2>3
<1>14. \A u \in Warps :
          /\ Len(results'[u]) = IF rpc'[u] = "barrier3" THEN call'[u] ELSE call'[u] - 1
          /\ \A c \in 1 .. Len(results'[u]) : results'[u][c] = TileOperands(u, c)'
  <2>1. \A u \in Warps : rpc[u] # "barrier3" /\ rpc'[u] # "barrier3"
      BY <1>8
  <2> QED
      BY <1>1, <2>1 DEF ReduceInv, TileOperands
<1>15. \A u \in Warps : /\ (LaneOperands(u, call[u]))' = LaneOperands(u, call'[u])
                        /\ (TileOperands(u, call[u]))' = TileOperands(u, call'[u])
    BY DEF LaneOperands, TileOperands
<1> QED
    BY <1>5, <1>7, <1>10, <1>11, <1>12, <1>13, <1>14, <1>15 DEF ReduceInv

\* Between the last two barriers the slot of a tile holds its sum, for each of its warps.
LEMMA SlotReady ==
    ASSUME ReduceInv, NEW w \in Warps, rpc[w] = "read"
    PROVE  resultSlot[Type(w)][Tile(w)] = TileOperands(w, call[w])
<1> DEFINE v == Leader(w)
<1>1. ReduceType /\ Abreast /\ call[w] <= Len(Calls)
    BY DEF ReduceInv
<1>2. v \in Warps /\ v \div WarpsPerTile(w) = Tile(w) /\ v % WarpsPerTile(w) = 0
    BY <1>1, TileShape
<1> HIDE DEF v
<1>3. call[v] = call[w] /\ Passed(rpc[v]) = 2 /\ rpc[v] \in Stages
    BY <1>1, <1>2 DEF Abreast, Passed, ReduceType
<1>4. rpc[v] \in {"read", "barrier3"}
    BY <1>3 DEF Passed, Stages
<1>5. WarpsPerTile(v) = WarpsPerTile(w) /\ Type(v) = Type(w)
    BY <1>3 DEF WarpsPerTile, Type
<1>6. Tile(v) = Tile(w) /\ LeadsTile(v)
    BY <1>2, <1>5 DEF Tile, LeadsTile
<1>7. resultSlot[Type(v)][Tile(v)] = TileOperands(v, call[v])
    BY <1>2, <1>4, <1>6 DEF ReduceInv
<1>8. Leader(v) = Leader(w)
    BY <1>5, <1>6 DEF Leader
<1>9. TileOperands(v, call[v]) = TileOperands(w, call[w])
  <2>1. TileOperands(v, call[v]) = SetToBag(SpanOperands(Leader(v), WarpsPerTile(v), call[v]))
      BY <1>1, <1>2, <1>3, TileTotal
  <2>2. TileOperands(w, call[w]) = SetToBag(SpanOperands(Leader(w), WarpsPerTile(w), call[w]))
      BY <1>1, TileTotal
  <2> QED
      BY <1>3, <1>5, <1>8, <2>1, <2>2
<1> QED
    BY <1>5, <1>6, <1>7, <1>9

LEMMA ReadKeepsInv ==
    ASSUME ReduceInv, NEW w \in Warps, ReadResult(w)
    PROVE  ReduceInv'
<1> DEFINE B == BagsOf(Operands)
           sum == TileOperands(w, call[w])
<1>0. ReduceType /\ Abreast /\ rpc[w] = "read" /\ call[w] <= Len(Calls)
    BY DEF ReduceInv, ReadResult
<1>1. /\ UNCHANGED <<blockSize, full, call, warpSlot, resultSlot, trapped>>
      /\ rpc' = [rpc EXCEPT ![w] = "barrier3"]
      /\ results' = [results EXCEPT ![w] = Append(@, sum)]
    BY <1>0, SlotReady DEF ReadResult
<1>2. /\ rpc' \in [Warps -> Stages] /\ rpc'[w] = "barrier3"
      /\ \A u \in Warps : u # w => rpc'[u] = rpc[u]
    BY <1>0, <1>1 DEF ReduceType, Stages
<1>3. sum \in B /\ call[w] \in 1 .. Len(Calls) /\ Len(Calls) \in Nat
    BY <1>0, CallShape, TileOperandsBag, ReductionShape
<1>4. /\ results' \in [Warps -> Seq(B)]
      /\ results'[w] = Append(results[w], sum) /\ results[w] \in Seq(B)
      /\ \A u \in Warps : u # w => results'[u] = results[u]
  <2>1. results \in [Warps -> Seq(B)]
      BY <1>0 DEF ReduceType
  <2> HIDE DEF B, sum
  <2> QED
      BY <1>1, <1>3, <2>1
<1>5. ReduceType'
    BY <1>0, <1>1, <1>2, <1>4 DEF ReduceType
<1>6. \A u \in Warps : Passed(rpc'[u]) = Passed(rpc[u])
    BY <1>0, <1>2 DEF Passed
<1>7. Abreast'
    BY <1>0, <1>1, <1>6 DEF Abreast
<1>8. \A u \in Warps : rpc[u] \in {"read", "barrier3"} /\ rpc'[u] \in {"read", "barrier3"}
  <2>1. \A u \in Warps : Passed(rpc[u]) = 2 /\ rpc[u] \in Stages
      BY <1>0 DEF Abreast, Passed, ReduceType
  <2>2. \A u \in Warps : rpc[u] \in {"read", "barrier3"}
      BY <2>1 DEF Passed, Stages
  <2> QED
      BY <1>2, <2>2
<1>9. \A u \in Warps : /\ call'[u] = call[u] /\ Type(u)' = Type(u) /\ Tile(u)' = Tile(u)
                       /\ LeadsTile(u)' = LeadsTile(u)
    BY <1>1 DEF Type, Tile, LeadsTile, WarpsPerTile
<1>10. \A u \in Warps : rpc'[u] # "enter" => call'[u] <= Len(Calls)
    BY <1>0, <1>1, <1>8 DEF ReduceInv
<1>11. \A u \in Warps : Started(u)' => blockSize' = BlockWarps * WarpSize /\ full'[u]
    BY <1>1, <1>8 DEF ReduceInv, Started
<1>12. \A u \in Warps :
          rpc'[u] # "enter" => warpSlot'[Type(u)'][u] = SetToBag(LaneOperands(u, call'[u]))
    BY <1>1, <1>8, <1>9 DEF ReduceInv
<1>13. \A u \in Warps : rpc'[u] \in {"barrier2", "read", "barrier3"} /\ LeadsTile(u)' =>
                          resultSlot'[Type(u)'][Tile(u)'] = TileOperands(u, call'[u])
    BY <1>1, <1>8, <1>9 DEF ReduceInv
<1>14. ASSUME NEW u \in Warps
       PROVE  /\ Len(results'[u]) = IF rpc'[u] = "barrier3" THEN call'[u] ELSE call'[u] - 1
              /\ \A c \in 1 .. Len(results'[u]) : results'[u][c] = TileOperands(u, c)
  <2>1. /\ Len(results[u]) = IF rpc[u] = "barrier3" THEN call[u] ELSE call[u] - 1
        /\ \A c \in 1 .. Len(results[u]) : results[u][c] = TileOperands(u, c)
      BY DEF ReduceInv
  <2>2. CASE u # w
      BY <1>1, <1>2, <1>4, <2>1, <2>2
  <2>3. CASE u = w
    <3> DEFINE r == results[w]
               n == call[w]
    <3>1. r \in Seq(B) /\ Len(r) = n - 1 /\ n \in Nat /\ results'[w] = Append(r, sum)
        BY <1>0, <1>3, <1>4, <2>1, <2>3
    <3>2. \A c \in 1 .. Len(r) : r[c] = TileOperands(w, c)
        BY <2>1, <2>3
    <3>3. sum = TileOperands(w, n)
        OBVIOUS
    <3>4. call'[w] = n
        BY <1>1
    <3> HIDE DEF r, n, sum, B
    <3>5. Len(Append(r, sum)) = n /\ Append(r, sum)[n] = sum
        BY <3>1
    <3>6. \A c \in 1 .. n - 1 : Append(r, sum)[c] = r[c]
        BY <3>1
    <3>7. \A c \in 1 .. n : Append(r, sum)[c] = TileOperands(w, c)
      <4> TAKE c \in 1 .. n
      <4>1. CASE c = n
          BY <3>3, <3>5, <4>1
      <4>2. CASE c # n
          BY <3>1, <3>2, <3>6, <4>2
      <4> QED
          BY <4>1, <4>2
    <3> QED
        BY <1>2, <2>3, <3>1, <3>4, <3>5, <3>7
  <2> QED
      BY <2>2, <2>3
<1>15. /\ \A u \in Warps : \A c : (TileOperands(u, c))' = TileOperands(u, c)
       /\ \A u \in Warps : /\ (LaneOperands(u, call[u]))' = LaneOperands(u, call'[u])
                          /\ (TileOperands(u, call[u]))' = TileOperands(u, call'[u])
    BY DEF LaneOperands, TileOperands
<1> QED
    BY <1>5, <1>7, <1>10, <1>11, <1>12, <1>13, <1>14, <1>15 DEF ReduceInv

LEMMA BarrierKeepsInv ==
    ASSUME ReduceInv, BlockBarrier
    PROVE  ReduceInv'
<1>0. ReduceType /\ Abreast
    BY DEF ReduceInv
<1>1. /\ UNCHANGED <<blockSize, full, warpSlot, resultSlot, results, trapped>>
      /\ \A w \in Warps : rpc[w] \in {"barrier1", "barrier2", "barrier3"}
      /\ rpc' = [w \in Warps |-> AfterBarrier[rpc[w]]]
      /\ call' = [w \in Warps |-> IF rpc[w] = "barrier3" THEN call[w] + 1 ELSE call[w]]
    BY DEF BlockBarrier, AfterBarrier
<1>2. Len(Calls) \in Nat /\ \A w \in Warps : call[w] \in 1 .. Len(Calls)
    BY <1>0, <1>1, CallShape, ReductionShape DEF ReduceInv
<1>3. \A w \in Warps :
        \/ rpc[w] = "barrier1" /\ rpc'[w] = "fold" /\ call'[w] = call[w]
        \/ rpc[w] = "barrier2" /\ rpc'[w] = "read" /\ call'[w] = call[w]
        \/ rpc[w] = "barrier3" /\ rpc'[w] = "enter" /\ call'[w] = call[w] + 1
    BY <1>1 DEF AfterBarrier
<1>4. rpc' \in [Warps -> Stages] /\ call' \in [Warps -> 1 .. Len(Calls) + 1]
  <2>1. \A w \in Warps : rpc'[w] \in Stages /\ call'[w] \in 1 .. Len(Calls) + 1
      BY <1>2, <1>3 DEF Stages
  <2> QED
      BY <1>1, <2>1
<1>5. ReduceType'
    BY <1>0, <1>1, <1>4 DEF ReduceType
<1>6. Abreast'
  <2> SUFFICES ASSUME NEW u \in Warps, NEW w \in Warps
               PROVE  call'[u] = call'[w] /\ Passed(rpc'[u]) = Passed(rpc'[w])
      BY DEF Abreast
  <2>1. call[u] = call[w] /\ Passed(rpc[u]) = Passed(rpc[w])
      BY <1>0 DEF Abreast
  <2>2. rpc[u] = rpc[w]
      BY <1>1, <2>1 DEF Passed
  <2> QED
      BY <1>1, <2>1, <2>2
<1>7. \A w \in Warps : rpc'[w] # "enter" => call'[w] <= Len(Calls)
    BY <1>2, <1>3
<1>8. \A w \in Warps : Started(w)' => blockSize' = BlockWarps * WarpSize /\ full'[w]
    BY <1>1 DEF ReduceInv, Started
<1>9. \A w \in Warps : call'[w] = call[w] => /\ Type(w)' = Type(w) /\ Tile(w)' = Tile(w)
                                            /\ LeadsTile(w)' = LeadsTile(w)
    BY DEF Type, Tile, LeadsTile, WarpsPerTile
<1>10. ASSUME NEW w \in Warps, rpc'[w] # "enter"
       PROVE  warpSlot'[Type(w)'][w] = SetToBag(LaneOperands(w, call'[w]))
  <2>1. call'[w] = call[w] /\ rpc[w] # "enter"
      BY <1>3, <1>10
  <2> QED
      BY <1>1, <1>9, <2>1 DEF ReduceInv
<1>11. ASSUME NEW w \in Warps, rpc'[w] \in {"barrier2", "read", "barrier3"}, LeadsTile(w)'
       PROVE  resultSlot'[Type(w)'][Tile(w)'] = TileOperands(w, call'[w])
  <2>1. call'[w] = call[w] /\ rpc[w] = "barrier2"
      BY <1>3, <1>11
  <2> QED
      BY <1>1, <1>9, <1>11, <2>1 DEF ReduceInv
<1>12. ASSUME NEW w \in Warps
       PROVE  /\ Len(results'[w]) = IF rpc'[w] = "barrier3" THEN call'[w] ELSE call'[w] - 1
              /\ \A c \in 1 .. Len(results'[w]) : results'[w][c] = TileOperands(w, c)
  <2>1. /\ Len(results[w]) = IF rpc[w] = "barrier3" THEN call[w] ELSE call[w] - 1
        /\ \A c \in 1 .. Len(results[w]) : results[w][c] = TileOperands(w, c)
      BY DEF ReduceInv
  <2> QED
      BY <1>1, <1>2, <1>3, <2>1
<1>13. /\ \A u \in Warps : \A c : (TileOperands(u, c))' = TileOperands(u, c)
       /\ \A u \in Warps : /\ (LaneOperands(u, call[u]))' = LaneOperands(u, call'[u])
                          /\ (TileOperands(u, call[u]))' = TileOperands(u, call'[u])
    BY DEF LaneOperands, TileOperands
<1> QED
    BY <1>5, <1>6, <1>7, <1>8, <1>10, <1>11, <1>12, <1>13 DEF ReduceInv

LEMMA ReduceInvNext ==
    ReduceInv /\ [ReduceNext]_reduceVars => ReduceInv'
<1> SUFFICES ASSUME ReduceInv, [ReduceNext]_reduceVars PROVE ReduceInv'
    OBVIOUS
<1>1. ASSUME NEW w \in Warps, EnterReduce(w) PROVE ReduceInv'
    BY <1>1, EnterKeepsInv
<1>2. ASSUME NEW w \in Warps, FoldPartials(w) PROVE ReduceInv'
    BY <1>2, FoldKeepsInv
<1>3. ASSUME NEW w \in Warps, ReadResult(w) PROVE ReduceInv'
    BY <1>3, ReadKeepsInv
<1>4. ASSUME BlockBarrier PROVE ReduceInv'
    BY <1>4, BarrierKeepsInv
<1>5. ASSUME UNCHANGED reduceVars PROVE ReduceInv'
    BY <1>5 DEF reduceVars, ReduceInv, ReduceType, Abreast, Started, Type, Tile, LeadsTile,
                WarpsPerTile, LaneOperands, TileOperands
<1> QED
    BY <1>1, <1>2, <1>3, <1>4, <1>5 DEF ReduceNext

\* However the warps of a block interleave between the barriers and reuse the scratch
\* slots call after call, each gets from its n-th reduce exactly the operands of its tile
\* in call n, and none gets a value in a block of the wrong size or with an inactive lane;
\* for any block, tile sizes and sequence of calls (uniform_block_reduction_compat.hpp).
THEOREM ReductionsAreExact == ReduceSpec => []ReduceExact
<1>1. ReduceInv => ReduceExact
  <2> SUFFICES ASSUME ReduceInv, NEW w \in Warps
               PROVE  /\ \A c \in 1 .. Len(results[w]) : results[w][c] = TileOperands(w, c)
                      /\ results[w] # <<>> =>
                            blockSize = BlockWarps * WarpSize /\ \A v \in Warps : full[v]
      BY DEF ReduceExact
  <2>1. \A c \in 1 .. Len(results[w]) : results[w][c] = TileOperands(w, c)
      BY DEF ReduceInv
  <2>2. ASSUME results[w] # <<>>
        PROVE  blockSize = BlockWarps * WarpSize /\ \A v \in Warps : full[v]
    <3>1. ReduceType /\ Abreast
        BY DEF ReduceInv
    <3>2. results[w] \in Seq(BagsOf(Operands)) /\ call[w] \in Nat
        BY <3>1, ReductionShape DEF ReduceType
    <3>3. Len(results[w]) # 0
        BY <2>2, <3>2
    <3>4. rpc[w] = "barrier3" \/ call[w] > 1
        BY <3>2, <3>3 DEF ReduceInv
    <3>5. \A v \in Warps : Started(v)
      <4> TAKE v \in Warps
      <4>1. call[v] = call[w] /\ Passed(rpc[v]) = Passed(rpc[w])
          BY <3>1 DEF Abreast
      <4>2. rpc[w] = "barrier3" => rpc[v] # "enter"
          BY <4>1 DEF Passed
      <4> QED
          BY <3>4, <4>1, <4>2 DEF Started
    <3> QED
        BY <3>5 DEF ReduceInv
  <2> QED
      BY <2>1, <2>2
<1> QED
    BY <1>1, ReduceInvInit, ReduceInvNext, PTL DEF ReduceSpec
=============================================================================
