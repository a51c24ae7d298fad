---------------------- MODULE RuntimeLifecycle_proofs ----------------------
(***************************************************************************)
(* Proofs for every number of host threads, devices and calls and every    *)
(* capacity of the device table: the types, that teardown knows each bound *)
(* device, that it runs while the SDK is alive, and that the profiler's    *)
(* session unwinds in order.  For the calls of the row-wise kernels, that   *)
(* a call has one owner and that its rows may run in any order.  And for   *)
(* loops of block reductions, that storage may be reused between calls.    *)
(***************************************************************************)
EXTENDS RuntimeLifecycle, RowwiseRoute, AclcubCalls, FiniteSetTheorems, WellFoundedInduction, TLAPS

Callbacks == {"mgr", "sdk", "prof", "sdkprof"}
Labels == Initialising \cup {"idle", "query", "bind", "reset", "start", "stop"}
Managers == [attempted : BOOLEAN, owns : BOOLEAN, shutdown : BOOLEAN, deviceCleanup : BOOLEAN,
             status : {"ok", "init", "register"}, active : Seq(Devices)]
Profilers == [initialized : BOOLEAN, config : BOOLEAN, active : BOOLEAN,
              registered : BOOLEAN, failed : BOOLEAN, device : Devices \cup {None}]

\* The values of the variables.
TypeOK ==
  /\ acl \in {"none", "app", "ascify", "finalized"}
  /\ live \subseteq Devices /\ lost \subseteq Devices /\ built \in BOOLEAN
  /\ ctx \in [Threads -> Devices \cup {None}]
  /\ stack \in Seq(Callbacks) /\ gone \subseteq Callbacks
  /\ mgr \in Managers /\ prof \in Profilers
  /\ phase \in {"run", "exit", "done"} /\ todo \in Seq(Devices) /\ finalize \in BOOLEAN
  /\ pc \in [Threads -> Labels] /\ op \in [Threads -> Ops \cup {"none"}]
  /\ arg \in [Threads -> Devices] /\ sel \in [Threads -> Devices]
  /\ ret \in [Threads -> {"none", "ok", "error"}] /\ calls \in Nat

\* Which operations reach which step, and that a step behind ensureInitialized
\* follows an attempt.
CallsInOrder ==
  \A t \in Threads :
    /\ pc[t] \in {"init", "bind"} => op[t] \in {"set", "ready", "reset", "start"}
    /\ pc[t] \in {"query", "initBind"} => op[t] \in {"ready", "reset", "start"}
    /\ pc[t] \in {"initReset", "reset"} => op[t] = "reset"
    /\ pc[t] \in {"query", "bind", "initBind", "initReset", "reset"} => mgr.attempted

\* Who has initialised ACL, as the manager sees it.
Ownership ==
  /\ ~mgr.attempted => acl \in {"none", "app"} /\ mgr.status = "ok"
  /\ mgr.attempted /\ Usable => acl \in {"app", "ascify"}
  /\ acl = "ascify" /\ Usable => mgr.owns
  /\ mgr.owns => acl = "ascify" /\ mgr.attempted
  /\ finalize => acl = "ascify" /\ mgr.shutdown
  /\ acl = "none" => live = {}

\* shutdown empties the table, and only it fills the list of resets.
Handover ==
  /\ mgr.shutdown => mgr.active = <<>> /\ ~mgr.owns
  /\ todo # <<>> => mgr.shutdown
  /\ mgr.active # <<>> => mgr.deviceCleanup
  /\ mgr.deviceCleanup => built /\ mgr.attempted
  /\ acl = "none" => ~mgr.deviceCleanup

\* An application that owns ACL has joined its threads before the exit.
AppJoins == phase # "run" /\ acl = "app" => \A t \in Threads : pc[t] = "idle"

Sheltered(s) == \A i \in DOMAIN s : s[i] = "sdk" => \E j \in 1 .. i - 1 : s[j] = "mgr"
NoSdk(s) == \A i \in DOMAIN s : s[i] # "sdk"

\* While shutdown has something to do, each SDK destructor has a shutdown above it.
Guarded ==
  ~mgr.shutdown /\ (mgr.owns \/ mgr.deviceCleanup) =>
    "sdk" \notin gone /\ Sheltered(stack)

\* What is destroyed is destroyed at exit, and was built.
GoneLate ==
  /\ phase = "run" => gone = {}
  /\ acl = "none" => "sdk" \notin gone /\ NoSdk(stack)

IInv ==
  /\ TypeOK
  /\ CallsInOrder
  /\ Ownership
  /\ Handover
  /\ AppJoins
  /\ Guarded
  /\ GoneLate
  /\ BindingsTracked
  /\ TeardownWhileSdkLive
  /\ ProfilerUnwinds

-----------------------------------------------------------------------------
(* The exit stack. *)

\* Pushing a callback shelters what is below a shutdown, and unshelters nothing
\* unless the callback is the SDK's.
LEMMA PushFacts ==
  ASSUME NEW s \in Seq(Callbacks), NEW cb \in Callbacks
  PROVE  /\ Push(cb, s) \in Seq(Callbacks)
         /\ cb = "mgr" => Sheltered(Push(cb, s))
         /\ cb # "sdk" /\ Sheltered(s) => Sheltered(Push(cb, s))
         /\ cb # "sdk" /\ NoSdk(s) => NoSdk(Push(cb, s))
<1> DEFINE p == Push(cb, s)
<1>1. /\ p \in Seq(Callbacks) /\ Len(p) = Len(s) + 1 /\ Len(s) \in Nat
      /\ p[1] = cb /\ \A i \in 2 .. Len(p) : p[i] = s[i - 1]
  BY DEF Push
<1>2. DOMAIN p = 1 .. Len(s) + 1 /\ DOMAIN s = 1 .. Len(s)
  BY <1>1
<1> HIDE DEF p
<1>3. cb = "mgr" => Sheltered(p)
  <2> SUFFICES ASSUME cb = "mgr", NEW i \in DOMAIN p, p[i] = "sdk"
               PROVE  \E j \in 1 .. i - 1 : p[j] = "mgr"
    BY DEF Sheltered
  <2>1. 1 \in 1 .. i - 1 /\ p[1] = "mgr"
    BY <1>1, <1>2
  <2> QED
    BY <2>1
<1>4. cb # "sdk" /\ Sheltered(s) => Sheltered(p)
  <2> SUFFICES ASSUME cb # "sdk", Sheltered(s), NEW i \in DOMAIN p, p[i] = "sdk"
               PROVE  \E j \in 1 .. i - 1 : p[j] = "mgr"
    BY DEF Sheltered
  <2>1. i - 1 \in DOMAIN s /\ s[i - 1] = "sdk"
    BY <1>1, <1>2
  <2>2. PICK j \in 1 .. i - 1 - 1 : s[j] = "mgr"
    BY <2>1 DEF Sheltered
  <2>3. j + 1 \in 1 .. i - 1 /\ p[j + 1] = "mgr"
    BY <1>1, <1>2, <2>2
  <2> QED
    BY <2>3
<1>5. cb # "sdk" /\ NoSdk(s) => NoSdk(p)
  <2> SUFFICES ASSUME cb # "sdk", NoSdk(s), NEW i \in DOMAIN p PROVE p[i] # "sdk"
    BY DEF NoSdk
  <2>1. CASE i = 1
    BY <1>1, <2>1
  <2>2. CASE i # 1
    BY <1>1, <1>2, <2>2 DEF NoSdk
  <2> QED
    BY <2>1, <2>2
<1> QED
  BY <1>1, <1>3, <1>4, <1>5 DEF p

\* Popping anything but a shutdown leaves the rest sheltered, and a sheltered
\* destructor is never on top.
LEMMA PopFacts ==
  ASSUME NEW s \in Seq(Callbacks), s # <<>>
  PROVE  /\ Tail(s) \in Seq(Callbacks) /\ Head(s) \in Callbacks
         /\ Sheltered(s) /\ Head(s) # "mgr" => Sheltered(Tail(s))
         /\ Sheltered(s) => Head(s) # "sdk"
         /\ NoSdk(s) => NoSdk(Tail(s)) /\ Head(s) # "sdk"
<1> DEFINE p == Tail(s)
<1>1. /\ p \in Seq(Callbacks) /\ Len(p) = Len(s) - 1 /\ Len(s) \in Nat \ {0}
      /\ Head(s) = s[1] /\ \A i \in 1 .. Len(p) : p[i] = s[i + 1]
  OBVIOUS
<1>2. DOMAIN p = 1 .. Len(s) - 1 /\ DOMAIN s = 1 .. Len(s) /\ Head(s) \in Callbacks
  BY <1>1
<1> HIDE DEF p
<1>3. Sheltered(s) /\ Head(s) # "mgr" => Sheltered(p)
  <2> SUFFICES ASSUME Sheltered(s), Head(s) # "mgr", NEW i \in DOMAIN p, p[i] = "sdk"
               PROVE  \E j \in 1 .. i - 1 : p[j] = "mgr"
    BY DEF Sheltered
  <2>1. i + 1 \in DOMAIN s /\ s[i + 1] = "sdk"
    BY <1>1, <1>2
  <2>2. PICK j \in 1 .. i : s[j] = "mgr"
    <3>1. \E j \in 1 .. (i + 1) - 1 : s[j] = "mgr"
      BY <2>1 DEF Sheltered
    <3> QED
      BY <1>1, <1>2, <3>1
  <2>3. j - 1 \in 1 .. i - 1 /\ p[j - 1] = "mgr"
    BY <1>1, <1>2, <2>2
  <2> QED
    BY <2>3
<1>4. Sheltered(s) => Head(s) # "sdk"
  BY <1>1, <1>2 DEF Sheltered
<1>5. NoSdk(s) => NoSdk(p) /\ Head(s) # "sdk"
  BY <1>1, <1>2 DEF NoSdk
<1> QED
  BY <1>1, <1>2, <1>3, <1>4, <1>5 DEF p

-----------------------------------------------------------------------------
(* The device table. *)

Distinct(s) == \A i, j \in DOMAIN s : s[i] = s[j] => i = j

\* Forget removes a device and nothing else.
LEMMA ForgetFacts ==
  ASSUME mgr.active \in Seq(Devices), Distinct(mgr.active), NEW d \in Devices
  PROVE  /\ Forget(d) \in Seq(Devices) /\ Distinct(Forget(d))
         /\ Range(Forget(d)) = Range(mgr.active) \ {d}
<1> DEFINE a == mgr.active
<1>1. CASE ~Tracked(d)
  BY <1>1 DEF Forget, Tracked, Range
<1>2. CASE Tracked(d)
  <2>1. PICK k \in DOMAIN a : a[k] = d
    BY <1>2 DEF Tracked
  <2>2. DOMAIN a = 1 .. Len(a) /\ Len(a) \in Nat
    OBVIOUS
  <2>3. \A m \in 1 .. k - 1 : a[m] # d
    BY <2>1, <2>2 DEF Distinct
  <2> DEFINE i == CHOOSE m \in DOMAIN a : a[m] = d /\ \A n \in 1 .. m - 1 : a[n] # d
  <2>4. i \in DOMAIN a /\ a[i] = d
    BY <2>1, <2>3
  <2> HIDE DEF i
  <2> DEFINE f == [j \in 1 .. Len(a) - 1 |-> a[IF j < i THEN j ELSE j + 1]]
  <2>5. Forget(d) = f
    BY <1>2 DEF Forget, i
  <2>6. f \in Seq(Devices) /\ Len(f) = Len(a) - 1 /\ DOMAIN f = 1 .. Len(a) - 1
    <3>1. \A j \in 1 .. Len(a) - 1 : a[IF j < i THEN j ELSE j + 1] \in Devices
      BY <2>2
    <3>2. Len(a) - 1 \in Nat
      BY <2>2, <2>4
    <3> QED
      BY <3>1, <3>2
  <2>7. \A j \in 1 .. Len(a) - 1 : f[j] = a[IF j < i THEN j ELSE j + 1]
    OBVIOUS
  <2> HIDE DEF f
  <2>11. \A m, n \in 1 .. Len(a) : a[m] = a[n] => m = n
    BY <2>2 DEF Distinct
  <2> DEFINE g(j) == IF j < i THEN j ELSE j + 1
  <2>12. \A j \in 1 .. Len(a) - 1 : g(j) \in 1 .. Len(a) /\ g(j) # i /\ f[j] = a[g(j)]
    BY <2>2, <2>4, <2>7
  <2>13. \A j, m \in 1 .. Len(a) - 1 : g(j) = g(m) => j = m
    BY <2>2, <2>4
  <2> HIDE DEF g
  <2>8. Distinct(f)
    BY <2>6, <2>11, <2>12, <2>13 DEF Distinct
  <2>9. Range(f) \subseteq Range(a) \ {d}
    <3> SUFFICES ASSUME NEW e \in Range(f) PROVE e \in Range(a) /\ e # d
      OBVIOUS
    <3>1. PICK j \in 1 .. Len(a) - 1 : e = f[j]
      BY <2>6 DEF Range
    <3>2. e = a[g(j)] /\ g(j) \in DOMAIN a /\ g(j) # i
      BY <2>2, <2>12, <3>1
    <3> QED
      BY <2>2, <2>4, <2>11, <3>2 DEF Range
  <2>10. ASSUME NEW e \in Range(a) \ {d} PROVE e \in Range(f)
    <3>1. PICK m \in DOMAIN a : a[m] = e
      BY DEF Range
    <3>2. m # i /\ m \in 1 .. Len(a) /\ i \in 1 .. Len(a)
      BY <2>2, <2>4, <3>1
    <3>3. CASE m < i
      <4>1. m \in 1 .. Len(a) - 1 /\ f[m] = e
        BY <2>2, <2>7, <3>1, <3>2, <3>3
      <4> QED
        BY <2>6, <4>1 DEF Range
    <3>4. CASE m > i
      <4>1. m - 1 \in 1 .. Len(a) - 1 /\ f[m - 1] = e
        BY <2>2, <2>7, <3>1, <3>2, <3>4
      <4> QED
        BY <2>6, <4>1 DEF Range
    <3> QED
      BY <2>2, <3>2, <3>3, <3>4
  <2> QED
    BY <2>5, <2>6, <2>8, <2>9, <2>10
<1> QED
  BY <1>1, <1>2

\* What appending, reversing and taking the first device off a list keeps.
LEMMA ListFacts ==
  ASSUME NEW s \in Seq(Devices)
  PROVE  /\ \A d \in Devices :
              /\ Append(s, d) \in Seq(Devices) /\ Range(Append(s, d)) = Range(s) \cup {d}
              /\ Distinct(s) /\ d \notin Range(s) => Distinct(Append(s, d))
         /\ Reverse(s) \in Seq(Devices) /\ Range(Reverse(s)) = Range(s)
         /\ s = <<>> => Reverse(s) = <<>>
         /\ s # <<>> => /\ Tail(s) \in Seq(Devices) /\ Head(s) \in Devices
                        /\ Range(s) = {Head(s)} \cup Range(Tail(s))
<1>1. DOMAIN s = 1 .. Len(s) /\ Len(s) \in Nat
  OBVIOUS
<1>2. ASSUME NEW d \in Devices
      PROVE  /\ Append(s, d) \in Seq(Devices) /\ Range(Append(s, d)) = Range(s) \cup {d}
             /\ Distinct(s) /\ d \notin Range(s) => Distinct(Append(s, d))
  <2> DEFINE p == Append(s, d)
  <2>1. /\ p \in Seq(Devices) /\ DOMAIN p = 1 .. Len(s) + 1
        /\ p[Len(s) + 1] = d /\ \A i \in 1 .. Len(s) : p[i] = s[i]
    BY <1>1
  <2> HIDE DEF p
  <2>2. Range(p) = Range(s) \cup {d}
    <3>1. Range(p) \subseteq Range(s) \cup {d}
      BY <1>1, <2>1 DEF Range
    <3>2. Range(s) \subseteq Range(p)
      BY <1>1, <2>1 DEF Range
    <3>3. d \in Range(p)
      BY <1>1, <2>1 DEF Range
    <3> QED
      BY <3>1, <3>2, <3>3
  <2>3. Distinct(s) /\ d \notin Range(s) => Distinct(p)
    BY <1>1, <2>1 DEF Distinct, Range
  <2> QED
    BY <2>1, <2>2, <2>3 DEF p
<1>3. /\ Reverse(s) \in Seq(Devices) /\ Range(Reverse(s)) = Range(s)
      /\ s = <<>> => Reverse(s) = <<>>
  <2> DEFINE r == Reverse(s)
  <2>1. r = [i \in 1 .. Len(s) |-> s[(Len(s) - i) + 1]]
    BY DEF Reverse
  <2>2. r \in Seq(Devices) /\ DOMAIN r = 1 .. Len(s) /\ Len(r) = Len(s)
    BY <1>1, <2>1
  <2>3. Range(r) \subseteq Range(s)
    BY <1>1, <2>1 DEF Range
  <2>4. ASSUME NEW e \in Range(s) PROVE e \in Range(r)
    <3>1. PICK i \in DOMAIN s : s[i] = e
      BY DEF Range
    <3>2. Len(s) - i + 1 \in 1 .. Len(s) /\ r[Len(s) - i + 1] = e
      BY <1>1, <2>1, <3>1
    <3> QED
      BY <2>2, <3>2 DEF Range
  <2>5. s = <<>> => r = <<>>
    BY <1>1, <2>2
  <2> QED
    BY <2>2, <2>3, <2>4, <2>5
<1>4. ASSUME s # <<>>
      PROVE  /\ Tail(s) \in Seq(Devices) /\ Head(s) \in Devices
             /\ Range(s) = {Head(s)} \cup Range(Tail(s))
  <2> DEFINE p == Tail(s)
  <2>1. /\ p \in Seq(Devices) /\ Len(p) = Len(s) - 1 /\ Len(s) \in Nat \ {0}
        /\ Head(s) = s[1] /\ \A i \in 1 .. Len(p) : p[i] = s[i + 1]
    BY <1>4
  <2>2. DOMAIN p = 1 .. Len(s) - 1
    BY <2>1
  <2> HIDE DEF p
  <2>3. {Head(s)} \cup Range(p) \subseteq Range(s)
    BY <1>1, <2>1, <2>2 DEF Range
  <2>4. ASSUME NEW e \in Range(s), e # Head(s) PROVE e \in Range(p)
    <3>1. PICK i \in DOMAIN s : s[i] = e
      BY DEF Range
    <3>2. i - 1 \in DOMAIN p /\ p[i - 1] = e
      BY <1>1, <2>1, <2>2, <2>4, <3>1
    <3> QED
      BY <3>2 DEF Range
  <2> QED
    BY <1>1, <2>1, <2>3, <2>4 DEF p
<1> QED
  BY <1>2, <1>3, <1>4

-----------------------------------------------------------------------------
(* The profiler. *)

\* Nothing is built on what is not there, and only a session remembers an error.
Unwound(p) ==
  /\ p.active => p.config
  /\ p.config => p.initialized
  /\ ~p.initialized => ~p.failed /\ p.device = None

\* However cleanup stops, what it leaves is in order.
LEMMA CleanupFacts ==
  ASSUME NEW p \in Profilers, p.active => p.config, p.config => p.initialized,
         NEW q \in Cleanups(p), p.initialized
  PROVE  q \in Profilers /\ Unwound(q)
<1>1. None \in Devices \cup {None}
  OBVIOUS
<1> QED
  BY <1>1 DEF Cleanups, Profilers, Unwound

-----------------------------------------------------------------------------
\* Nothing has happened before main.
LEMMA IInvInit == Init => IInv
<1> SUFFICES ASSUME Init PROVE IInv
  OBVIOUS
<1>1. TypeOK
  <2>1. mgr \in Managers
    BY DEF Init, Managers
  <2>2. prof \in Profilers
    BY DEF Init, Profilers
  <2>3. /\ ctx \in [Threads -> Devices \cup {None}] /\ arg \in [Threads -> Devices]
        /\ sel \in [Threads -> Devices] /\ stack \in Seq(Callbacks)
    BY LifecycleAssumption DEF Init, Callbacks
  <2>4. /\ pc \in [Threads -> Labels] /\ op \in [Threads -> Ops \cup {"none"}]
        /\ ret \in [Threads -> {"none", "ok", "error"}] /\ todo \in Seq(Devices)
    BY DEF Init, Labels
  <2> QED
    BY <2>1, <2>2, <2>3, <2>4 DEF Init, TypeOK
<1>2. Guarded /\ GoneLate
  BY DEF Init, Guarded, GoneLate, NoSdk
<1>3. BindingsTracked /\ TeardownWhileSdkLive /\ ProfilerUnwinds
  BY DEF Init, BindingsTracked, TeardownWhileSdkLive, ProfilerUnwinds
<1>4. CallsInOrder /\ Ownership /\ Handover /\ AppJoins
  BY DEF Init, CallsInOrder, Ownership, Handover, AppJoins, Usable
<1> QED
  BY <1>1, <1>2, <1>3, <1>4 DEF IInv

\* Every start, stop and exit keeps the session in order.
LEMMA ProfNext == IInv /\ [Next]_vars => (ProfilerUnwinds /\ prof \in Profilers)'
<1> SUFFICES ASSUME IInv, [Next]_vars PROVE (ProfilerUnwinds /\ prof \in Profilers)'
  OBVIOUS
<1> USE DEF IInv, TypeOK, ProfilerUnwinds, aclVars, exitVars, threadVars
<1>1. ASSUME AppInit PROVE (ProfilerUnwinds /\ prof \in Profilers)'
  BY <1>1 DEF AppInit
<1>2. ASSUME NEW t \in Threads, AppSetDevice(t) PROVE (ProfilerUnwinds /\ prof \in Profilers)'
  BY <1>2 DEF AppSetDevice, AclSet, AfterSetDevice
<1>3. ASSUME NEW t \in Threads, Call(t) PROVE (ProfilerUnwinds /\ prof \in Profilers)'
  BY <1>3 DEF Call
<1>4. ASSUME NEW t \in Threads, EnsureInitializedAgain(t) PROVE (ProfilerUnwinds /\ prof \in Profilers)'
  BY <1>4 DEF EnsureInitializedAgain, GoTo, Return, AfterInit, Initialising
<1>5. ASSUME NEW t \in Threads, EnsureInitializedFails(t) PROVE (ProfilerUnwinds /\ prof \in Profilers)'
  BY <1>5 DEF EnsureInitializedFails, GoTo, Return, Initialising
<1>6. ASSUME NEW t \in Threads, EnsureInitializedFirst(t) PROVE (ProfilerUnwinds /\ prof \in Profilers)'
  BY <1>6 DEF EnsureInitializedFirst, GoTo, AfterInit, Initialising
<1>7. ASSUME NEW t \in Threads, EnsureInitializedUnregistered(t) PROVE (ProfilerUnwinds /\ prof \in Profilers)'
  BY <1>7 DEF EnsureInitializedUnregistered, Return, Initialising
<1>8. ASSUME NEW t \in Threads, QueryDevice(t) PROVE (ProfilerUnwinds /\ prof \in Profilers)'
  BY <1>8 DEF QueryDevice, GoTo, Return
<1>9. ASSUME NEW t \in Threads, BindRefused(t) PROVE (ProfilerUnwinds /\ prof \in Profilers)'
  BY <1>9 DEF BindRefused, Return
<1>10. ASSUME NEW t \in Threads, BindFails(t) PROVE (ProfilerUnwinds /\ prof \in Profilers)'
  BY <1>10 DEF BindFails, Binding, Return, AfterSetDevice
<1>11. ASSUME NEW t \in Threads, BindUnregistered(t) PROVE (ProfilerUnwinds /\ prof \in Profilers)'
  BY <1>11 DEF BindUnregistered, Binding, Return, AfterSetDevice, AclFinalize, AclSetAndReset, AclSet, Without
<1>12. ASSUME NEW t \in Threads, BindOverflow(t) PROVE (ProfilerUnwinds /\ prof \in Profilers)'
  BY <1>12 DEF BindOverflow, Binding, Return, AclSetAndReset, AclSet, Without
<1>13. ASSUME NEW t \in Threads, Bind(t) PROVE (ProfilerUnwinds /\ prof \in Profilers)'
  BY <1>13 DEF Bind, Binding, BoundReturn, GoTo, Return, AfterSetDevice, AclSet
<1>14. ASSUME NEW t \in Threads, ResetDevice(t) PROVE (ProfilerUnwinds /\ prof \in Profilers)'
  BY <1>14 DEF ResetDevice, Return, AclReset, Without
<1>15. ASSUME NEW t \in Threads, StartAgain(t) PROVE (ProfilerUnwinds /\ prof \in Profilers)'
  BY <1>15 DEF StartAgain, Return
<1>16. ASSUME NEW t \in Threads, StartFails(t) PROVE (ProfilerUnwinds /\ prof \in Profilers)'
  <2>1. Opened(t) \in Profilers /\ Opened(t).initialized /\ ~Opened(t).config /\ ~Opened(t).active
    BY <1>16 DEF StartFails, Opened, Profilers
  <2> DEFINE configured == [Opened(t) EXCEPT !.config = TRUE]
             started == [configured EXCEPT !.active = TRUE]
  <2>2. /\ configured \in Profilers /\ configured.initialized /\ configured.config /\ ~configured.active
        /\ started \in Profilers /\ started.initialized /\ started.config
    BY <2>1 DEF Profilers
  <2>3. \/ UNCHANGED prof \/ prof' \in Cleanups(Opened(t)) \/ prof' \in Cleanups(configured)
        \/ prof' \in Cleanups(started)
    BY <1>16 DEF StartFails
  <2> HIDE DEF configured, started
  <2> QED
    BY <2>1, <2>2, <2>3, CleanupFacts DEF Unwound
<1>17. ASSUME NEW t \in Threads, Start(t) PROVE (ProfilerUnwinds /\ prof \in Profilers)'
  BY <1>17 DEF Start, Opened, Profilers
<1>18. ASSUME NEW t \in Threads, Stop(t) PROVE (ProfilerUnwinds /\ prof \in Profilers)'
  <2>1. UNCHANGED prof \/ (prof.initialized /\ prof' \in Cleanups(prof))
    BY <1>18 DEF Stop
  <2> QED
    BY <2>1, CleanupFacts DEF Unwound
<1>19. ASSUME BeginExit PROVE (ProfilerUnwinds /\ prof \in Profilers)'
  BY <1>19 DEF BeginExit
<1>20. ASSUME DestroySdk PROVE (ProfilerUnwinds /\ prof \in Profilers)'
  BY <1>20 DEF DestroySdk, Popping
<1>21. ASSUME ProfilerExit PROVE (ProfilerUnwinds /\ prof \in Profilers)'
  <2>1. prof' \in Cleanups(prof)
    BY <1>21 DEF ProfilerExit
  <2>2. CASE prof.initialized
    BY <2>1, <2>2, CleanupFacts DEF Unwound
  <2>3. CASE ~prof.initialized
    BY <2>1, <2>3 DEF Cleanups, Profilers
  <2> QED
    BY <2>2, <2>3
<1>22. ASSUME Shutdown PROVE (ProfilerUnwinds /\ prof \in Profilers)'
  BY <1>22 DEF Shutdown, Popping
<1>23. ASSUME ShutdownReset PROVE (ProfilerUnwinds /\ prof \in Profilers)'
  BY <1>23 DEF ShutdownReset, AclReset, Without
<1>24. ASSUME ShutdownFinalize PROVE (ProfilerUnwinds /\ prof \in Profilers)'
  BY <1>24 DEF ShutdownFinalize, AclFinalize
<1>25. ASSUME ProcessEnds PROVE (ProfilerUnwinds /\ prof \in Profilers)'
  BY <1>25 DEF ProcessEnds
<1>26. ASSUME UNCHANGED vars PROVE (ProfilerUnwinds /\ prof \in Profilers)'
  BY <1>26 DEF vars
<1> QED
  BY <1>1, <1>2, <1>3, <1>4, <1>5, <1>6, <1>7, <1>8, <1>9,
     <1>10, <1>11, <1>12, <1>13, <1>14, <1>15, <1>16, <1>17, <1>18,
     <1>19, <1>20, <1>21, <1>22, <1>23, <1>24, <1>25, <1>26
     DEF Next, ThreadStep, ExitStep, Terminated

\* What is left when a binding is undone at once.
LEMMA UndoFacts ==
  ASSUME TypeOK, NEW t \in Threads, NEW d \in Devices, AclSetAndReset(t, d)
  PROVE  /\ live' \subseteq Devices /\ ctx' \in [Threads -> Devices \cup {None}]
         /\ lost' \subseteq Devices /\ built' \in BOOLEAN
<1>1. CASE /\ live' = live \ {d} /\ ctx' = Without([ctx EXCEPT ![t] = d], d)
           /\ built' = TRUE /\ UNCHANGED lost
  <2>1. [ctx EXCEPT ![t] = d] \in [Threads -> Devices \cup {None}]
    BY DEF TypeOK
  <2> QED
    BY <1>1, <2>1 DEF TypeOK, Without
<1>2. CASE AclSet(t, d) /\ lost' = lost \cup {d}
  BY <1>2 DEF TypeOK, AclSet
<1> QED
  BY <1>1, <1>2 DEF AclSetAndReset

\* What shutdown makes of the manager's fields.
LEMMA ClosedManager ==
  ASSUME NEW m \in Managers
  PROVE  [m EXCEPT !.shutdown = TRUE, !.active = <<>>, !.owns = FALSE] \in Managers
<1>1. <<>> \in Seq(Devices)
  OBVIOUS
<1> QED
  BY <1>1 DEF Managers

\* A step of a thread that only moves its own call keeps the types.
LEMMA ThreadTypes ==
  ASSUME TypeOK, pc' \in [Threads -> Labels], ret' \in [Threads -> {"none", "ok", "error"}],
         arg' \in [Threads -> Devices], sel' \in [Threads -> Devices],
         UNCHANGED <<acl, live, built, ctx, stack, gone, lost, mgr, prof, phase, todo, finalize,
                     op, calls>>
  PROVE  TypeOK'
BY DEF TypeOK

\* Every step keeps the types.
LEMMA TypeNext == IInv /\ [Next]_vars => TypeOK'
<1> SUFFICES ASSUME IInv, [Next]_vars PROVE TypeOK'
  OBVIOUS
<1> USE DEF IInv, TypeOK, Labels, Managers, Callbacks, aclVars, exitVars, threadVars
<1>1. ASSUME AppInit PROVE TypeOK'
  BY <1>1, ProfNext, PushFacts DEF AppInit
<1>2. ASSUME NEW t \in Threads, AppSetDevice(t) PROVE TypeOK'
  BY <1>2, ProfNext, PushFacts DEF AppSetDevice, AclSet, AfterSetDevice
<1>3. ASSUME NEW t \in Threads, Call(t) PROVE TypeOK'
  BY <1>3, ProfNext, PushFacts DEF Call, Ops, Initialising
<1>4. ASSUME NEW t \in Threads, EnsureInitializedAgain(t) PROVE TypeOK'
  <2>1. AfterInit(t) \in Labels
    BY <1>4 DEF EnsureInitializedAgain, AfterInit, Initialising
  <2>2. PICK label \in Labels : GoTo(t, label) \/ Return(t, "error")
    BY <1>4, <2>1 DEF EnsureInitializedAgain
  <2>3. pc' \in [Threads -> Labels] /\ ret' \in [Threads -> {"none", "ok", "error"}]
    <3>1. CASE GoTo(t, label)
      BY <3>1 DEF GoTo
    <3>2. CASE Return(t, "error")
      BY <3>2 DEF Return
    <3> QED
      BY <2>2, <3>1, <3>2
  <2>4. UNCHANGED <<acl, live, built, ctx, stack, gone, lost, mgr, prof, phase, todo, finalize,
                    op, arg, sel, calls>>
    BY <1>4 DEF EnsureInitializedAgain
  <2>5. TypeOK /\ arg \in [Threads -> Devices] /\ sel \in [Threads -> Devices]
    OBVIOUS
  <2> HIDE DEF IInv, TypeOK, Labels
  <2> QED
    BY <2>3, <2>4, <2>5, ThreadTypes
<1>5. ASSUME NEW t \in Threads, EnsureInitializedFails(t) PROVE TypeOK'
  BY <1>5, ProfNext, PushFacts DEF EnsureInitializedFails, GoTo, Return, Initialising
<1>6. ASSUME NEW t \in Threads, EnsureInitializedFirst(t) PROVE TypeOK'
  BY <1>6, ProfNext, PushFacts DEF EnsureInitializedFirst, GoTo, AfterInit, Initialising
<1>7. ASSUME NEW t \in Threads, EnsureInitializedUnregistered(t) PROVE TypeOK'
  BY <1>7, ProfNext, PushFacts DEF EnsureInitializedUnregistered, Return, Initialising
<1>8. ASSUME NEW t \in Threads, QueryDevice(t) PROVE TypeOK'
  <2>1. pc' \in [Threads -> Labels] /\ ret' \in [Threads -> {"none", "ok", "error"}]
        /\ arg' \in [Threads -> Devices] /\ sel' \in [Threads -> Devices]
    <3>1. op[t] \in {"ready", "reset", "start"} /\ ctx[t] \in Devices \cup {None}
      BY <1>8 DEF QueryDevice, CallsInOrder
    <3>2. CASE ctx[t] # None /\ arg' = [arg EXCEPT ![t] = ctx[t]]
      BY <1>8, <3>1, <3>2 DEF QueryDevice, GoTo, Return, Initialising
    <3>3. CASE arg' = [arg EXCEPT ![t] = sel[t]] /\ UNCHANGED sel /\ GoTo(t, "initBind")
      BY <3>3 DEF GoTo, Initialising
    <3>4. CASE Return(t, "error") /\ UNCHANGED <<arg, sel>>
      BY <3>4 DEF Return
    <3> QED
      BY <1>8, <3>2, <3>3, <3>4 DEF QueryDevice
  <2>2. UNCHANGED <<acl, live, built, ctx, stack, gone, lost, mgr, prof, phase, todo, finalize, op, calls>>
    BY <1>8 DEF QueryDevice
  <2>3. TypeOK
    OBVIOUS
  <2> HIDE DEF IInv, TypeOK, Labels
  <2> QED
    BY <2>1, <2>2, <2>3, ThreadTypes
<1>9. ASSUME NEW t \in Threads, BindRefused(t) PROVE TypeOK'
  BY <1>9, ProfNext, PushFacts DEF BindRefused, Return
<1>10. ASSUME NEW t \in Threads, BindFails(t) PROVE TypeOK'
  BY <1>10, ProfNext, PushFacts DEF BindFails, Binding, Return, AfterSetDevice
<1>11. ASSUME NEW t \in Threads, BindUnregistered(t) PROVE TypeOK'
  <2>1. live' \subseteq Devices /\ ctx' \in [Threads -> Devices \cup {None}] /\ lost' \subseteq Devices
        /\ acl' \in {"none", "app", "ascify", "finalized"} /\ built' \in BOOLEAN
    <3>1. CASE AclFinalize /\ UNCHANGED lost
      BY <1>11, <3>1 DEF BindUnregistered, AclFinalize
    <3>2. CASE AclSetAndReset(t, arg[t]) /\ UNCHANGED acl
      BY <1>11, <3>2, UndoFacts DEF BindUnregistered
    <3>3. CASE UNCHANGED <<aclVars, lost>>
      BY <1>11, <3>3 DEF BindUnregistered
    <3> QED
      BY <1>11, <3>1, <3>2, <3>3 DEF BindUnregistered
  <2>2. pc' \in [Threads -> Labels] /\ ret' \in [Threads -> {"none", "ok", "error"}]
    BY <1>11 DEF BindUnregistered, Return
  <2>3. stack' \in Seq(Callbacks) /\ mgr' \in Managers
    BY <1>11, PushFacts DEF BindUnregistered, AfterSetDevice
  <2>4. UNCHANGED <<gone, prof, phase, todo, finalize, op, arg, sel, calls>>
    BY <1>11 DEF BindUnregistered
  <2> QED
    BY <2>1, <2>2, <2>3, <2>4, Zenon
<1>12. ASSUME NEW t \in Threads, BindOverflow(t) PROVE TypeOK'
  <2>1. live' \subseteq Devices /\ ctx' \in [Threads -> Devices \cup {None}] /\ lost' \subseteq Devices
        /\ acl' \in {"none", "app", "ascify", "finalized"} /\ built' \in BOOLEAN
    BY <1>12, UndoFacts DEF BindOverflow
  <2>2. pc' \in [Threads -> Labels] /\ ret' \in [Threads -> {"none", "ok", "error"}]
    BY <1>12 DEF BindOverflow, Return
  <2>3. stack' \in Seq(Callbacks) /\ mgr' \in Managers
    BY <1>12, PushFacts DEF BindOverflow, AfterSetDevice
  <2>4. UNCHANGED <<gone, prof, phase, todo, finalize, op, arg, sel, calls>>
    BY <1>12 DEF BindOverflow
  <2> QED
    BY <2>1, <2>2, <2>3, <2>4, Zenon
<1>13. ASSUME NEW t \in Threads, Bind(t) PROVE TypeOK'
  <2>1. live' \subseteq Devices /\ ctx' \in [Threads -> Devices \cup {None}] /\ built' \in BOOLEAN
    BY <1>13 DEF Bind, AclSet
  <2>2. stack' \in Seq(Callbacks)
    BY <1>13, PushFacts DEF Bind, AfterSetDevice
  <2>3. mgr' \in Managers
    BY <1>13, ListFacts DEF Bind
  <2>4. pc' \in [Threads -> Labels] /\ ret' \in [Threads -> {"none", "ok", "error"}]
        /\ sel' \in [Threads -> Devices]
    <3>1. op[t] \in {"set", "ready", "reset", "start"} /\ BoundReturn(t)
      BY <1>13 DEF Bind, Binding, CallsInOrder
    <3>2. CASE op[t] = "set"
      <4>1. Return(t, "ok") /\ sel' = [sel EXCEPT ![t] = arg[t]]
        BY <3>1, <3>2, Zenon DEF BoundReturn
      <4>2. sel' \in [Threads -> Devices]
        BY <4>1
      <4> QED
        BY <4>1, <4>2 DEF Return
    <3>3. CASE op[t] = "ready"
      BY <3>1, <3>3 DEF BoundReturn, Return
    <3>4. CASE op[t] = "reset"
      BY <3>1, <3>4 DEF BoundReturn, GoTo, Initialising
    <3>5. CASE op[t] = "start"
      BY <3>1, <3>5 DEF BoundReturn, GoTo
    <3> QED
      BY <3>1, <3>2, <3>3, <3>4, <3>5
  <2>5. UNCHANGED <<acl, gone, lost, prof, phase, todo, finalize, op, arg, calls>>
    BY <1>13 DEF Bind
  <2> QED
    BY <2>1, <2>2, <2>3, <2>4, <2>5, Zenon
<1>14. ASSUME NEW t \in Threads, ResetDevice(t) PROVE TypeOK'
  <2>1. live' \subseteq Devices /\ ctx' \in [Threads -> Devices \cup {None}] /\ built' \in BOOLEAN
    BY <1>14 DEF ResetDevice, AclReset, Without
  <2>2. mgr' \in Managers
    <3>1. Distinct(mgr.active)
      BY DEF BindingsTracked, Distinct
    <3>2. Forget(arg[t]) \in Seq(Devices)
      BY <1>14, <3>1, ForgetFacts
    <3> QED
      BY <1>14, <3>2 DEF ResetDevice
  <2>3. pc' \in [Threads -> Labels] /\ ret' \in [Threads -> {"none", "ok", "error"}]
    BY <1>14 DEF ResetDevice, Return
  <2>4. UNCHANGED <<acl, stack, gone, lost, prof, phase, todo, finalize, op, arg, sel, calls>>
    BY <1>14 DEF ResetDevice
  <2> QED
    BY <2>1, <2>2, <2>3, <2>4, Zenon
<1>15. ASSUME NEW t \in Threads, StartAgain(t) PROVE TypeOK'
  BY <1>15, ProfNext, PushFacts DEF StartAgain, Return
<1>16. ASSUME NEW t \in Threads, StartFails(t) PROVE TypeOK'
  BY <1>16, ProfNext, PushFacts DEF StartFails, Return
<1>17. ASSUME NEW t \in Threads, Start(t) PROVE TypeOK'
  BY <1>17, ProfNext, PushFacts DEF Start, Return
<1>18. ASSUME NEW t \in Threads, Stop(t) PROVE TypeOK'
  BY <1>18, ProfNext, PushFacts DEF Stop, Return
<1>19. ASSUME BeginExit PROVE TypeOK'
  BY <1>19, ProfNext, PushFacts DEF BeginExit
<1>20. ASSUME DestroySdk PROVE TypeOK'
  <2>1. stack' \in Seq(Callbacks) /\ Head(stack) \in Callbacks
    BY <1>20, PopFacts DEF DestroySdk, Popping
  <2>2. gone' \subseteq Callbacks
    BY <1>20, <2>1 DEF DestroySdk
  <2> QED
    BY <1>20, <2>1, <2>2 DEF DestroySdk
<1>21. ASSUME ProfilerExit PROVE TypeOK'
  BY <1>21, ProfNext, PushFacts DEF ProfilerExit, Popping
<1>22. ASSUME Shutdown PROVE TypeOK'
  <2>1. mgr.active \in Seq(Devices) /\ Reverse(mgr.active) \in Seq(Devices) /\ mgr.owns \in BOOLEAN
    BY ListFacts
  <2>2. mgr' \in Managers /\ todo' \in Seq(Devices) /\ finalize' \in BOOLEAN
    <3>1. CASE mgr.shutdown
      BY <1>22, <3>1 DEF Shutdown
    <3>2. CASE ~mgr.shutdown
      <4>1. /\ mgr' = [mgr EXCEPT !.shutdown = TRUE, !.active = <<>>, !.owns = FALSE]
            /\ todo' = Reverse(mgr.active) /\ finalize' = mgr.owns
        BY <1>22, <3>2 DEF Shutdown
      <4>0. mgr \in Managers
        OBVIOUS
      <4>2. mgr' \in Managers
        <5> HIDE DEF Managers, IInv, TypeOK
        <5> QED
          BY <4>0, <4>1, ClosedManager, Zenon
      <4> QED
        BY <2>1, <4>1, <4>2
    <3> QED
      BY <3>1, <3>2
  <2>3. stack' \in Seq(Callbacks)
    BY <1>22, PopFacts DEF Shutdown, Popping
  <2>4. UNCHANGED <<aclVars, gone, lost, prof, phase, threadVars>>
    BY <1>22 DEF Shutdown
  <2> QED
    BY <2>2, <2>3, <2>4
<1>23. ASSUME ShutdownReset PROVE TypeOK'
  BY <1>23, ProfNext, PushFacts DEF ShutdownReset, AclReset, Without
<1>24. ASSUME ShutdownFinalize PROVE TypeOK'
  BY <1>24, ProfNext, PushFacts DEF ShutdownFinalize, AclFinalize
<1>25. ASSUME ProcessEnds PROVE TypeOK'
  BY <1>25, ProfNext, PushFacts DEF ProcessEnds
<1>26. ASSUME UNCHANGED vars PROVE TypeOK'
  BY <1>26, ProfNext, PushFacts DEF vars
<1> QED
  BY <1>1, <1>2, <1>3, <1>4, <1>5, <1>6, <1>7, <1>8, <1>9,
     <1>10, <1>11, <1>12, <1>13, <1>14, <1>15, <1>16, <1>17, <1>18,
     <1>19, <1>20, <1>21, <1>22, <1>23, <1>24, <1>25, <1>26
     DEF Next, ThreadStep, ExitStep, Terminated

\* Every step keeps the order of calls, the ownership of ACL and the handover to
\* shutdown.
LEMMA ControlNext == IInv /\ [Next]_vars => (CallsInOrder /\ Ownership /\ Handover /\ AppJoins)'
<1> SUFFICES ASSUME IInv, [Next]_vars PROVE (CallsInOrder /\ Ownership /\ Handover /\ AppJoins)'
  OBVIOUS
<1> USE DEF IInv, TypeOK, Managers, CallsInOrder, Ownership, Handover, AppJoins, Usable, Labels, aclVars, exitVars, threadVars
<1>1. ASSUME AppInit PROVE (CallsInOrder /\ Ownership /\ Handover /\ AppJoins)'
  BY <1>1 DEF AppInit
<1>2. ASSUME NEW t \in Threads, AppSetDevice(t) PROVE (CallsInOrder /\ Ownership /\ Handover /\ AppJoins)'
  BY <1>2 DEF AppSetDevice, AclSet, AfterSetDevice
<1>3. ASSUME NEW t \in Threads, Call(t) PROVE (CallsInOrder /\ Ownership /\ Handover /\ AppJoins)'
  BY <1>3 DEF Call, Ops
<1>4. ASSUME NEW t \in Threads, EnsureInitializedAgain(t) PROVE (CallsInOrder /\ Ownership /\ Handover /\ AppJoins)'
  BY <1>4 DEF EnsureInitializedAgain, GoTo, Return, AfterInit, Initialising
<1>5. ASSUME NEW t \in Threads, EnsureInitializedFails(t) PROVE (CallsInOrder /\ Ownership /\ Handover /\ AppJoins)'
  BY <1>5 DEF EnsureInitializedFails, GoTo, Return, Initialising
<1>6. ASSUME NEW t \in Threads, EnsureInitializedFirst(t) PROVE (CallsInOrder /\ Ownership /\ Handover /\ AppJoins)'
  BY <1>6 DEF EnsureInitializedFirst, GoTo, AfterInit, Initialising
<1>7. ASSUME NEW t \in Threads, EnsureInitializedUnregistered(t) PROVE (CallsInOrder /\ Ownership /\ Handover /\ AppJoins)'
  BY <1>7 DEF EnsureInitializedUnregistered, Return, Initialising
<1>8. ASSUME NEW t \in Threads, QueryDevice(t) PROVE (CallsInOrder /\ Ownership /\ Handover /\ AppJoins)'
  <2>1. /\ pc[t] = "query" /\ op[t] \in {"ready", "reset", "start"} /\ mgr.attempted
        /\ UNCHANGED <<aclVars, mgr, exitVars, op>>
    BY <1>8 DEF QueryDevice
  <2>2. /\ \A u \in Threads \ {t} : pc'[u] = pc[u]
        /\ \/ pc'[t] \in {"idle", "start", "initBind"}
           \/ pc'[t] = "initReset" /\ op[t] = "reset"
    <3>1. \/ \E label \in {"idle", "start", "initBind"} : pc' = [pc EXCEPT ![t] = label]
          \/ op[t] = "reset" /\ pc' = [pc EXCEPT ![t] = "initReset"]
      BY <1>8, <2>1 DEF QueryDevice, GoTo, Return
    <3>2. pc \in [Threads -> Labels]
      OBVIOUS
    <3> HIDE DEF IInv, TypeOK, CallsInOrder, Ownership, Handover, AppJoins
    <3> QED
      BY <3>1, <3>2
  <2>3. CallsInOrder'
    BY <2>1, <2>2
  <2>4. AppJoins'
    BY <2>1, <2>2
  <2> QED
    BY <2>1, <2>3, <2>4
<1>9. ASSUME NEW t \in Threads, BindRefused(t) PROVE (CallsInOrder /\ Ownership /\ Handover /\ AppJoins)'
  BY <1>9 DEF BindRefused, Return
<1>10. ASSUME NEW t \in Threads, BindFails(t) PROVE (CallsInOrder /\ Ownership /\ Handover /\ AppJoins)'
  BY <1>10 DEF BindFails, Binding, Return, AfterSetDevice
<1>11. ASSUME NEW t \in Threads, BindUnregistered(t) PROVE (CallsInOrder /\ Ownership /\ Handover /\ AppJoins)'
  BY <1>11 DEF BindUnregistered, Binding, Return, AfterSetDevice, AclFinalize, AclSetAndReset, AclSet, Without
<1>12. ASSUME NEW t \in Threads, BindOverflow(t) PROVE (CallsInOrder /\ Ownership /\ Handover /\ AppJoins)'
  BY <1>12 DEF BindOverflow, Binding, Return, AclSetAndReset, AclSet, Without
<1>13. ASSUME NEW t \in Threads, Bind(t) PROVE (CallsInOrder /\ Ownership /\ Handover /\ AppJoins)'
  <2>1. CallsInOrder'
    <3>1. /\ pc[t] = "bind" /\ mgr'.attempted = mgr.attempted
          /\ UNCHANGED op
          /\ \/ \E label \in {"idle", "start"} : pc' = [pc EXCEPT ![t] = label]
             \/ op[t] = "reset" /\ pc' = [pc EXCEPT ![t] = "initReset"]
      BY <1>13 DEF Bind, Binding, BoundReturn, GoTo, Return
    <3>2. pc \in [Threads -> Labels] /\ CallsInOrder
      OBVIOUS
    <3> HIDE DEF IInv, TypeOK, Managers, Ownership, Handover, AppJoins, Labels
    <3> QED
      BY <3>1, <3>2
  <2>2. Ownership'
    BY <1>13 DEF Bind, Binding, AclSet
  <2>3. Handover'
    BY <1>13 DEF Bind, Binding, AclSet
  <2>4. AppJoins'
    BY <1>13 DEF Bind, Binding
  <2> QED
    BY <2>1, <2>2, <2>3, <2>4
<1>14. ASSUME NEW t \in Threads, ResetDevice(t) PROVE (CallsInOrder /\ Ownership /\ Handover /\ AppJoins)'
  <2>1. mgr.active = <<>> => Forget(arg[t]) = <<>>
    BY DEF Forget, Tracked
  <2>2. /\ pc[t] = "reset" /\ pc' = [pc EXCEPT ![t] = "idle"]
        /\ UNCHANGED <<acl, built, phase, todo, finalize, op>>
        /\ \/ mgr' = [mgr EXCEPT !.active = Forget(arg[t])]
           \/ mgr' = mgr
    BY <1>14 DEF ResetDevice, Return, AclReset
  <2>3. live' \subseteq live
    BY <1>14 DEF ResetDevice, AclReset
  <2>4. CallsInOrder' /\ AppJoins'
    BY <2>2
  <2>5. Ownership'
    BY <2>2, <2>3
  <2>6. Handover'
    <3>1. CASE mgr' = mgr
      BY <2>2, <3>1
    <3>2. CASE mgr' = [mgr EXCEPT !.active = Forget(arg[t])]
      <4>1. /\ mgr'.active = Forget(arg[t]) /\ mgr'.shutdown = mgr.shutdown
            /\ mgr'.owns = mgr.owns /\ mgr'.deviceCleanup = mgr.deviceCleanup
            /\ mgr'.attempted = mgr.attempted
        BY <3>2
      <4> QED
        BY <2>1, <2>2, <4>1
    <3> QED
      BY <2>2, <3>1, <3>2
  <2> QED
    BY <2>4, <2>5, <2>6
<1>15. ASSUME NEW t \in Threads, StartAgain(t) PROVE (CallsInOrder /\ Ownership /\ Handover /\ AppJoins)'
  BY <1>15 DEF StartAgain, Return
<1>16. ASSUME NEW t \in Threads, StartFails(t) PROVE (CallsInOrder /\ Ownership /\ Handover /\ AppJoins)'
  BY <1>16 DEF StartFails, Return
<1>17. ASSUME NEW t \in Threads, Start(t) PROVE (CallsInOrder /\ Ownership /\ Handover /\ AppJoins)'
  BY <1>17 DEF Start, Return
<1>18. ASSUME NEW t \in Threads, Stop(t) PROVE (CallsInOrder /\ Ownership /\ Handover /\ AppJoins)'
  BY <1>18 DEF Stop, Return
<1>19. ASSUME BeginExit PROVE (CallsInOrder /\ Ownership /\ Handover /\ AppJoins)'
  BY <1>19 DEF BeginExit
<1>20. ASSUME DestroySdk PROVE (CallsInOrder /\ Ownership /\ Handover /\ AppJoins)'
  BY <1>20 DEF DestroySdk, Popping
<1>21. ASSUME ProfilerExit PROVE (CallsInOrder /\ Ownership /\ Handover /\ AppJoins)'
  BY <1>21 DEF ProfilerExit, Popping
<1>22. ASSUME Shutdown PROVE (CallsInOrder /\ Ownership /\ Handover /\ AppJoins)'
  <2>1. mgr' \in Managers /\ UNCHANGED <<aclVars, phase, threadVars>>
    BY <1>22, TypeNext DEF Shutdown
  <2>2. CASE mgr.shutdown
    BY <1>22, <2>2 DEF Shutdown
  <2>3. CASE ~mgr.shutdown
    <3>1. /\ mgr' = [mgr EXCEPT !.shutdown = TRUE, !.active = <<>>, !.owns = FALSE]
          /\ finalize' = mgr.owns
      BY <1>22, <2>3 DEF Shutdown
    <3> HIDE DEF Managers
    <3>2. mgr'.shutdown /\ mgr'.active = <<>> /\ ~mgr'.owns /\ mgr'.attempted = mgr.attempted
          /\ mgr'.status = mgr.status /\ mgr'.deviceCleanup = mgr.deviceCleanup
      BY <3>1 DEF Managers
    <3> QED
      BY <2>1, <3>1, <3>2
  <2> QED
    BY <2>2, <2>3
<1>23. ASSUME ShutdownReset PROVE (CallsInOrder /\ Ownership /\ Handover /\ AppJoins)'
  BY <1>23 DEF ShutdownReset, AclReset, Without
<1>24. ASSUME ShutdownFinalize PROVE (CallsInOrder /\ Ownership /\ Handover /\ AppJoins)'
  BY <1>24 DEF ShutdownFinalize, AclFinalize
<1>25. ASSUME ProcessEnds PROVE (CallsInOrder /\ Ownership /\ Handover /\ AppJoins)'
  BY <1>25 DEF ProcessEnds
<1>26. ASSUME UNCHANGED vars PROVE (CallsInOrder /\ Ownership /\ Handover /\ AppJoins)'
  BY <1>26 DEF vars
<1> QED
  BY <1>1, <1>2, <1>3, <1>4, <1>5, <1>6, <1>7, <1>8, <1>9,
     <1>10, <1>11, <1>12, <1>13, <1>14, <1>15, <1>16, <1>17, <1>18,
     <1>19, <1>20, <1>21, <1>22, <1>23, <1>24, <1>25, <1>26
     DEF Next, ThreadStep, ExitStep, Terminated

\* Every step keeps the SDK alive for as long as shutdown may need it.
LEMMA StackNext == IInv /\ [Next]_vars => (Guarded /\ GoneLate /\ TeardownWhileSdkLive)'
<1> SUFFICES ASSUME IInv, [Next]_vars PROVE (Guarded /\ GoneLate /\ TeardownWhileSdkLive)'
  OBVIOUS
<1> USE DEF IInv, TypeOK, Guarded, GoneLate, TeardownWhileSdkLive, aclVars, exitVars, threadVars
<1>1. ASSUME AppInit PROVE (Guarded /\ GoneLate /\ TeardownWhileSdkLive)'
  BY <1>1 DEF AppInit, Ownership, Handover, Managers, Usable
<1>2. ASSUME NEW t \in Threads, AppSetDevice(t) PROVE (Guarded /\ GoneLate /\ TeardownWhileSdkLive)'
  BY <1>2 DEF AppSetDevice, AclSet, AfterSetDevice, Ownership, Handover, Managers
<1>3. ASSUME NEW t \in Threads, Call(t) PROVE (Guarded /\ GoneLate /\ TeardownWhileSdkLive)'
  BY <1>3 DEF Call
<1>4. ASSUME NEW t \in Threads, EnsureInitializedAgain(t) PROVE (Guarded /\ GoneLate /\ TeardownWhileSdkLive)'
  BY <1>4 DEF EnsureInitializedAgain, GoTo, Return, AfterInit, Initialising
<1>5. ASSUME NEW t \in Threads, EnsureInitializedFails(t) PROVE (Guarded /\ GoneLate /\ TeardownWhileSdkLive)'
  BY <1>5 DEF EnsureInitializedFails, GoTo, Return, Initialising
<1>6. ASSUME NEW t \in Threads, EnsureInitializedFirst(t) PROVE (Guarded /\ GoneLate /\ TeardownWhileSdkLive)'
  <2>1. Sheltered(stack')
    BY <1>6, PushFacts DEF EnsureInitializedFirst, Callbacks
  <2>2. ~mgr.attempted /\ ~mgr.deviceCleanup
    BY <1>6 DEF EnsureInitializedFirst, Handover
  <2>3. mgr'.deviceCleanup = mgr.deviceCleanup /\ (mgr'.owns => acl = "none") /\ acl' # "none"
    BY <1>6 DEF EnsureInitializedFirst, Managers
  <2> QED
    BY <1>6, <2>1, <2>2, <2>3 DEF EnsureInitializedFirst, Ownership
<1>7. ASSUME NEW t \in Threads, EnsureInitializedUnregistered(t) PROVE (Guarded /\ GoneLate /\ TeardownWhileSdkLive)'
  <2>1. ~mgr.attempted /\ ~mgr.deviceCleanup /\ ~mgr.owns
    BY <1>7 DEF EnsureInitializedUnregistered, Handover, Ownership
  <2>2. mgr'.deviceCleanup = mgr.deviceCleanup /\ mgr'.owns = mgr.owns
    BY <1>7 DEF EnsureInitializedUnregistered, Managers
  <2> QED
    BY <1>7, <2>1, <2>2 DEF EnsureInitializedUnregistered
<1>8. ASSUME NEW t \in Threads, QueryDevice(t) PROVE (Guarded /\ GoneLate /\ TeardownWhileSdkLive)'
  BY <1>8 DEF QueryDevice, GoTo, Return
<1>9. ASSUME NEW t \in Threads, BindRefused(t) PROVE (Guarded /\ GoneLate /\ TeardownWhileSdkLive)'
  BY <1>9 DEF BindRefused, Return
<1>10. ASSUME NEW t \in Threads, BindFails(t) PROVE (Guarded /\ GoneLate /\ TeardownWhileSdkLive)'
  <2>1. stack' = stack \/ Sheltered(stack')
    BY <1>10, PushFacts DEF BindFails, Callbacks, AfterSetDevice, Binding
  <2>2. acl' = acl /\ acl # "none" /\ Usable /\ gone' = gone /\ phase' = phase
        /\ UNCHANGED <<todo, finalize>>
    BY <1>10 DEF BindFails, Binding, CallsInOrder, Ownership
  <2>3. mgr' = mgr /\ (mgr.deviceCleanup => stack' = stack)
    BY <1>10 DEF BindFails
  <2> QED
    BY <2>1, <2>2, <2>3
<1>11. ASSUME NEW t \in Threads, BindUnregistered(t) PROVE (Guarded /\ GoneLate /\ TeardownWhileSdkLive)'
  <2>1. ~mgr'.owns /\ ~mgr'.deviceCleanup /\ acl' # "none" /\ UNCHANGED <<gone, phase, todo, finalize>>
    BY <1>11 DEF BindUnregistered, Binding, CallsInOrder, Ownership, Managers, AclFinalize
  <2>2. finalize => acl' # "app"
    BY <1>11, <2>1 DEF BindUnregistered, Binding, Usable, Ownership, AclFinalize
  <2> QED
    BY <2>1, <2>2
<1>12. ASSUME NEW t \in Threads, BindOverflow(t) PROVE (Guarded /\ GoneLate /\ TeardownWhileSdkLive)'
  BY <1>12 DEF BindOverflow, Binding, Return, AclSetAndReset, AclSet, Without
<1>13. ASSUME NEW t \in Threads, Bind(t) PROVE (Guarded /\ GoneLate /\ TeardownWhileSdkLive)'
  <2>1. stack' = stack \/ Sheltered(stack')
    BY <1>13, PushFacts DEF Bind, Callbacks, AfterSetDevice, Binding
  <2>2. acl' = acl /\ acl # "none" /\ Usable /\ gone' = gone /\ phase' = phase
        /\ UNCHANGED <<todo, finalize>>
    BY <1>13 DEF Bind, Binding, CallsInOrder, Ownership
  <2>3. /\ mgr'.owns = mgr.owns /\ mgr'.shutdown = mgr.shutdown
        /\ mgr.deviceCleanup => stack' = stack
    BY <1>13 DEF Bind, Managers
  <2>4. "sdk" \notin gone
    <3>1. CASE acl = "ascify"
      BY <1>13, <2>2, <3>1 DEF Ownership, Usable
    <3>2. CASE acl = "app"
      BY <1>13, <3>2 DEF AppJoins, Bind, Binding
    <3> QED
      BY <1>13, <2>2, <3>1, <3>2 DEF Ownership, Bind, Binding, CallsInOrder
  <2>5. ~mgr.deviceCleanup => Sheltered(stack')
    BY <1>13, PushFacts DEF Bind, AfterSetDevice, Callbacks
  <2> QED
    BY <2>2, <2>3, <2>4, <2>5 DEF Usable
<1>14. ASSUME NEW t \in Threads, ResetDevice(t) PROVE (Guarded /\ GoneLate /\ TeardownWhileSdkLive)'
  <2>1. UNCHANGED <<acl, stack, gone, phase, todo, finalize>>
    BY <1>14 DEF ResetDevice
  <2>2. mgr' = mgr \/ mgr' = [mgr EXCEPT !.active = Forget(arg[t])]
    BY <1>14 DEF ResetDevice
  <2>3. /\ mgr'.owns = mgr.owns /\ mgr'.shutdown = mgr.shutdown
        /\ mgr'.deviceCleanup = mgr.deviceCleanup
    BY <2>2 DEF Managers
  <2> QED
    BY <2>1, <2>3
<1>15. ASSUME NEW t \in Threads, StartAgain(t) PROVE (Guarded /\ GoneLate /\ TeardownWhileSdkLive)'
  BY <1>15 DEF StartAgain, Return
<1>16. ASSUME NEW t \in Threads, StartFails(t) PROVE (Guarded /\ GoneLate /\ TeardownWhileSdkLive)'
  <2>1. stack' = stack \/ stack' = Push("sdkprof", stack)
    BY <1>16 DEF StartFails
  <2>2. /\ Sheltered(stack) => Sheltered(stack')
        /\ NoSdk(stack) => NoSdk(stack')
    BY <2>1, PushFacts DEF Callbacks
  <2> QED
    BY <1>16, <2>2 DEF StartFails
<1>17. ASSUME NEW t \in Threads, Start(t) PROVE (Guarded /\ GoneLate /\ TeardownWhileSdkLive)'
  <2>1. stack' = stack \/ stack' = Push("prof", Push("sdkprof", stack))
    BY <1>17 DEF Start
  <2>2. /\ Sheltered(stack) => Sheltered(stack')
        /\ NoSdk(stack) => NoSdk(stack')
    <3>1. /\ Push("sdkprof", stack) \in Seq(Callbacks)
          /\ Sheltered(stack) => Sheltered(Push("sdkprof", stack))
          /\ NoSdk(stack) => NoSdk(Push("sdkprof", stack))
      BY PushFacts DEF Callbacks
    <3> QED
      BY <2>1, <3>1, PushFacts DEF Callbacks
  <2> QED
    BY <1>17, <2>2 DEF Start
<1>18. ASSUME NEW t \in Threads, Stop(t) PROVE (Guarded /\ GoneLate /\ TeardownWhileSdkLive)'
  BY <1>18 DEF Stop, Return
<1>19. ASSUME BeginExit PROVE (Guarded /\ GoneLate /\ TeardownWhileSdkLive)'
  BY <1>19 DEF BeginExit
<1>20. ASSUME DestroySdk PROVE (Guarded /\ GoneLate /\ TeardownWhileSdkLive)'
  <2>1. /\ Sheltered(stack) => Sheltered(stack') /\ gone' = gone \cup {"sdkprof"}
        /\ NoSdk(stack) => NoSdk(stack') /\ gone' = gone \cup {"sdkprof"}
    BY <1>20, PopFacts DEF DestroySdk, Popping
  <2> QED
    BY <1>20, <2>1 DEF DestroySdk, Popping
<1>21. ASSUME ProfilerExit PROVE (Guarded /\ GoneLate /\ TeardownWhileSdkLive)'
  <2>1. /\ Sheltered(stack) => Sheltered(stack')
        /\ NoSdk(stack) => NoSdk(stack')
    BY <1>21, PopFacts DEF ProfilerExit, Popping
  <2> QED
    BY <1>21, <2>1 DEF ProfilerExit, Popping
<1>22. ASSUME Shutdown PROVE (Guarded /\ GoneLate /\ TeardownWhileSdkLive)'
  <2>1. mgr'.shutdown /\ acl' = acl /\ gone' = gone /\ phase' = phase /\ phase = "exit"
    BY <1>22 DEF Shutdown, Popping, Managers
  <2>2. NoSdk(stack) => NoSdk(stack')
    BY <1>22, PopFacts DEF Shutdown, Popping
  <2>3. TeardownWhileSdkLive'
    <3>1. CASE mgr.shutdown
      BY <1>22, <3>1 DEF Shutdown
    <3>2. CASE ~mgr.shutdown
      <4>1. todo' = Reverse(mgr.active) /\ finalize' = mgr.owns
        BY <1>22, <3>2 DEF Shutdown
      <4>2. mgr.active \in Seq(Devices)
        BY DEF Managers
      <4>3. todo' # <<>> => mgr.deviceCleanup
        BY <4>1, <4>2, ListFacts DEF Handover
      <4> QED
        BY <2>1, <3>2, <4>1, <4>3 DEF Ownership
    <3> QED
      BY <3>1, <3>2
  <2> QED
    BY <2>1, <2>2, <2>3
<1>23. ASSUME ShutdownReset PROVE (Guarded /\ GoneLate /\ TeardownWhileSdkLive)'
  BY <1>23 DEF ShutdownReset, AclReset, Without
<1>24. ASSUME ShutdownFinalize PROVE (Guarded /\ GoneLate /\ TeardownWhileSdkLive)'
  BY <1>24 DEF ShutdownFinalize, AclFinalize
<1>25. ASSUME ProcessEnds PROVE (Guarded /\ GoneLate /\ TeardownWhileSdkLive)'
  BY <1>25 DEF ProcessEnds
<1>26. ASSUME UNCHANGED vars PROVE (Guarded /\ GoneLate /\ TeardownWhileSdkLive)'
  BY <1>26 DEF vars
<1> QED
  BY <1>1, <1>2, <1>3, <1>4, <1>5, <1>6, <1>7, <1>8, <1>9,
     <1>10, <1>11, <1>12, <1>13, <1>14, <1>15, <1>16, <1>17, <1>18,
     <1>19, <1>20, <1>21, <1>22, <1>23, <1>24, <1>25, <1>26
     DEF Next, ThreadStep, ExitStep, Terminated

\* A device is tracked when it is in the table.
LEMMA TrackedFacts == \A d : Tracked(d) <=> d \in Range(mgr.active)
BY DEF Tracked, Range

\* Every step keeps the table true to ACL.
LEMMA BindingsNext == IInv /\ [Next]_vars => BindingsTracked'
<1> SUFFICES ASSUME IInv, [Next]_vars PROVE BindingsTracked'
  OBVIOUS
<1> USE DEF IInv, TypeOK, BindingsTracked, aclVars, exitVars, threadVars
<1>1. ASSUME AppInit PROVE BindingsTracked'
  BY <1>1 DEF AppInit
<1>2. ASSUME NEW t \in Threads, AppSetDevice(t) PROVE BindingsTracked'
  BY <1>2 DEF AppSetDevice
<1>3. ASSUME NEW t \in Threads, Call(t) PROVE BindingsTracked'
  BY <1>3 DEF Call
<1>4. ASSUME NEW t \in Threads, EnsureInitializedAgain(t) PROVE BindingsTracked'
  BY <1>4 DEF EnsureInitializedAgain, GoTo, Return, AfterInit, Initialising
<1>5. ASSUME NEW t \in Threads, EnsureInitializedFails(t) PROVE BindingsTracked'
  BY <1>5 DEF EnsureInitializedFails, Managers
<1>6. ASSUME NEW t \in Threads, EnsureInitializedFirst(t) PROVE BindingsTracked'
  <2>1. mgr.active = <<>> /\ mgr'.active = mgr.active /\ acl \in {"none", "app"}
    BY <1>6 DEF EnsureInitializedFirst, Handover, Ownership, Managers
  <2>2. Range(mgr'.active) = {}
    BY <2>1 DEF Range
  <2> QED
    BY <1>6, <2>1, <2>2 DEF EnsureInitializedFirst, Ownership
<1>7. ASSUME NEW t \in Threads, EnsureInitializedUnregistered(t) PROVE BindingsTracked'
  BY <1>7 DEF EnsureInitializedUnregistered, Managers, Ownership
<1>8. ASSUME NEW t \in Threads, QueryDevice(t) PROVE BindingsTracked'
  BY <1>8 DEF QueryDevice, GoTo, Return
<1>9. ASSUME NEW t \in Threads, BindRefused(t) PROVE BindingsTracked'
  BY <1>9 DEF BindRefused, Return
<1>10. ASSUME NEW t \in Threads, BindFails(t) PROVE BindingsTracked'
  BY <1>10 DEF BindFails, Binding, Return, AfterSetDevice
<1>11. ASSUME NEW t \in Threads, BindUnregistered(t) PROVE BindingsTracked'
  <2>1. mgr'.active = mgr.active
    BY <1>11 DEF BindUnregistered, Managers
  <2>2. acl' # "ascify"
    BY <1>11 DEF BindUnregistered, Binding, AclFinalize, Ownership
  <2> QED
    BY <2>1, <2>2
<1>12. ASSUME NEW t \in Threads, BindOverflow(t) PROVE BindingsTracked'
  <2>1. arg[t] \notin Range(mgr.active)
    BY <1>12, TrackedFacts DEF BindOverflow
  <2>2. /\ live' \ lost' \subseteq live \ lost
        /\ \A d \in live : d # arg[t] => d \in live'
    BY <1>12 DEF BindOverflow, AclSetAndReset, AclSet
  <2> QED
    BY <1>12, <2>1, <2>2 DEF BindOverflow
<1>13. ASSUME NEW t \in Threads, Bind(t) PROVE BindingsTracked'
  <2>1. mgr.active \in Seq(Devices) /\ arg[t] \in Devices /\ Distinct(mgr.active)
    BY DEF Managers, Distinct
  <2>2. mgr'.active = IF arg[t] \in Range(mgr.active) THEN mgr.active ELSE Append(mgr.active, arg[t])
    BY <1>13, TrackedFacts DEF Bind, Managers
  <2>3. Range(mgr'.active) = Range(mgr.active) \cup {arg[t]} /\ Distinct(mgr'.active)
    BY <2>1, <2>2, ListFacts
  <2>4. live' = live \cup {arg[t]} /\ UNCHANGED <<acl, lost, todo>>
    BY <1>13 DEF Bind, AclSet
  <2> QED
    BY <2>3, <2>4 DEF Distinct
<1>14. ASSUME NEW t \in Threads, ResetDevice(t) PROVE BindingsTracked'
  <2>1. mgr.active \in Seq(Devices) /\ arg[t] \in Devices /\ Distinct(mgr.active)
    BY DEF Managers, Distinct
  <2>2. CASE UNCHANGED <<live, mgr>>
    BY <1>14, <2>2 DEF ResetDevice
  <2>3. CASE AclReset(arg[t]) /\ mgr' = [mgr EXCEPT !.active = Forget(arg[t])]
    <3>1. mgr'.active = Forget(arg[t]) /\ live' = live \ {arg[t]}
      BY <2>3 DEF AclReset, Managers
    <3>2. Distinct(mgr'.active) /\ Range(mgr'.active) = Range(mgr.active) \ {arg[t]}
      BY <2>1, <3>1, ForgetFacts
    <3> QED
      BY <1>14, <3>1, <3>2 DEF ResetDevice, Distinct
  <2> QED
    BY <1>14, <2>2, <2>3 DEF ResetDevice
<1>15. ASSUME NEW t \in Threads, StartAgain(t) PROVE BindingsTracked'
  BY <1>15 DEF StartAgain, Return
<1>16. ASSUME NEW t \in Threads, StartFails(t) PROVE BindingsTracked'
  BY <1>16 DEF StartFails, Return
<1>17. ASSUME NEW t \in Threads, Start(t) PROVE BindingsTracked'
  BY <1>17 DEF Start, Return
<1>18. ASSUME NEW t \in Threads, Stop(t) PROVE BindingsTracked'
  BY <1>18 DEF Stop, Return
<1>19. ASSUME BeginExit PROVE BindingsTracked'
  BY <1>19 DEF BeginExit
<1>20. ASSUME DestroySdk PROVE BindingsTracked'
  BY <1>20 DEF DestroySdk, Popping
<1>21. ASSUME ProfilerExit PROVE BindingsTracked'
  BY <1>21 DEF ProfilerExit, Popping
<1>22. ASSUME Shutdown PROVE BindingsTracked'
  <2>1. CASE mgr.shutdown
    BY <1>22, <2>1 DEF Shutdown
  <2>2. CASE ~mgr.shutdown
    <3>1. mgr'.active = <<>> /\ todo' = Reverse(mgr.active) /\ todo = <<>>
      BY <1>22, <2>2 DEF Shutdown, Popping, Managers
    <3>2. Range(todo') = Range(mgr.active)
      BY <3>1, ListFacts DEF Managers
    <3>3. Range(mgr'.active) = {} /\ Range(todo) = {} /\ Distinct(mgr'.active)
      BY <3>1 DEF Range, Distinct
    <3> QED
      BY <1>22, <3>2, <3>3 DEF Shutdown, Distinct
  <2> QED
    BY <2>1, <2>2
<1>23. ASSUME ShutdownReset PROVE BindingsTracked'
  <2>1. Range(todo) = {Head(todo)} \cup Range(Tail(todo))
    BY <1>23, ListFacts DEF ShutdownReset
  <2>2. mgr' = mgr /\ mgr.active = <<>> /\ acl' = acl
    BY <1>23 DEF ShutdownReset, Handover
  <2>3. Range(mgr.active) = {}
    BY <2>2 DEF Range
  <2>4. live' \ lost' \subseteq (live \ lost) \ {Head(todo)}
    BY <1>23 DEF ShutdownReset, AclReset
  <2>5. todo' = Tail(todo)
    BY <1>23 DEF ShutdownReset
  <2> QED
    BY <2>1, <2>2, <2>3, <2>4, <2>5
<1>24. ASSUME ShutdownFinalize PROVE BindingsTracked'
  BY <1>24 DEF ShutdownFinalize, AclFinalize
<1>25. ASSUME ProcessEnds PROVE BindingsTracked'
  BY <1>25 DEF ProcessEnds
<1>26. ASSUME UNCHANGED vars PROVE BindingsTracked'
  BY <1>26 DEF vars
<1> QED
  BY <1>1, <1>2, <1>3, <1>4, <1>5, <1>6, <1>7, <1>8, <1>9,
     <1>10, <1>11, <1>12, <1>13, <1>14, <1>15, <1>16, <1>17, <1>18,
     <1>19, <1>20, <1>21, <1>22, <1>23, <1>24, <1>25, <1>26
     DEF Next, ThreadStep, ExitStep, Terminated

\* Every step of the threads, the application and the exit preserves the invariant.
LEMMA IInvNext == IInv /\ [Next]_vars => IInv'
BY TypeNext, ProfNext, ControlNext, StackNext, BindingsNext DEF IInv

\* The manager, the profiler, the exit stack and the threads keep their types.
THEOREM TypeCorrect == Spec => []TypeOK
<1>1. IInv => TypeOK
  BY DEF IInv
<1> QED
  BY <1>1, IInvInit, IInvNext, PTL DEF Spec

\* For every number of threads and devices and every capacity, a device Ascify
\* has bound is in the table or about to be reset, and nothing else is.
THEOREM TeardownKnowsBindings == Spec => []BindingsTracked
<1>1. IInv => BindingsTracked
  BY DEF IInv
<1> QED
  BY <1>1, IInvInit, IInvNext, PTL DEF Spec

\* shutdown resets and finalizes while the SDK's exit state still exists, however
\* many attempts failed and whichever thread made them.
THEOREM TeardownInTime == Spec => []TeardownWhileSdkLive
<1>1. IInv => TeardownWhileSdkLive
  BY DEF IInv
<1> QED
  BY <1>1, IInvInit, IInvNext, PTL DEF Spec

\* A profiler session unwinds from its last stage to its first.
THEOREM SessionUnwinds == Spec => []ProfilerUnwinds
<1>1. IInv => ProfilerUnwinds
  BY DEF IInv
<1> QED
  BY <1>1, IInvInit, IInvNext, PTL DEF Spec

-----------------------------------------------------------------------------
(* Row-wise calls                                                          *)

\* A call the SIMD kernel was launched for.
Admitted == call.entry = "hybrid" /\ ~Declined(call)

Untouched == ran = <<>> /\ rowAt = <<>> /\ dirty = {} /\ lastError = call.earlier

\* One launch of kernel k with result s, and what the call returned for it.
Answered(k, s) ==
    /\ ran = <<[kernel |-> k, launch |-> s]>>
    /\ lastError = (IF s = "ok" THEN call.earlier ELSE s)
    /\ status = lastError \/ (call.lifecycle # "ok" /\ status = call.lifecycle)
    /\ k = "original" => Declined(call)

RowsOfCall ==
    /\ at = "returned" /\ Admitted
    /\ rowAt \in [0 .. call.rows - 1 -> {"new", "read", "written"}]

\* What is dirty was written by a row that is done.
DirtyOwned == \A x \in dirty : \E r \in DOMAIN rowAt : rowAt[r] = "written" /\ x \in Writes(r)

RouteInv ==
    /\ call \in WrapperCalls
    /\ at \in {"entry", "original", "returned"}
    /\ at # "returned" => Untouched
    /\ at = "original" => Declined(call)
    /\ at = "returned" =>
         \/ ran = <<>> /\ status \in {"geometry_error", "query_error"}
         \/ \E k, s : s \in LaunchResults /\ Answered(k, s)
    /\ rowAt = <<>> \/ RowsOfCall
    /\ DirtyOwned

\* Row r of a matrix of R rows of w bytes at p.
LEMMA RowBounds ==
    ASSUME NEW p \in Int, NEW R \in Int, NEW w \in Nat, NEW r \in 0 .. R - 1
    PROVE  p + r * w .. p + (r + 1) * w - 1 \subseteq p .. p + R * w - 1
<1>1. 0 <= r * w
    OBVIOUS
<1>2. (r + 1) * w <= R * w
    OBVIOUS
<1> QED
    BY <1>1, <1>2

LEMMA RowsApart ==
    ASSUME NEW p \in Int, NEW w \in Nat, NEW r \in Nat, NEW s \in Nat, r # s
    PROVE  (p + r * w .. p + (r + 1) * w - 1) \cap (p + s * w .. p + (s + 1) * w - 1) = {}
<1>1. CASE r < s
  <2>1. (r + 1) * w <= s * w
    BY <1>1
  <2> QED
    BY <2>1
<1>2. CASE s < r
  <2>1. (s + 1) * w <= r * w
    BY <1>2
  <2> QED
    BY <2>1
<1> QED
    BY <1>1, <1>2

\* The bytes of a buffer of n bytes at p.
Buffer(p, n) == p .. p + n - 1

\* Half-open ranges of n and m bytes at p and q do not meet.
Apart(p, n, q, m) == p + n <= q \/ q + m <= p

\* Where the buffers of a call lie.  W is the length of a matrix in bytes, V that
\* of the row values.
Placement(c, W, V) ==
    /\ c.input + W <= MaxAddress /\ c.output + W <= MaxAddress
    /\ c.input = c.output \/ Apart(c.input, W, c.output, W)
    /\ c.op # "softmax" =>
         /\ c.inverse + V <= MaxAddress
         /\ Apart(c.inverse, V, c.input, W) /\ Apart(c.inverse, V, c.output, W)
    /\ c.op = "layernorm" =>
         /\ c.mean + V <= MaxAddress /\ Apart(c.mean, V, c.inverse, V)
         /\ Apart(c.mean, V, c.input, W) /\ Apart(c.mean, V, c.output, W)
    /\ c.op = "rms" /\ c.weight # 0 =>
         /\ Apart(c.weight, c.columns * HalfBytes, c.output, W)
         /\ Apart(c.weight, c.columns * HalfBytes, c.inverse, V)

LEMMA SpanBytes ==
    ASSUME NEW p \in Nat, NEW n \in Int, NEW b \in Nat, NEW s \in TryMakeByteSpan(p, n, b)
    PROVE  s.begin = p /\ s.end = p + n * b /\ p + n * b <= MaxAddress
<1>1. MaxAddress \in Nat
    BY RouteAssumption
<1>2. n * b \in Int
    OBVIOUS
<1>3. n * b <= MaxAddress - p
    BY <1>1, <1>2 DEF TryMakeByteSpan
<1>4. s = [begin |-> p, end |-> p + n * b]
    BY DEF TryMakeByteSpan
<1> QED
    BY <1>1, <1>2, <1>3, <1>4

LEMMA MatrixBytes ==
    ASSUME NEW c \in WrapperCalls, NEW m \in Matrices(c)
    PROVE  LET W == c.rows * c.columns * HalfBytes
           IN  /\ c.rows > 0 /\ c.columns > 0
               /\ m.input.begin = c.input /\ m.input.end = c.input + W /\ c.input + W <= MaxAddress
               /\ m.output.begin = c.output /\ m.output.end = c.output + W /\ c.output + W <= MaxAddress
<1>1. PICK i \in TryMakeMatrixByteSpan(c.input, c.rows, c.columns, HalfBytes),
           o \in TryMakeMatrixByteSpan(c.output, c.rows, c.columns, HalfBytes) : m = [input |-> i, output |-> o]
    BY DEF Matrices
<1>2. /\ c.rows \in Int /\ c.columns \in Int /\ c.input \in Nat /\ c.output \in Nat /\ HalfBytes \in Nat
      /\ c.rows * c.columns \in Int
    BY RouteAssumption, WrapperCallsAssumption
<1>3. c.rows > 0 /\ c.columns > 0
    BY <1>1 DEF TryMakeMatrixByteSpan, HasValidContiguousExtent
<1>4. /\ i \in TryMakeByteSpan(c.input, c.rows * c.columns, HalfBytes)
      /\ o \in TryMakeByteSpan(c.output, c.rows * c.columns, HalfBytes)
    BY <1>1 DEF TryMakeMatrixByteSpan
<1>5. /\ i.begin = c.input /\ i.end = c.input + (c.rows * c.columns) * HalfBytes
      /\ c.input + (c.rows * c.columns) * HalfBytes <= MaxAddress
    BY <1>2, <1>4, SpanBytes
<1>6. /\ o.begin = c.output /\ o.end = c.output + (c.rows * c.columns) * HalfBytes
      /\ c.output + (c.rows * c.columns) * HalfBytes <= MaxAddress
    BY <1>2, <1>4, SpanBytes
<1>7. m.input = i /\ m.output = o
    BY <1>1
<1> QED
    BY <1>3, <1>5, <1>6, <1>7

LEMMA ValueSpanBytes ==
    ASSUME NEW c \in WrapperCalls, NEW p \in Nat, NEW s \in RowValues(p, c)
    PROVE  s.begin = p /\ s.end = p + c.rows * FloatBytes /\ p + c.rows * FloatBytes <= MaxAddress
<1>1. c.rows \in Int /\ FloatBytes \in Nat
    BY RouteAssumption, WrapperCallsAssumption
<1> QED
    BY <1>1, SpanBytes DEF RowValues

LEMMA WeightSpanBytes ==
    ASSUME NEW c \in WrapperCalls, NEW s \in TryMakeByteSpan(c.weight, c.columns, HalfBytes)
    PROVE  s.begin = c.weight /\ s.end = c.weight + c.columns * HalfBytes
<1>1. s = [begin |-> c.weight, end |-> c.weight + c.columns * HalfBytes]
    BY DEF TryMakeByteSpan
<1> QED
    BY <1>1

LEMMA AdmittedPlacement ==
    ASSUME NEW c \in WrapperCalls, c.entry = "hybrid", ~Declined(c)
    PROVE  /\ c.rows > 0 /\ c.columns > 0
           /\ Placement(c, c.rows * c.columns * HalfBytes, c.rows * FloatBytes)
<1> DEFINE W == c.rows * c.columns * HalfBytes
           V == c.rows * FloatBytes
           Z == c.columns * HalfBytes
<1>1. /\ c.rows \in Int /\ c.columns \in Int /\ HalfBytes \in Nat /\ FloatBytes \in Nat
      /\ c.input \in Nat /\ c.output \in Nat /\ c.inverse \in Nat /\ c.mean \in Nat /\ c.weight \in Nat
    BY RouteAssumption, WrapperCallsAssumption
<1>2. W \in Int /\ V \in Int /\ Z \in Int
    BY <1>1
<1>3. HybridKernel(c) # "simt"
    BY DEF Declined
<1>4. CASE c.op = "softmax"
  <2>1. PICK m \in Matrices(c) : SpansAreDisjointOrExact(m.input, m.output)
    BY <1>3, <1>4 DEF HybridKernel, IsSoftmaxSimdDomain
  <2>2. /\ c.rows > 0 /\ c.columns > 0
        /\ m.input.begin = c.input /\ m.input.end = c.input + W /\ c.input + W <= MaxAddress
        /\ m.output.begin = c.output /\ m.output.end = c.output + W /\ c.output + W <= MaxAddress
    BY MatrixBytes
  <2> HIDE DEF W, V, Z
  <2>3. c.input = c.output \/ Apart(c.input, W, c.output, W)
    BY <1>1, <1>2, <2>1, <2>2 DEF SpansAreDisjointOrExact, SpansOverlap, SpansAreExact, Apart
  <2>4. Placement(c, W, V)
    BY <1>4, <2>2, <2>3 DEF Placement
  <2> QED
    BY <2>2, <2>4 DEF W, V
<1>5. CASE c.op = "rms"
  <2>1. CommonRms(c, FALSE) \/ CommonRms(c, TRUE)
    BY <1>3, <1>5 DEF HybridKernel, SelectRmsNormRoute, IsRmsNormPlainRowBatchSimdDomain, IsRmsNormCachedSimdDomain
  <2>2. PICK m \in Matrices(c), v \in RowValues(c.inverse, c) :
            /\ ~ SpansOverlap(v, m.input) /\ ~ SpansOverlap(v, m.output)
            /\ c.weight # 0 => \E w \in TryMakeByteSpan(c.weight, c.columns, HalfBytes) :
                 ~ SpansOverlap(w, m.output) /\ ~ SpansOverlap(w, v)
            /\ \/ ~ SpansOverlap(m.input, m.output)
               \/ SpansAreExact(m.input, m.output)
    BY <2>1 DEF CommonRms
  <2>3. /\ c.rows > 0 /\ c.columns > 0
        /\ m.input.begin = c.input /\ m.input.end = c.input + W /\ c.input + W <= MaxAddress
        /\ m.output.begin = c.output /\ m.output.end = c.output + W /\ c.output + W <= MaxAddress
    BY MatrixBytes
  <2>4. v.begin = c.inverse /\ v.end = c.inverse + V /\ c.inverse + V <= MaxAddress
    BY <1>1, ValueSpanBytes
  <2> HIDE DEF W, V, Z
  <2>5. ASSUME NEW w \in TryMakeByteSpan(c.weight, c.columns, HalfBytes)
        PROVE  w.begin = c.weight /\ w.end = c.weight + Z
    BY WeightSpanBytes DEF Z
  <2>6. c.weight # 0 => Apart(c.weight, Z, c.output, W) /\ Apart(c.weight, Z, c.inverse, V)
    BY <1>1, <1>2, <2>2, <2>3, <2>4, <2>5 DEF SpansOverlap, Apart
  <2>7. c.input = c.output \/ Apart(c.input, W, c.output, W)
    BY <1>1, <1>2, <2>2, <2>3 DEF SpansOverlap, SpansAreExact, Apart
  <2>8. Apart(c.inverse, V, c.input, W) /\ Apart(c.inverse, V, c.output, W)
    BY <1>1, <1>2, <2>2, <2>3, <2>4 DEF SpansOverlap, Apart
  <2>9. Placement(c, W, V)
    BY <1>5, <2>3, <2>4, <2>6, <2>7, <2>8 DEF Placement, Z
  <2> QED
    BY <2>3, <2>9 DEF W, V
<1>6. CASE c.op \notin {"softmax", "rms"}
  <2>1. PICK m \in Matrices(c), u \in RowValues(c.mean, c), v \in RowValues(c.inverse, c) :
            /\ SpansAreDisjointOrExact(m.input, m.output) /\ ~ SpansOverlap(u, v)
            /\ ~ SpansOverlap(u, m.input) /\ ~ SpansOverlap(u, m.output)
            /\ ~ SpansOverlap(v, m.input) /\ ~ SpansOverlap(v, m.output)
    BY <1>3, <1>6 DEF HybridKernel, IsLayerNormCachedHybridDomain
  <2>2. /\ c.rows > 0 /\ c.columns > 0
        /\ m.input.begin = c.input /\ m.input.end = c.input + W /\ c.input + W <= MaxAddress
        /\ m.output.begin = c.output /\ m.output.end = c.output + W /\ c.output + W <= MaxAddress
    BY MatrixBytes
  <2>3. /\ u.begin = c.mean /\ u.end = c.mean + V /\ c.mean + V <= MaxAddress
        /\ v.begin = c.inverse /\ v.end = c.inverse + V /\ c.inverse + V <= MaxAddress
    BY <1>1, ValueSpanBytes
  <2> HIDE DEF W, V, Z
  <2>4. c.input = c.output \/ Apart(c.input, W, c.output, W)
    BY <1>1, <1>2, <2>1, <2>2 DEF SpansAreDisjointOrExact, SpansOverlap, SpansAreExact, Apart
  <2>5. /\ Apart(c.inverse, V, c.input, W) /\ Apart(c.inverse, V, c.output, W)
        /\ Apart(c.mean, V, c.input, W) /\ Apart(c.mean, V, c.output, W)
        /\ Apart(c.mean, V, c.inverse, V)
    BY <1>1, <1>2, <2>1, <2>2, <2>3 DEF SpansOverlap, Apart
  <2>6. Placement(c, W, V)
    BY <1>6, <2>2, <2>3, <2>4, <2>5 DEF Placement
  <2> QED
    BY <2>2, <2>6 DEF W, V
<1> QED
    BY <1>4, <1>5, <1>6

LEMMA TimesAssociates ==
    ASSUME NEW a \in Int, NEW b \in Int, NEW c \in Int
    PROVE  a * b * c = a * (b * c) /\ b * c \in Int
    OBVIOUS

\* The bytes of a row, as a row of w bytes.
LEMMA RowBytesAre ==
    ASSUME call \in WrapperCalls, NEW p \in Int, NEW r \in Int
    PROVE  LET w == call.columns * HalfBytes
           IN  RowBytes(p, r) = p + r * w .. p + (r + 1) * w - 1
<1>1. call.columns \in Int /\ HalfBytes \in Int
    BY RouteAssumption, WrapperCallsAssumption
<1>2. r * call.columns * HalfBytes = r * (call.columns * HalfBytes)
    BY <1>1, TimesAssociates
<1>3. (r + 1) * call.columns * HalfBytes = (r + 1) * (call.columns * HalfBytes)
    BY <1>1, TimesAssociates
<1> QED
    BY <1>2, <1>3 DEF RowBytes

\* Every range a row of an admitted call touches lies in its buffer.
LEMMA RowRanges ==
    ASSUME call \in WrapperCalls, Admitted, NEW r \in 0 .. call.rows - 1, NEW p \in Nat
    PROVE  /\ RowBytes(p, r) \subseteq Buffer(p, call.rows * call.columns * HalfBytes)
           /\ ValueBytes(p, r) \subseteq Buffer(p, call.rows * FloatBytes)
<1>1. /\ call.rows \in Int /\ call.columns \in Int /\ HalfBytes \in Nat /\ FloatBytes \in Nat
      /\ call.columns > 0
    BY RouteAssumption, WrapperCallsAssumption, AdmittedPlacement DEF Admitted
<1> DEFINE w == call.columns * HalfBytes
<1>2. w \in Nat
    BY <1>1
<1>3. call.rows * call.columns * HalfBytes = call.rows * w
    BY <1>1, TimesAssociates
<1>4. RowBytes(p, r) = p + r * w .. p + (r + 1) * w - 1
    BY RowBytesAre
<1>5. ValueBytes(p, r) = p + r * FloatBytes .. p + (r + 1) * FloatBytes - 1
    BY DEF ValueBytes
<1> HIDE DEF w
<1>6. p + r * w .. p + (r + 1) * w - 1 \subseteq p .. p + call.rows * w - 1
    BY <1>1, <1>2, RowBounds
<1>7. p + r * FloatBytes .. p + (r + 1) * FloatBytes - 1 \subseteq p .. p + call.rows * FloatBytes - 1
    BY <1>1, RowBounds
<1> QED
    BY <1>3, <1>4, <1>5, <1>6, <1>7 DEF Buffer

LEMMA RowsDisjoint ==
    ASSUME call \in WrapperCalls, Admitted, NEW r \in 0 .. call.rows - 1, NEW s \in 0 .. call.rows - 1,
           r # s, NEW p \in Nat
    PROVE  /\ RowBytes(p, r) \cap RowBytes(p, s) = {}
           /\ ValueBytes(p, r) \cap ValueBytes(p, s) = {}
<1>1. /\ call.rows \in Int /\ call.columns \in Int /\ HalfBytes \in Nat /\ FloatBytes \in Nat
      /\ call.columns > 0
    BY RouteAssumption, WrapperCallsAssumption, AdmittedPlacement DEF Admitted
<1> DEFINE w == call.columns * HalfBytes
<1>2. w \in Nat /\ r \in Nat /\ s \in Nat
    BY <1>1
<1>3. RowBytes(p, r) = p + r * w .. p + (r + 1) * w - 1
    BY RowBytesAre
<1>4. RowBytes(p, s) = p + s * w .. p + (s + 1) * w - 1
    BY RowBytesAre
<1> HIDE DEF w
<1>5. RowBytes(p, r) \cap RowBytes(p, s) = {}
    BY <1>2, <1>3, <1>4, RowsApart
<1>6. ValueBytes(p, r) \cap ValueBytes(p, s) = {}
    BY <1>1, <1>2, RowsApart DEF ValueBytes
<1> QED
    BY <1>5, <1>6

LEMMA ApartRanges ==
    ASSUME NEW p \in Int, NEW n \in Int, NEW q \in Int, NEW m \in Int, Apart(p, n, q, m)
    PROVE  Buffer(p, n) \cap Buffer(q, m) = {}
    BY DEF Apart, Buffer

\* An admitted call writes inside the address space, and its rows neither read nor
\* write what another row writes.
LEMMA RowsIndependent ==
    ASSUME call \in WrapperCalls, Admitted, NEW r \in 0 .. call.rows - 1
    PROVE  /\ Writes(r) \subseteq 0 .. MaxAddress
           /\ \A s \in 0 .. call.rows - 1 : s # r => Writes(r) \cap (Reads(s) \cup Writes(s)) = {}
<1> DEFINE W == call.rows * call.columns * HalfBytes
           V == call.rows * FloatBytes
           Z == call.columns * HalfBytes
           In == Buffer(call.input, W)
           Out == Buffer(call.output, W)
           Inv == Buffer(call.inverse, V)
           Mean == Buffer(call.mean, V)
           Wt == Buffer(call.weight, Z)
<1>1. /\ call.rows \in Int /\ call.columns \in Int /\ HalfBytes \in Nat /\ FloatBytes \in Nat /\ MaxAddress \in Nat
      /\ call.input \in Nat /\ call.output \in Nat /\ call.inverse \in Nat /\ call.mean \in Nat /\ call.weight \in Nat
    BY RouteAssumption, WrapperCallsAssumption
<1>2. W \in Int /\ V \in Int /\ Z \in Int
    BY <1>1
<1>3. Placement(call, W, V)
    BY AdmittedPlacement DEF Admitted
<1>4. ASSUME NEW q \in 0 .. call.rows - 1
      PROVE  /\ RowBytes(call.input, q) \subseteq In
             /\ RowBytes(call.output, q) \subseteq Out
             /\ ValueBytes(call.inverse, q) \subseteq Inv
             /\ ValueBytes(call.mean, q) \subseteq Mean
    BY <1>1, RowRanges
<1>5. /\ call.input = call.output \/ In \cap Out = {}
      /\ Out \subseteq 0 .. MaxAddress
      /\ call.op # "softmax" => Inv \cap In = {} /\ Inv \cap Out = {} /\ Inv \subseteq 0 .. MaxAddress
      /\ call.op = "layernorm" => Mean \cap In = {} /\ Mean \cap Out = {} /\ Mean \cap Inv = {} /\ Mean \subseteq 0 .. MaxAddress
      /\ call.op = "rms" /\ call.weight # 0 => Wt \cap Out = {} /\ Wt \cap Inv = {}
  <2>1. \A p, n, q, m \in Int : Apart(p, n, q, m) => Buffer(p, n) \cap Buffer(q, m) = {}
    BY ApartRanges
  <2>2. \A p \in Nat, n \in Int : p + n <= MaxAddress => Buffer(p, n) \subseteq 0 .. MaxAddress
    BY <1>1 DEF Buffer
  <2>3. /\ call.input = call.output \/ Apart(call.input, W, call.output, W)
        /\ call.output + W <= MaxAddress
    BY <1>3 DEF Placement
  <2>4. call.op # "softmax" => /\ call.inverse + V <= MaxAddress
                               /\ Apart(call.inverse, V, call.input, W) /\ Apart(call.inverse, V, call.output, W)
    BY <1>3 DEF Placement
  <2>5. call.op = "layernorm" =>
           /\ call.mean + V <= MaxAddress /\ Apart(call.mean, V, call.inverse, V)
           /\ Apart(call.mean, V, call.input, W) /\ Apart(call.mean, V, call.output, W)
    BY <1>3 DEF Placement
  <2>6. call.op = "rms" /\ call.weight # 0 => Apart(call.weight, Z, call.output, W) /\ Apart(call.weight, Z, call.inverse, V)
    BY <1>3 DEF Placement
  <2> HIDE DEF W, V, Z
  <2>7. (call.input = call.output \/ In \cap Out = {}) /\ Out \subseteq 0 .. MaxAddress
    BY <1>1, <1>2, <2>1, <2>2, <2>3
  <2>8. call.op # "softmax" => Inv \cap In = {} /\ Inv \cap Out = {} /\ Inv \subseteq 0 .. MaxAddress
    <3>1. ASSUME call.op # "softmax" PROVE Inv \cap In = {} /\ Inv \cap Out = {}
      BY <1>1, <1>2, <2>1, <2>4, <3>1
    <3>2. ASSUME call.op # "softmax" PROVE Inv \subseteq 0 .. MaxAddress
      BY <1>1, <1>2, <2>2, <2>4, <3>2
    <3> QED
      BY <3>1, <3>2
  <2>9. call.op = "layernorm" => Mean \cap In = {} /\ Mean \cap Out = {} /\ Mean \cap Inv = {} /\ Mean \subseteq 0 .. MaxAddress
    <3>1. ASSUME call.op = "layernorm" PROVE Mean \cap In = {} /\ Mean \cap Out = {}
      BY <1>1, <1>2, <2>1, <2>5, <3>1
    <3>2. ASSUME call.op = "layernorm" PROVE Mean \cap Inv = {}
      BY <1>1, <1>2, <2>1, <2>5, <3>2
    <3>3. ASSUME call.op = "layernorm" PROVE Mean \subseteq 0 .. MaxAddress
      BY <1>1, <1>2, <2>2, <2>5, <3>3
    <3> QED
      BY <3>1, <3>2, <3>3
  <2>10. call.op = "rms" /\ call.weight # 0 => Wt \cap Out = {} /\ Wt \cap Inv = {}
    BY <1>1, <1>2, <2>1, <2>6
  <2> QED
    BY <2>7, <2>8, <2>9, <2>10
<1> HIDE DEF In, Out, Inv, Mean
<1>6. Writes(r) \subseteq 0 .. MaxAddress
    BY <1>4, <1>5 DEF Writes
<1>7. ASSUME NEW s \in 0 .. call.rows - 1, s # r
      PROVE  Writes(r) \cap Reads(s) = {}
  <2>1. RowBytes(call.output, r) \cap RowBytes(call.input, s) = {}
    BY <1>1, <1>4, <1>5, <1>7, RowsDisjoint
  <2>2. call.op # "softmax" => ValueBytes(call.inverse, r) \cap RowBytes(call.input, s) = {}
    BY <1>4, <1>5
  <2>3. call.op = "layernorm" => ValueBytes(call.mean, r) \cap RowBytes(call.input, s) = {}
    BY <1>4, <1>5
  <2>4. call.op = "rms" /\ call.weight # 0 => Wt \cap Writes(r) = {}
    <3>1. /\ RowBytes(call.output, r) \subseteq Out
          /\ ValueBytes(call.inverse, r) \subseteq Inv
      BY <1>4
    <3> QED
      BY <3>1, <1>5 DEF Writes
  <2> HIDE DEF Wt
  <2> QED
    <3>1. Reads(s) = RowBytes(call.input, s) \cup (IF call.op = "rms" /\ call.weight # 0 THEN Wt ELSE {})
      BY DEF Reads, Wt, Buffer
    <3>2. Writes(r) \cap RowBytes(call.input, s) = {}
      BY <2>1, <2>2, <2>3 DEF Writes
    <3> QED
      BY <2>4, <3>1, <3>2
<1>8. ASSUME NEW s \in 0 .. call.rows - 1, s # r
      PROVE  Writes(r) \cap Writes(s) = {}
  <2>1. RowBytes(call.output, r) \cap RowBytes(call.output, s) = {}
    BY <1>1, <1>8, RowsDisjoint
  <2>2. ValueBytes(call.inverse, r) \cap ValueBytes(call.inverse, s) = {}
    BY <1>1, <1>8, RowsDisjoint
  <2>3. ValueBytes(call.mean, r) \cap ValueBytes(call.mean, s) = {}
    BY <1>1, <1>8, RowsDisjoint
  <2>4. ASSUME NEW q \in 0 .. call.rows - 1, NEW u \in 0 .. call.rows - 1
        PROVE  /\ call.op # "softmax" => ValueBytes(call.inverse, q) \cap RowBytes(call.output, u) = {}
               /\ call.op = "layernorm" => ValueBytes(call.mean, q) \cap RowBytes(call.output, u) = {}
               /\ call.op = "layernorm" => ValueBytes(call.mean, q) \cap ValueBytes(call.inverse, u) = {}
    BY <1>4, <1>5
  <2> QED
    BY <2>1, <2>2, <2>3, <2>4 DEF Writes
<1> QED
    BY <1>6, <1>7, <1>8

LEMMA NoRows == rowAt = <<>> => DOMAIN rowAt = {}
    OBVIOUS

\* The first launch of a call.
LEMMA LaunchFacts ==
    ASSUME Untouched, NEW k, NEW s \in LaunchResults, Launch(k, s), call' = call,
           status' = lastError' \/ (call.lifecycle # "ok" /\ status' = call.lifecycle),
           k = "original" => Declined(call)
    PROVE  Answered(k, s)'
<1>1. ran' = <<[kernel |-> k, launch |-> s]>>
    BY DEF Untouched, Launch
<1> QED
    BY <1>1 DEF Untouched, Launch, Answered

LEMMA NoneRan ==
    ASSUME ran = <<>>
    PROVE  Len(ran) = 0 /\ DOMAIN ran = {}
    OBVIOUS

LEMMA OneRan ==
    ASSUME NEW k, ran = <<k>>
    PROVE  Len(ran) = 1 /\ DOMAIN ran = {1} /\ ran[1] = k
    OBVIOUS

LEMMA RouteInvInit == RouteInit => RouteInv
    BY DEF RouteInit, RouteInv, Untouched, DirtyOwned

LEMMA RouteInvNext == RouteInv /\ [RouteNext]_routeVars => RouteInv'
<1> SUFFICES ASSUME RouteInv, [RouteNext]_routeVars PROVE RouteInv'
    OBVIOUS
<1> USE DEF RouteInv
<1>1. CASE Geometry
    BY <1>1 DEF Geometry, Untouched, DirtyOwned
<1>2. CASE Decline
    BY <1>2 DEF Decline, Entered, Untouched, DirtyOwned
<1>3. CASE TryHybrid
  <2>1. PICK s \in LaunchResults :
            /\ Launch(HybridKernel(call), s) /\ status' = lastError' /\ at' = "returned"
            /\ rowAt' = IF s = "ok" THEN [r \in 0 .. call.rows - 1 |-> "new"] ELSE rowAt
    BY <1>3 DEF TryHybrid, TargetStatus, TargetReturns
  <2>2. Untouched /\ Admitted' /\ call' = call /\ dirty' = {}
    BY <1>3 DEF TryHybrid, HybridReady, Entered, Untouched, Admitted
  <2>3. Answered(HybridKernel(call), s)'
    <3>1. HybridKernel(call) # "original"
      BY DEF HybridKernel, SelectRmsNormRoute
    <3> QED
      BY <2>1, <2>2, <3>1, LaunchFacts
  <2>4. CASE s = "ok"
    <3>1. RowsOfCall'
      BY <2>1, <2>2, <2>4 DEF RowsOfCall
    <3> QED
      BY <2>1, <2>2, <2>3, <3>1 DEF DirtyOwned
  <2>5. CASE s # "ok"
    <3>1. rowAt' = <<>>
      BY <2>1, <2>2, <2>5 DEF Untouched
    <3> QED
      BY <2>1, <2>2, <2>3, <3>1 DEF DirtyOwned
  <2> QED
    BY <2>4, <2>5
<1>4. CASE TryNative
  <2>1. PICK s \in LaunchResults :
            Launch("native", s) /\ status' = lastError' /\ at' = "returned"
    BY <1>4 DEF TryNative, TargetStatus, TargetReturns
  <2>2. Untouched /\ rowAt' = <<>> /\ dirty' = {} /\ call' = call
    BY <1>4 DEF TryNative, Entered, Untouched
  <2>3. Answered("native", s)'
    BY <2>1, <2>2, LaunchFacts
  <2> QED
    BY <2>1, <2>2, <2>3 DEF DirtyOwned
<1>5. CASE Original
  <2>1. PICK s \in LaunchResults : Launch("original", s)
    BY <1>5 DEF Original
  <2>2. Untouched /\ rowAt' = <<>> /\ dirty' = {} /\ call' = call /\ at' = "returned"
    BY <1>5 DEF Original, Untouched
  <2>3. Declined(call)
    BY <1>5 DEF Original
  <2>4. Answered("original", s)'
    BY <1>5, <2>1, <2>2, <2>3, LaunchFacts DEF Original
  <2> QED
    BY <2>1, <2>2, <2>4 DEF DirtyOwned
<1>8. CASE QueryFails
    BY <1>8 DEF QueryFails, TargetReturns, HybridReady, Entered, Untouched, DirtyOwned
<1>6. ASSUME NEW r \in DOMAIN rowAt, ReadRow(r) \/ WriteRow(r)
      PROVE  RouteInv'
  <2>1. RowsOfCall
    BY <1>6, NoRows
  <2>2. UNCHANGED <<call, at, ran, lastError, status>>
    BY <1>6 DEF ReadRow, WriteRow
  <2>3. Admitted' /\ RowsOfCall'
    BY <1>6, <2>1, <2>2 DEF ReadRow, WriteRow, RowsOfCall, Admitted
  <2>4. \A q : Writes(q)' = Writes(q)
    BY <2>2 DEF Writes, RowBytes, ValueBytes
  <2>5. DirtyOwned'
    BY <1>6, <2>1, <2>4 DEF ReadRow, WriteRow, RowsOfCall, DirtyOwned
  <2> QED
    BY <2>1, <2>2, <2>3, <2>5 DEF RowsOfCall, Answered
<1>7. CASE UNCHANGED routeVars
  <2>1. RowsOfCall => RowsOfCall'
    BY <1>7 DEF routeVars, RowsOfCall, Admitted
  <2>2. \A q : Writes(q)' = Writes(q)
    BY <1>7 DEF routeVars, Writes, RowBytes, ValueBytes
  <2> QED
    BY <1>7, <2>1, <2>2 DEF routeVars, Untouched, Answered, DirtyOwned
<1> QED
    BY <1>1, <1>2, <1>3, <1>4, <1>5, <1>6, <1>7, <1>8 DEF RouteNext, RouteDone

LEMMA RouteInvariant == RouteSpec => []RouteInv
    BY RouteInvInit, RouteInvNext, PTL DEF RouteSpec

\* Whatever the arguments of a call and the errors its thread carries, the call has
\* one owner: success is one accepted launch, a refused launch or a failed query is
\* returned as an error, and the original kernel runs for declined calls only.
THEOREM CallHasOneOwner == RouteSpec => []OneOwner
<1>1. RouteInv => OneOwner
  <2> SUFFICES ASSUME RouteInv PROVE OneOwner
    OBVIOUS
  <2>1. CASE at # "returned"
    BY <2>1, NoneRan DEF RouteInv, OneOwner, Untouched
  <2>2. CASE at = "returned" /\ ran = <<>> /\ status \in {"geometry_error", "query_error"}
    BY <2>2, NoneRan DEF OneOwner
  <2>3. ASSUME NEW k, NEW s \in LaunchResults, Answered(k, s) PROVE OneOwner
    <3>1. ran # <<>> /\ Len(ran) = 1 /\ DOMAIN ran = {1} /\ ran[1].kernel = k /\ ran[1].launch = s
      BY <2>3, OneRan DEF Answered
    <3>2. s # "ok" => status \in {s, call.lifecycle} \ {"ok"} /\ lastError = s
      BY <2>3 DEF Answered, LaunchResults
    <3>3. call.earlier = "ok" /\ call.lifecycle = "ok" => status = s
      BY <2>3 DEF Answered
    <3>4. k = "original" => Declined(call)
      BY <2>3 DEF Answered
    <3>5. status = "ok" => s = "ok"
      BY <3>2
    <3> HIDE DEF LaunchResults
    <3> QED
      BY <3>1, <3>2, <3>3, <3>4, <3>5 DEF OneOwner
  <2>4. at # "returned" \/ (at = "returned" /\ ran = <<>> /\ status \in {"geometry_error", "query_error"})
        \/ \E k, s : s \in LaunchResults /\ Answered(k, s)
    BY DEF RouteInv
  <2> QED
    BY <2>1, <2>2, <2>3, <2>4
<1> QED
    BY <1>1, RouteInvariant, PTL

\* The rows of a SIMD kernel the selectors admitted may run in any order, for any
\* addresses, extents and limits of the target.
THEOREM AdmittedRowsOrderFree == RouteSpec => []RowsOrderFree
<1>1. RouteInv => RowsOrderFree
  <2> SUFFICES ASSUME RouteInv PROVE RowsOrderFree
    OBVIOUS
  <2>1. CASE rowAt = <<>>
    BY <2>1, NoRows, RouteAssumption DEF RouteInv, RowsOrderFree, DirtyOwned
  <2>2. CASE RowsOfCall
    <3>1. call \in WrapperCalls /\ Admitted /\ DOMAIN rowAt = 0 .. call.rows - 1
      BY <2>2 DEF RouteInv, RowsOfCall
    <3>2. \A x \in dirty : \E r \in 0 .. call.rows - 1 : rowAt[r] = "written" /\ x \in Writes(r)
      BY <3>1 DEF RouteInv, DirtyOwned
    <3>3. \A r, s \in 0 .. call.rows - 1 :
             /\ Writes(r) \subseteq 0 .. MaxAddress
             /\ s # r => Writes(r) \cap (Reads(s) \cup Writes(s)) = {}
      BY <3>1, RowsIndependent
    <3> QED
      BY <3>1, <3>2, <3>3 DEF RowsOrderFree
  <2> QED
    BY <2>1, <2>2 DEF RouteInv
<1> QED
    BY <1>1, RouteInvariant, PTL

-----------------------------------------------------------------------------
(* Definitions by recursion over 0 .. N.                                    *)

\* Induction over the numbers 0 .. N, on the set of those that have a property.
LEMMA Counting ==
  ASSUME NEW N \in Nat, NEW S, 0 \in S,
         \A k \in 1 .. N : k - 1 \in S => k \in S
  PROVE  \A k \in 0 .. N : k \in S
<1> DEFINE R == {ss \in Nat \X Nat : ss[1] < ss[2]}
           T == {k \in 0 .. N : k \notin S}
<1>1. IsWellFoundedOn(R, Nat)
  BY NatLessThanWellFounded DEF OpToRel
<1>2. SUFFICES ASSUME T # {} PROVE FALSE
  OBVIOUS
<1>3. T \subseteq Nat
  OBVIOUS
<1> HIDE DEF R, T
<1>4. PICK m \in T : \A k \in T : ~(<<k, m>> \in R)
  BY <1>1, <1>2, <1>3, WFMin
<1>5. m \in 1 .. N /\ m \notin S
  BY DEF T
<1>6. m - 1 \notin T
  <2>1. <<m - 1, m>> \in R
    BY <1>5 DEF R
  <2> QED
    BY <2>1, <1>4
<1> QED
  BY <1>5, <1>6 DEF T

\* u is a at 0 and at each later number k takes the step of k.
Steps(u, N, K, a, step) ==
  u \in [0 .. N -> K] /\ u[0] = a /\ \A k \in 1 .. N : u[k] = step[k][u[k - 1]]

\* A definition by recursion defines a function into the values of its steps.
LEMMA Recursion ==
  ASSUME NEW N \in Nat, NEW K, NEW a \in K, NEW step \in [1 .. N -> [K -> K]]
  PROVE  \E u : Steps(u, N, K, a, step)
<1> DEFINE Good(u, n) == u[0] = a /\ \A k \in 1 .. n : u[k] = step[k][u[k - 1]]
           S == {n \in 0 .. N : \E u \in [0 .. N -> K] : Good(u, n)}
<1>1. 0 \in S
  <2> DEFINE u == [k \in 0 .. N |-> a]
  <2>1. u \in [0 .. N -> K] /\ Good(u, 0)
    OBVIOUS
  <2> HIDE DEF u, Good
  <2> QED
    BY <2>1
<1>2. ASSUME NEW n \in 1 .. N, n - 1 \in S
      PROVE  n \in S
  <2>1. PICK u \in [0 .. N -> K] : Good(u, n - 1)
    BY <1>2
  <2> DEFINE y == step[n][u[n - 1]]
             g == [k \in 0 .. N |-> IF k = n THEN y ELSE u[k]]
  <2>2. y \in K
    OBVIOUS
  <2> HIDE DEF y
  <2>3. g \in [0 .. N -> K]
    BY <2>2
  <2>4. g[n] = y /\ \A k \in 0 .. n - 1 : g[k] = u[k]
    OBVIOUS
  <2> HIDE DEF g
  <2>5. g[0] = a
    BY <2>1, <2>4
  <2>6. ASSUME NEW k \in 1 .. n
        PROVE  g[k] = step[k][g[k - 1]]
    <3>1. g[k - 1] = u[k - 1]
      BY <2>4
    <3>2. CASE k = n
      BY <2>4, <3>1, <3>2 DEF y
    <3>3. CASE k \in 1 .. n - 1
      BY <2>1, <2>4, <3>1, <3>3
    <3> QED
      BY <3>2, <3>3
  <2>7. Good(g, n)
    BY <2>5, <2>6
  <2> HIDE DEF Good
  <2> QED
    BY <2>3, <2>7
<1>3. N \in S
  <2> HIDE DEF S
  <2>1. \A k \in 1 .. N : k - 1 \in S => k \in S
    BY <1>2
  <2>2. \A k \in 0 .. N : k \in S
    BY <1>1, <2>1, Counting
  <2> QED
    BY <2>2
<1> QED
  BY <1>3 DEF Steps

-----------------------------------------------------------------------------
(* What a set of threads reduces to.                                        *)

Semantics == {"Sum", "Max"}

\* The values a reduction handles: nothing lies below the identity of Max.
Values(f) == {x \in Int : f = "Max" => x >= Identity("Max")}

\* Every thread a block may have, and the operands of the calls.
AllThreads == 0 .. kWarpSize * kWarpSize - 1
CallNumbers == 0 .. Calls - 1

\* The reduction under f of the inputs in call i of the threads in A below n.
Upto(f, i, A) ==
  LET acc[n \in 0 .. kWarpSize * kWarpSize] ==
        IF n = 0 THEN Identity(f)
        ELSE IF n - 1 \in A THEN Apply(f, acc[n - 1], Inputs[n - 1][i]) ELSE acc[n - 1]
  IN  acc

Total(f, i, A) == Upto(f, i, A)[kWarpSize * kWarpSize]

LEMMA ApplyLaws ==
  ASSUME NEW f \in Semantics
  PROVE  /\ Identity(f) \in Values(f)
         /\ \A x, y \in Values(f) : Apply(f, x, y) \in Values(f) /\ Apply(f, x, y) = Apply(f, y, x)
         /\ \A x, y, z \in Values(f) : Apply(f, Apply(f, x, y), z) = Apply(f, x, Apply(f, y, z))
         /\ \A x \in Values(f) : Apply(f, x, Identity(f)) = x /\ Apply(f, Identity(f), x) = x
BY DEF Semantics, Values, Apply, Identity

LEMMA InputsAreValues ==
  ASSUME NEW f \in Semantics, NEW t \in AllThreads, NEW i \in CallNumbers
  PROVE  Inputs[t][i] \in Values(f)
BY CallsAssumption DEF Values, AllThreads, CallNumbers

LEMMA Sizes == kWarpSize \in Nat \ {0} /\ kWarpSize * kWarpSize \in Nat \ {0}
BY AclcubAssumption

LEMMA UptoIs ==
  ASSUME NEW f \in Semantics, NEW i \in CallNumbers, NEW A
  PROVE  /\ Upto(f, i, A)[0] = Identity(f)
         /\ \A n \in AllThreads : Upto(f, i, A)[n + 1] =
               IF n \in A THEN Apply(f, Upto(f, i, A)[n], Inputs[n][i]) ELSE Upto(f, i, A)[n]
         /\ \A n \in 0 .. kWarpSize * kWarpSize : Upto(f, i, A)[n] \in Values(f)
<1> DEFINE N == kWarpSize * kWarpSize
           V == Values(f)
           step == [k \in 1 .. N |-> [x \in V |-> IF k - 1 \in A THEN Apply(f, x, Inputs[k - 1][i]) ELSE x]]
           Made(u) == [n \in 0 .. N |-> IF n = 0 THEN Identity(f)
                         ELSE IF n - 1 \in A THEN Apply(f, u[n - 1], Inputs[n - 1][i]) ELSE u[n - 1]]
<1>1. Upto(f, i, A) = CHOOSE u : u = Made(u)
  BY DEF Upto
<1>2. N \in Nat
  BY Sizes
<1>3. ASSUME NEW k \in 1 .. N
      PROVE  Inputs[k - 1][i] \in V
  <2>1. k - 1 \in AllThreads
    BY <1>2, <1>3 DEF AllThreads
  <2> HIDE DEF N, V
  <2> QED
    BY <2>1, InputsAreValues DEF V
<1> HIDE DEF N, V
<1>4. step \in [1 .. N -> [V -> V]]
  BY <1>3, ApplyLaws DEF V
<1>5. Identity(f) \in V
  BY ApplyLaws DEF V
<1>6. PICK u \in [0 .. N -> V] : u[0] = Identity(f) /\ \A k \in 1 .. N : u[k] = step[k][u[k - 1]]
  <2> HIDE DEF step
  <2>1. \E u : Steps(u, N, V, Identity(f), step)
    BY <1>2, <1>4, <1>5, Recursion
  <2> QED
    BY <2>1 DEF Steps
<1>7. u = Made(u)
  <2>1. ASSUME NEW n \in 0 .. N
        PROVE  u[n] = Made(u)[n]
    <3>1. CASE n = 0
      BY <1>6, <3>1
    <3>2. CASE n \in 1 .. N
      <4>1. u[n] = step[n][u[n - 1]] /\ u[n - 1] \in V
        BY <1>2, <1>6, <3>2
      <4>2. n # 0
        BY <1>2, <3>2
      <4> QED
        BY <4>1, <4>2
    <3> QED
      BY <1>2, <3>1, <3>2
  <2> QED
    BY <2>1
<1> DEFINE w == Upto(f, i, A)
<1>8. w = Made(w)
  BY <1>1, <1>7
<1> HIDE DEF w, step
<1>9. w[0] = Identity(f)
  BY <1>2, <1>8
<1>10. ASSUME NEW k \in 1 .. N
       PROVE  w[k] = IF k - 1 \in A THEN Apply(f, w[k - 1], Inputs[k - 1][i]) ELSE w[k - 1]
  BY <1>2, <1>8
<1> HIDE DEF Made
<1>11. \A n \in 0 .. N : w[n] \in V
  <2> DEFINE S == {n \in 0 .. N : w[n] \in V}
  <2>1. 0 \in S
    BY <1>2, <1>5, <1>9
  <2>2. ASSUME NEW k \in 1 .. N, k - 1 \in S
        PROVE  k \in S
    <3>1. w[k - 1] \in V /\ Inputs[k - 1][i] \in V
      BY <1>3, <2>2
    <3>2. w[k] \in V
      BY <1>10, <3>1, ApplyLaws DEF V
    <3> QED
      BY <1>2, <3>2
  <2> HIDE DEF S
  <2>3. \A n \in 0 .. N : n \in S
    BY <1>2, <2>1, <2>2, Counting
  <2> QED
    BY <2>3 DEF S
<1>12. ASSUME NEW n \in AllThreads
       PROVE  w[n + 1] = IF n \in A THEN Apply(f, w[n], Inputs[n][i]) ELSE w[n]
  <2>1. n + 1 \in 1 .. N /\ (n + 1) - 1 = n
    BY <1>2 DEF AllThreads, N
  <2> QED
    BY <1>10, <2>1
<1> QED
  BY <1>9, <1>11, <1>12 DEF w, N, V

LEMMA TotalValue ==
  ASSUME NEW f \in Semantics, NEW i \in CallNumbers, NEW A
  PROVE  Total(f, i, A) \in Values(f)
<1>1. kWarpSize * kWarpSize \in 0 .. kWarpSize * kWarpSize
  BY Sizes
<1> QED
  BY <1>1, UptoIs DEF Total

\* No thread contributes the identity.
LEMMA TotalNone ==
  ASSUME NEW f \in Semantics, NEW i \in CallNumbers
  PROVE  Total(f, i, {}) = Identity(f)
<1> DEFINE N == kWarpSize * kWarpSize
           u == Upto(f, i, {})
           S == {n \in 0 .. N : u[n] = Identity(f)}
<1>1. N \in Nat
  BY Sizes
<1>2. u[0] = Identity(f) /\ \A n \in 0 .. N - 1 : u[n + 1] = u[n]
  BY UptoIs DEF AllThreads
<1> HIDE DEF N, u
<1>3. 0 \in S
  BY <1>1, <1>2
<1>4. ASSUME NEW k \in 1 .. N, k - 1 \in S
      PROVE  k \in S
  <2>1. k - 1 \in 0 .. N - 1 /\ (k - 1) + 1 = k
    BY <1>1
  <2>2. u[(k - 1) + 1] = u[k - 1]
    BY <1>2, <2>1
  <2> QED
    BY <1>1, <1>4, <2>1, <2>2
<1>5. N \in S
  <2> HIDE DEF S
  <2>1. \A n \in 0 .. N : n \in S
    BY <1>1, <1>3, <1>4, Counting
  <2> QED
    BY <1>1, <2>1
<1> QED
  BY <1>5 DEF Total, u, N

\* One thread contributes its input.
LEMMA TotalOne ==
  ASSUME NEW f \in Semantics, NEW i \in CallNumbers, NEW t \in AllThreads
  PROVE  Total(f, i, {t}) = Inputs[t][i]
<1> DEFINE N == kWarpSize * kWarpSize
           u == Upto(f, i, {t})
           x == Inputs[t][i]
           S == {n \in 0 .. N : u[n] = IF n > t THEN x ELSE Identity(f)}
<1>1. N \in Nat /\ t \in 0 .. N - 1
  BY Sizes DEF AllThreads
<1>2. /\ u[0] = Identity(f)
      /\ \A n \in 0 .. N - 1 : u[n + 1] = IF n \in {t} THEN Apply(f, u[n], Inputs[n][i]) ELSE u[n]
  BY UptoIs DEF AllThreads
<1>3. Apply(f, Identity(f), x) = x
  BY ApplyLaws, InputsAreValues
<1> HIDE DEF N, u
<1>4. 0 \in S
  BY <1>1, <1>2
<1>5. ASSUME NEW k \in 1 .. N, k - 1 \in S
      PROVE  k \in S
  <2>1. k - 1 \in 0 .. N - 1 /\ (k - 1) + 1 = k
    BY <1>1
  <2>2. u[k] = IF k - 1 \in {t} THEN Apply(f, u[k - 1], Inputs[k - 1][i]) ELSE u[k - 1]
    BY <1>2, <2>1
  <2>3. CASE k - 1 = t
    <3>1. u[k - 1] = Identity(f)
      BY <1>1, <1>5, <2>3
    <3>2. u[k] = x
      BY <1>3, <2>2, <2>3, <3>1
    <3> QED
      BY <1>1, <2>3, <3>2
  <2>4. CASE k - 1 # t
    <3>1. u[k] = u[k - 1]
      BY <2>2, <2>4
    <3>2. (k > t) <=> (k - 1 > t)
      BY <1>1, <2>4
    <3> QED
      BY <1>1, <1>5, <3>1, <3>2
  <2> QED
    BY <2>3, <2>4
<1>6. N \in S
  <2> HIDE DEF S
  <2>1. \A n \in 0 .. N : n \in S
    BY <1>1, <1>4, <1>5, Counting
  <2> QED
    BY <1>1, <2>1
<1> QED
  BY <1>1, <1>6 DEF Total, u, N

\* The contributions of disjoint sets of threads combine.
LEMMA TotalJoin ==
  ASSUME NEW f \in Semantics, NEW i \in CallNumbers, NEW A, NEW B, A \cap B = {}
  PROVE  Total(f, i, A \cup B) = Apply(f, Total(f, i, A), Total(f, i, B))
<1> DEFINE N == kWarpSize * kWarpSize
           u == Upto(f, i, A \cup B)
           a == Upto(f, i, A)
           b == Upto(f, i, B)
           S == {n \in 0 .. N : u[n] = Apply(f, a[n], b[n])}
<1>1. N \in Nat
  BY Sizes
<1>2. /\ u[0] = Identity(f)
      /\ \A n \in 0 .. N - 1 : u[n + 1] = IF n \in A \cup B THEN Apply(f, u[n], Inputs[n][i]) ELSE u[n]
  BY UptoIs DEF AllThreads
<1>3. /\ a[0] = Identity(f) /\ \A n \in 0 .. N : a[n] \in Values(f)
      /\ \A n \in 0 .. N - 1 : a[n + 1] = IF n \in A THEN Apply(f, a[n], Inputs[n][i]) ELSE a[n]
  BY UptoIs DEF AllThreads
<1>4. /\ b[0] = Identity(f) /\ \A n \in 0 .. N : b[n] \in Values(f)
      /\ \A n \in 0 .. N - 1 : b[n + 1] = IF n \in B THEN Apply(f, b[n], Inputs[n][i]) ELSE b[n]
  BY UptoIs DEF AllThreads
<1>5. \A n \in 0 .. N - 1 : Inputs[n][i] \in Values(f)
  BY InputsAreValues DEF AllThreads
<1> HIDE DEF N, u, a, b
<1>6. 0 \in S
  BY <1>1, <1>2, <1>3, <1>4, ApplyLaws
<1>7. ASSUME NEW k \in 1 .. N, k - 1 \in S
      PROVE  k \in S
  <2> DEFINE n == k - 1
             x == Inputs[n][i]
  <2>1. n \in 0 .. N - 1 /\ n \in 0 .. N /\ n + 1 = k
    BY <1>1
  <2>2. u[n] = Apply(f, a[n], b[n])
    BY <1>7
  <2>3. a[n] \in Values(f) /\ b[n] \in Values(f) /\ x \in Values(f)
    BY <1>3, <1>4, <1>5, <2>1
  <2>4. u[k] = IF n \in A \cup B THEN Apply(f, u[n], x) ELSE u[n]
    BY <1>2, <2>1
  <2>5. a[k] = IF n \in A THEN Apply(f, a[n], x) ELSE a[n]
    BY <1>3, <2>1
  <2>6. b[k] = IF n \in B THEN Apply(f, b[n], x) ELSE b[n]
    BY <1>4, <2>1
  <2> HIDE DEF n, x
  <2>7. u[k] = Apply(f, a[k], b[k])
    <3>1. CASE n \in A
      <4>1. n \notin B
        BY <3>1
      <4>2. a[k] = Apply(f, a[n], x) /\ b[k] = b[n] /\ u[k] = Apply(f, Apply(f, a[n], b[n]), x)
        BY <2>2, <2>4, <2>5, <2>6, <3>1, <4>1
      <4>3. Apply(f, Apply(f, a[n], b[n]), x) = Apply(f, a[n], Apply(f, b[n], x))
        BY <2>3, ApplyLaws
      <4>4. Apply(f, b[n], x) = Apply(f, x, b[n])
        BY <2>3, ApplyLaws
      <4>5. Apply(f, Apply(f, a[n], x), b[n]) = Apply(f, a[n], Apply(f, x, b[n]))
        BY <2>3, ApplyLaws
      <4> QED
        BY <4>2, <4>3, <4>4, <4>5
    <3>2. CASE n \in B /\ n \notin A
      <4>1. a[k] = a[n] /\ b[k] = Apply(f, b[n], x) /\ u[k] = Apply(f, Apply(f, a[n], b[n]), x)
        BY <2>2, <2>4, <2>5, <2>6, <3>2
      <4>2. Apply(f, Apply(f, a[n], b[n]), x) = Apply(f, a[n], Apply(f, b[n], x))
        BY <2>3, ApplyLaws
      <4> QED
        BY <4>1, <4>2
    <3>3. CASE n \notin A /\ n \notin B
      BY <2>2, <2>4, <2>5, <2>6, <3>3
    <3> QED
      BY <3>1, <3>2, <3>3
  <2> QED
    BY <1>1, <2>7
<1>8. N \in S
  <2> HIDE DEF S
  <2>1. \A n \in 0 .. N : n \in S
    BY <1>1, <1>6, <1>7, Counting
  <2> QED
    BY <1>1, <2>1
<1> QED
  BY <1>8 DEF Total, u, a, b, N

-----------------------------------------------------------------------------
(* The folds of the block reductions.                                       *)

LEMMA SerialIs ==
  ASSUME NEW f \in Semantics, NEW n \in Nat \ {0}, NEW v, \A k \in 0 .. n - 1 : v[k] \in Values(f)
  PROVE  \E acc : /\ acc[0] = v[0] /\ acc[n - 1] = Serial(f, v, n)
                  /\ \A k \in 1 .. n - 1 : acc[k] = Apply(f, acc[k - 1], v[k])
<1> DEFINE V == Values(f)
           Made(u) == [k \in 0 .. n - 1 |-> IF k = 0 THEN v[0] ELSE Apply(f, u[k - 1], v[k])]
           step == [k \in 1 .. n - 1 |-> [x \in V |-> Apply(f, x, v[k])]]
           w == CHOOSE u : u = Made(u)
<1>1. Serial(f, v, n) = w[n - 1]
  BY DEF Serial
<1>2. n - 1 \in Nat /\ v[0] \in V /\ \A k \in 1 .. n - 1 : v[k] \in V
  OBVIOUS
<1> HIDE DEF V
<1>3. step \in [1 .. n - 1 -> [V -> V]]
  BY <1>2, ApplyLaws DEF V
<1> HIDE DEF w
<1>4. PICK u \in [0 .. n - 1 -> V] : u[0] = v[0] /\ \A k \in 1 .. n - 1 : u[k] = step[k][u[k - 1]]
  <2> DEFINE m == n - 1
             a == v[0]
  <2>1. m \in Nat /\ a \in V /\ step \in [1 .. m -> [V -> V]]
    BY <1>2, <1>3
  <2> HIDE DEF step, m, a, Made
  <2>2. \E u : Steps(u, m, V, a, step)
    BY <2>1, Recursion
  <2> QED
    BY <2>2 DEF Steps, m, a
<1>5. u = Made(u)
  <2>1. ASSUME NEW k \in 0 .. n - 1
        PROVE  u[k] = Made(u)[k]
    <3>1. CASE k = 0
      BY <1>4, <3>1
    <3>2. CASE k \in 1 .. n - 1
      <4>1. u[k] = step[k][u[k - 1]] /\ u[k - 1] \in V /\ k # 0
        BY <1>4, <3>2
      <4> QED
        BY <3>2, <4>1
    <3> QED
      BY <3>1, <3>2
  <2> QED
    BY <2>1
<1>6. w = Made(w)
  BY <1>5 DEF w
<1> HIDE DEF step
<1>7. w[0] = v[0] /\ \A k \in 1 .. n - 1 : w[k] = Apply(f, w[k - 1], v[k])
  BY <1>6
<1> QED
  BY <1>1, <1>7

\* A serial fold of the totals of disjoint sets of threads is the total of them all.
LEMMA SerialTotal ==
  ASSUME NEW f \in Semantics, NEW i \in CallNumbers, NEW n \in Nat \ {0}, NEW v, NEW C,
         \A k \in 0 .. n - 1 : v[k] = Total(f, i, C[k]),
         \A j, k \in 0 .. n - 1 : j # k => C[j] \cap C[k] = {}
  PROVE  Serial(f, v, n) = Total(f, i, UNION {C[k] : k \in 0 .. n - 1})
<1> DEFINE D(m) == UNION {C[k] : k \in 0 .. m}
           M == n - 1
<1>1. \A k \in 0 .. n - 1 : v[k] \in Values(f)
  BY TotalValue
<1>2. PICK acc : /\ acc[0] = v[0] /\ acc[n - 1] = Serial(f, v, n)
                 /\ \A k \in 1 .. n - 1 : acc[k] = Apply(f, acc[k - 1], v[k])
  BY <1>1, SerialIs
<1> DEFINE S == {m \in 0 .. M : acc[m] = Total(f, i, D(m))}
<1>3. 0 \in S
  <2>1. D(0) = C[0]
    OBVIOUS
  <2> HIDE DEF D
  <2> QED
    BY <1>2, <2>1
<1>4. ASSUME NEW k \in 1 .. M, k - 1 \in S
      PROVE  k \in S
  <2>1. D(k) = D(k - 1) \cup C[k]
    OBVIOUS
  <2>2. D(k - 1) \cap C[k] = {}
    OBVIOUS
  <2>3. acc[k - 1] = Total(f, i, D(k - 1)) /\ v[k] = Total(f, i, C[k])
    BY <1>4
  <2> HIDE DEF D
  <2>4. acc[k] = Total(f, i, D(k))
    BY <1>2, <2>1, <2>2, <2>3, TotalJoin
  <2> QED
    BY <2>4
<1>5. M \in Nat
  OBVIOUS
<1>6. M \in S
  <2> HIDE DEF S, M
  <2>1. \A m \in 0 .. M : m \in S
    BY <1>3, <1>4, <1>5, Counting
  <2> QED
    BY <1>5, <2>1
<1> QED
  BY <1>2, <1>6

LEMMA Division ==
  ASSUME NEW a \in Nat, NEW k \in Nat \ {0}
  PROVE  /\ a \div k \in Nat /\ a % k \in 0 .. k - 1
         /\ a = k * (a \div k) + (a % k)
OBVIOUS

\* A quotient is determined by the interval its number lies in.
LEMMA Quotient ==
  ASSUME NEW q \in Int, NEW p \in Int, NEW k \in Nat \ {0}, NEW r \in 0 .. k - 1, NEW s \in 0 .. k - 1,
         k * q + r = k * p + s
  PROVE  q = p
<1>1. k * (q - p) = s - r
  OBVIOUS
<1>2. CASE q - p >= 1
  <2>1. k * (q - p) >= k
    BY <1>2
  <2> QED
    BY <1>1, <2>1
<1>3. CASE q - p <= -1
  <2>1. k * (q - p) <= -k
    BY <1>3
  <2> QED
    BY <1>1, <2>1
<1> QED
  BY <1>2, <1>3

LEMMA QuotientIs ==
  ASSUME NEW q \in Nat, NEW k \in Nat \ {0}, NEW r \in 0 .. k - 1, NEW a \in Nat, a = k * q + r
  PROVE  a \div k = q /\ a % k = r
<1> DEFINE p == a \div k
           s == a % k
<1>1. p \in Nat /\ s \in 0 .. k - 1 /\ a = k * p + s
  BY Division
<1> HIDE DEF p, s
<1>2. p = q
  BY <1>1, Quotient
<1>3. k * p = k * q
  BY <1>2
<1>4. k * p \in Nat
  BY <1>1
<1>5. s = r
  BY <1>1, <1>3, <1>4
<1> QED
  BY <1>2, <1>5 DEF p, s

-----------------------------------------------------------------------------
(* The threads of the warps.                                                *)

LEMMA ThreadsLie ==
  ASSUME NEW n \in 1 .. kWarpSize, NEW w \in 0 .. n - 1
  PROVE  /\ w \in Nat /\ w \in Lanes /\ w * kWarpSize \in Nat
         /\ n * kWarpSize \in Nat \ {0} /\ n * kWarpSize <= kWarpSize * kWarpSize
         /\ (w + 1) * kWarpSize = w * kWarpSize + kWarpSize
         /\ w * kWarpSize + kWarpSize <= n * kWarpSize
         /\ ThreadsOf(w) = w * kWarpSize .. w * kWarpSize + (kWarpSize - 1)
         /\ ThreadsOf(w) \subseteq 0 .. n * kWarpSize - 1 /\ 0 .. n * kWarpSize - 1 \subseteq AllThreads
<1> DEFINE W == kWarpSize
           a == w * W
           b == n * W
           c == W * W
<1>1. W \in Nat \ {0} /\ n \in Nat \ {0} /\ w \in Nat /\ w \in Lanes
  BY Sizes DEF Lanes
<1>2. a \in Nat /\ b \in Nat \ {0} /\ c \in Nat
  BY <1>1
<1>3. b <= c
  BY <1>1
<1>4. (w + 1) * W = a + W
  BY <1>1
<1>5. (w + 1) * W <= b
  <2>1. w + 1 <= n /\ w + 1 \in Nat
    BY <1>1
  <2> HIDE DEF W
  <2> QED
    BY <1>1, <2>1
<1>6. ThreadsOf(w) = a .. a + (W - 1)
  <2> DEFINE b1 == (w + 1) * W
  <2>1. ThreadsOf(w) = a .. b1 - 1
    BY DEF ThreadsOf
  <2>2. b1 = a + W
    BY <1>4
  <2> HIDE DEF W, a, b1
  <2>3. b1 - 1 = a + (W - 1)
    BY <1>1, <1>2, <2>2
  <2> QED
    BY <2>1, <2>3
<1> HIDE DEF W, a, b, c
<1>7. ThreadsOf(w) \subseteq 0 .. b - 1
  BY <1>1, <1>2, <1>4, <1>5, <1>6
<1>8. 0 .. b - 1 \subseteq 0 .. c - 1
  BY <1>2, <1>3
<1> QED
  BY <1>1, <1>2, <1>3, <1>4, <1>5, <1>6, <1>7, <1>8 DEF W, a, b, c, AllThreads

\* Thread t of warp w has the lane t - w * kWarpSize.
LEMMA LaneOf ==
  ASSUME NEW w \in Lanes
  PROVE  /\ \A l \in Lanes : w * kWarpSize + l \in ThreadsOf(w) /\ w * kWarpSize + l \in AllThreads
         /\ \A t \in ThreadsOf(w) : /\ t \in AllThreads /\ t \in Nat /\ t % kWarpSize \in Lanes
                                    /\ w * kWarpSize + (t % kWarpSize) = t
<1> DEFINE W == kWarpSize
           a == w * W
<1>1. W \in Nat \ {0} /\ w \in Nat /\ W \in 1 .. W /\ w \in 0 .. W - 1
  BY Sizes DEF Lanes
<1>2. /\ a \in Nat /\ ThreadsOf(w) = a .. a + (W - 1)
      /\ ThreadsOf(w) \subseteq AllThreads
  BY <1>1, ThreadsLie
<1>3. \A t \in AllThreads : t \in Nat
  BY DEF AllThreads
<1>4. \A l \in Lanes : a + l \in ThreadsOf(w)
  <2> HIDE DEF a, W
  <2> QED
    BY <1>1, <1>2 DEF Lanes, W
<1>5. ASSUME NEW t \in ThreadsOf(w)
      PROVE  t % W \in Lanes /\ a + (t % W) = t
  <2> DEFINE r == t - a
  <2>1. t \in Nat /\ r \in 0 .. W - 1 /\ t = a + r
    <3> HIDE DEF a, W
    <3> QED
      BY <1>1, <1>2, <1>3
  <2>2. a = W * w
    BY <1>1
  <2> HIDE DEF r, a
  <2>3. t = W * w + r
    BY <2>1, <2>2
  <2>4. t % W = r
    BY <1>1, <2>1, <2>3, QuotientIs
  <2> QED
    BY <2>1, <2>4 DEF Lanes
<1> QED
  BY <1>2, <1>3, <1>4, <1>5

LEMMA ThreadsApart ==
  ASSUME NEW v \in Lanes, NEW w \in Lanes, v # w
  PROVE  ThreadsOf(v) \cap ThreadsOf(w) = {}
<1> DEFINE W == kWarpSize
<1>1. SUFFICES ASSUME NEW t, t \in ThreadsOf(v), t \in ThreadsOf(w) PROVE FALSE
  OBVIOUS
<1>2. t % W \in 0 .. W - 1 /\ v * W + (t % W) = w * W + (t % W)
  BY <1>1, LaneOf DEF Lanes
<1>3. W \in Nat \ {0} /\ v \in Int /\ w \in Int
  BY Sizes DEF Lanes
<1> DEFINE r == t % W
<1> HIDE DEF r, W
<1>4. W * v + r = W * w + r
  BY <1>2, <1>3 DEF r
<1>5. v = w
  BY <1>2, <1>3, <1>4, Quotient DEF r
<1> QED
  BY <1>5

LEMMA ThreadsCover ==
  ASSUME NEW n \in 1 .. kWarpSize
  PROVE  0 .. n * kWarpSize - 1 = UNION {ThreadsOf(k) : k \in 0 .. n - 1}
<1> DEFINE W == kWarpSize
<1>1. W \in Nat \ {0} /\ n \in Nat \ {0} /\ n * W \in Nat
  BY Sizes
<1>2. ASSUME NEW t \in 0 .. n * W - 1
      PROVE  \E k \in 0 .. n - 1 : t \in ThreadsOf(k)
  <2> DEFINE q == t \div W
             r == t % W
  <2>1. t \in Nat /\ t < n * W
    BY <1>1, <1>2
  <2>2. q \in Nat /\ r \in 0 .. W - 1 /\ t = W * q + r
    BY <1>1, <2>1, Division
  <2> HIDE DEF q, r, W
  <2>3. q < n
    <3>1. SUFFICES ASSUME q >= n PROVE FALSE
      BY <1>1, <2>2
    <3>2. q * W >= n * W /\ q * W = W * q /\ q * W \in Nat
      BY <1>1, <2>2, <3>1
    <3> QED
      BY <1>1, <2>1, <2>2, <3>2
  <2>4. q \in 0 .. n - 1
    BY <1>1, <2>2, <2>3
  <2>5. ThreadsOf(q) = q * W .. q * W + (W - 1)
    BY <2>4, ThreadsLie DEF W
  <2>6. q * W = W * q /\ q * W \in Nat
    BY <1>1, <2>2
  <2>7. t \in ThreadsOf(q)
    BY <1>1, <2>1, <2>2, <2>5, <2>6
  <2> QED
    BY <2>4, <2>7
<1>3. \A k \in 0 .. n - 1 : ThreadsOf(k) \subseteq 0 .. n * W - 1
  BY ThreadsLie
<1> QED
  BY <1>2, <1>3

-----------------------------------------------------------------------------
(* The warp reduction and the folds of the published aggregates.            *)

\* The inputs of the lanes of warp w in call i.
Operands(w, i) == [l \in Lanes |-> Input(w * kWarpSize + l, i)]

LEMMA WarpTotal ==
  ASSUME NEW f \in Semantics, NEW i \in CallNumbers, NEW w \in Lanes
  PROVE  WarpReduce(f, Operands(w, i)) = Total(f, i, ThreadsOf(w))
<1> DEFINE v == Operands(w, i)
           C == [l \in Lanes |-> {w * kWarpSize + l}]
<1>1. kWarpSize \in Nat \ {0} /\ Lanes = 0 .. kWarpSize - 1 /\ w * kWarpSize \in Nat
  BY Sizes DEF Lanes
<1>2. ASSUME NEW l \in 0 .. kWarpSize - 1
      PROVE  v[l] = Total(f, i, C[l])
  <2>1. w * kWarpSize + l \in AllThreads
    BY <1>1, LaneOf
  <2>2. Total(f, i, {w * kWarpSize + l}) = Inputs[w * kWarpSize + l][i]
    BY <2>1, TotalOne
  <2> QED
    BY <1>1, <2>2 DEF Operands, Input
<1>3. \A j, k \in 0 .. kWarpSize - 1 : j # k => C[j] \cap C[k] = {}
  BY <1>1
<1>4. UNION {C[l] : l \in 0 .. kWarpSize - 1} = ThreadsOf(w)
  <2>1. \A l \in Lanes : C[l] \subseteq ThreadsOf(w)
    BY LaneOf
  <2>2. ASSUME NEW t \in ThreadsOf(w)
        PROVE  \E l \in Lanes : t \in C[l]
    <3>1. t % kWarpSize \in Lanes /\ w * kWarpSize + (t % kWarpSize) = t
      BY LaneOf
    <3> QED
      BY <3>1
  <2> HIDE DEF C
  <2> QED
    BY <1>1, <2>1, <2>2
<1> HIDE DEF v, C
<1>5. Serial(f, v, kWarpSize) = Total(f, i, UNION {C[l] : l \in 0 .. kWarpSize - 1})
  BY <1>1, <1>2, <1>3, SerialTotal
<1> QED
  BY <1>4, <1>5 DEF WarpReduce, v

\* agg holds, of each of the first n warps, the total of its threads.
Aggregated(f, i, agg, n) == \A k \in 0 .. n - 1 : agg[k] = Total(f, i, ThreadsOf(k))

\* The total of a block of n warps.
BlockTotal(f, i, n) == Total(f, i, 0 .. n * kWarpSize - 1)

LEMMA FoldSerialTotal ==
  ASSUME NEW f \in Semantics, NEW i \in CallNumbers, NEW n \in 1 .. kWarpSize, NEW agg,
         Aggregated(f, i, agg, n)
  PROVE  FoldSerial(f, agg, n) = BlockTotal(f, i, n)
<1> DEFINE C == [k \in 0 .. n - 1 |-> ThreadsOf(k)]
<1>1. n \in Nat \ {0} /\ \A k \in 0 .. n - 1 : k \in Lanes
  BY Sizes DEF Lanes
<1>2. \A k \in 0 .. n - 1 : agg[k] = Total(f, i, C[k])
  BY DEF Aggregated
<1>3. \A j, k \in 0 .. n - 1 : j # k => C[j] \cap C[k] = {}
  BY <1>1, ThreadsApart
<1>4. UNION {C[k] : k \in 0 .. n - 1} = 0 .. n * kWarpSize - 1
  BY ThreadsCover
<1> HIDE DEF C
<1>5. Serial(f, agg, n) = Total(f, i, UNION {C[k] : k \in 0 .. n - 1})
  BY <1>1, <1>2, <1>3, SerialTotal
<1> QED
  BY <1>4, <1>5 DEF FoldSerial, BlockTotal

LEMMA FoldWarpTotal ==
  ASSUME NEW f \in Semantics, NEW i \in CallNumbers, NEW n \in 1 .. kWarpSize, NEW agg,
         Aggregated(f, i, agg, n)
  PROVE  FoldWarp(f, agg, n) = BlockTotal(f, i, n)
<1> DEFINE v == [l \in Lanes |-> IF l < n THEN agg[l] ELSE Identity(f)]
           C == [l \in Lanes |-> IF l < n THEN ThreadsOf(l) ELSE {}]
<1>1. kWarpSize \in Nat \ {0} /\ Lanes = 0 .. kWarpSize - 1
  BY Sizes DEF Lanes
<1>2. ASSUME NEW k \in 0 .. kWarpSize - 1
      PROVE  v[k] = Total(f, i, C[k])
  <2>1. CASE k < n
    <3>1. k \in 0 .. n - 1
      BY <1>1, <2>1
    <3> QED
      BY <1>1, <2>1, <3>1 DEF Aggregated
  <2>2. CASE ~(k < n)
    BY <1>1, <2>2, TotalNone
  <2> QED
    BY <2>1, <2>2
<1>3. \A j, k \in 0 .. kWarpSize - 1 : j # k => C[j] \cap C[k] = {}
  BY <1>1, ThreadsApart
<1>4. UNION {C[k] : k \in 0 .. kWarpSize - 1} = UNION {ThreadsOf(k) : k \in 0 .. n - 1}
  <2>1. \A k \in 0 .. n - 1 : k \in Lanes /\ k < n
    BY <1>1
  <2>2. \A k \in Lanes : k < n => k \in 0 .. n - 1
    BY <1>1
  <2> QED
    BY <1>1, <2>1, <2>2
<1>5. UNION {C[k] : k \in 0 .. kWarpSize - 1} = 0 .. n * kWarpSize - 1
  BY <1>4, ThreadsCover
<1> HIDE DEF C, v
<1>6. Serial(f, v, kWarpSize) = Total(f, i, UNION {C[k] : k \in 0 .. kWarpSize - 1})
  BY <1>1, <1>2, <1>3, SerialTotal
<1> QED
  BY <1>5, <1>6 DEF FoldWarp, WarpReduce, BlockTotal, v

LEMMA FoldAutoTotal ==
  ASSUME NEW f \in Semantics, NEW i \in CallNumbers, NEW n \in 1 .. kWarpSize, NEW agg,
         Aggregated(f, i, agg, n)
  PROVE  FoldAuto(f, agg, n) = BlockTotal(f, i, n)
BY FoldSerialTotal, FoldWarpTotal DEF FoldAuto

LEMMA ReferenceTotal ==
  ASSUME NEW i \in CallNumbers, use.op.sem \in Semantics, use.warps \in 1 .. kWarpSize
  PROVE  Reference(i) = BlockTotal(use.op.sem, i, use.warps)
<1> DEFINE f == use.op.sem
           n == use.warps * kWarpSize
           v == [t \in 0 .. n - 1 |-> Input(t, i)]
           C == [t \in 0 .. n - 1 |-> {t}]
<1>1. n \in Nat \ {0} /\ 0 .. n - 1 \subseteq AllThreads
  <2>1. 0 \in 0 .. use.warps - 1
    BY Sizes
  <2> QED
    BY <2>1, ThreadsLie
<1>2. f \in Semantics /\ Reference(i) = Serial(f, v, n)
  BY DEF Reference
<1>3. BlockTotal(f, i, use.warps) = Total(f, i, 0 .. n - 1)
  BY DEF BlockTotal
<1> HIDE DEF f, n
<1>4. \A k \in 0 .. n - 1 : v[k] = Total(f, i, C[k])
  BY <1>1, <1>2, TotalOne DEF Input
<1>5. \A j, k \in 0 .. n - 1 : j # k => C[j] \cap C[k] = {}
  OBVIOUS
<1>6. UNION {C[k] : k \in 0 .. n - 1} = 0 .. n - 1
  OBVIOUS
<1> HIDE DEF C, v
<1>7. Serial(f, v, n) = Total(f, i, UNION {C[k] : k \in 0 .. n - 1})
  BY <1>1, <1>2, <1>4, <1>5, SerialTotal
<1> QED
  BY <1>2, <1>3, <1>6, <1>7 DEF f

-----------------------------------------------------------------------------
(* Strides and masks.                                                       *)

LEMMA HalvesOnce ==
  ASSUME NEW m \in Nat \ {0}, Halves(m), m # 1
  PROVE  /\ m \div 2 \in Nat \ {0} /\ m = 2 * (m \div 2) /\ m \div 2 < m
         /\ Halves(m \div 2)
<1>1. PICK Q \in SUBSET (1 .. m) : PowersOfTwo(Q) /\ m \in Q
  BY DEF Halves
<1>2. m % 2 = 0 /\ m \div 2 \in Q
  BY <1>1 DEF PowersOfTwo
<1>3. m \div 2 \in Nat \ {0} /\ m = 2 * (m \div 2) /\ m \div 2 < m
  BY <1>2
<1> DEFINE h == m \div 2
           P == Q \cap (1 .. h)
<1>4. h \in P /\ P \in SUBSET (1 .. h)
  BY <1>2, <1>3
<1>5. ASSUME NEW n \in P, n # 1
      PROVE  n % 2 = 0 /\ n \div 2 \in P
  <2>1. n \in 1 .. h /\ n % 2 = 0 /\ n \div 2 \in Q
    BY <1>1, <1>5 DEF PowersOfTwo
  <2>2. n \div 2 \in 1 .. h
    BY <1>3, <1>5, <2>1
  <2> QED
    BY <2>1, <2>2
<1>6. Halves(h)
  <2>1. PowersOfTwo(P)
    BY <1>5 DEF PowersOfTwo
  <2> HIDE DEF P, h
  <2> QED
    BY <1>4, <2>1 DEF Halves
<1> QED
  BY <1>3, <1>6

\* The numbers of b .. b + M - 1 that lie a multiple of m from b + t.
Class(b, M, m, t) == {x \in b .. b + (M - 1) : \E j \in Int : x = (b + t) + m * j}

LEMMA ClassTop ==
  ASSUME NEW b \in Nat, NEW M \in Nat \ {0}, NEW t \in 0 .. M - 1
  PROVE  Class(b, M, M, t) = {b + t}
<1>1. ASSUME NEW x \in b .. b + (M - 1), NEW j \in Int, x = (b + t) + M * j
      PROVE  x = b + t
  <2> DEFINE s == x - b
  <2>1. s \in 0 .. M - 1 /\ M * 0 + s = M * j + t
    BY <1>1
  <2> HIDE DEF s
  <2>2. j = 0
    BY <2>1, Quotient
  <2> QED
    BY <1>1, <2>2
<1>2. b + t \in Class(b, M, M, t)
  <2>1. b + t \in b .. b + (M - 1) /\ b + t = (b + t) + M * 0 /\ 0 \in Int
    OBVIOUS
  <2> QED
    BY <2>1 DEF Class
<1>3. Class(b, M, M, t) \subseteq {b + t}
  BY <1>1 DEF Class
<1> QED
  BY <1>2, <1>3

LEMMA ClassOne ==
  ASSUME NEW b \in Nat, NEW M \in Nat \ {0}, NEW t \in Int
  PROVE  Class(b, M, 1, t) = b .. b + (M - 1)
<1>1. ASSUME NEW x \in b .. b + (M - 1)
      PROVE  \E j \in Int : x = (b + t) + 1 * j
  <2>1. x - (b + t) \in Int /\ x = (b + t) + 1 * (x - (b + t))
    OBVIOUS
  <2> QED
    BY <2>1
<1> QED
  BY <1>1 DEF Class

LEMMA ClassShift ==
  ASSUME NEW b \in Nat, NEW M \in Nat \ {0}, NEW m \in Nat \ {0}, NEW t \in Int, NEW s \in Int, s = t + m
  PROVE  Class(b, M, m, s) = Class(b, M, m, t)
<1>1. ASSUME NEW j \in Int
      PROVE  (b + s) + m * j = (b + t) + m * (j + 1)
  OBVIOUS
<1>2. ASSUME NEW j \in Int
      PROVE  (b + t) + m * j = (b + s) + m * (j - 1)
  OBVIOUS
<1>3. \A j \in Int : j + 1 \in Int /\ j - 1 \in Int
  OBVIOUS
<1>4. ASSUME NEW x \in Class(b, M, m, s)
      PROVE  x \in Class(b, M, m, t)
  <2>1. PICK j \in Int : x = (b + s) + m * j
    BY DEF Class
  <2>2. x = (b + t) + m * (j + 1) /\ j + 1 \in Int
    BY <1>1, <1>3, <2>1
  <2> QED
    BY <2>2 DEF Class
<1>5. ASSUME NEW x \in Class(b, M, m, t)
      PROVE  x \in Class(b, M, m, s)
  <2>1. PICK j \in Int : x = (b + t) + m * j
    BY DEF Class
  <2>2. x = (b + s) + m * (j - 1) /\ j - 1 \in Int
    BY <1>2, <1>3, <2>1
  <2> QED
    BY <2>2 DEF Class
<1> QED
  BY <1>4, <1>5

\* A class of 2 h and the next one, h further, make up the class of h.
LEMMA ClassSplit ==
  ASSUME NEW b \in Nat, NEW M \in Nat \ {0}, NEW h \in Nat \ {0}, NEW t \in Int
  PROVE  /\ Class(b, M, 2 * h, t) \cup Class(b, M, 2 * h, t + h) = Class(b, M, h, t)
         /\ Class(b, M, 2 * h, t) \cap Class(b, M, 2 * h, t + h) = {}
<1>1. ASSUME NEW j \in Int
      PROVE  /\ (b + t) + (2 * h) * j = (b + t) + h * (2 * j)
             /\ (b + (t + h)) + (2 * h) * j = (b + t) + h * (2 * j + 1)
             /\ 2 * j \in Int /\ 2 * j + 1 \in Int
  OBVIOUS
<1>2. ASSUME NEW j \in Int
      PROVE  \/ \E k \in Int : j = 2 * k
             \/ \E k \in Int : j = 2 * k + 1
  <2>1. j \div 2 \in Int /\ (j = 2 * (j \div 2) \/ j = 2 * (j \div 2) + 1)
    OBVIOUS
  <2> QED
    BY <2>1
<1>3. ASSUME NEW x \in b .. b + (M - 1), NEW j \in Int, x = (b + t) + h * j
      PROVE  x \in Class(b, M, 2 * h, t) \cup Class(b, M, 2 * h, t + h)
  <2>1. CASE \E k \in Int : j = 2 * k
    <3>1. PICK k \in Int : j = 2 * k
      BY <2>1
    <3>2. x = (b + t) + (2 * h) * k
      BY <1>1, <1>3, <3>1
    <3> QED
      BY <1>3, <3>2 DEF Class
  <2>2. CASE \E k \in Int : j = 2 * k + 1
    <3>1. PICK k \in Int : j = 2 * k + 1
      BY <2>2
    <3>2. x = (b + (t + h)) + (2 * h) * k
      BY <1>1, <1>3, <3>1
    <3> QED
      BY <1>3, <3>2 DEF Class
  <2> QED
    BY <1>2, <2>1, <2>2
<1>4. Class(b, M, 2 * h, t) \subseteq Class(b, M, h, t)
  BY <1>1 DEF Class
<1>5. Class(b, M, 2 * h, t + h) \subseteq Class(b, M, h, t)
  BY <1>1 DEF Class
<1>6. ASSUME NEW x \in Class(b, M, 2 * h, t), x \in Class(b, M, 2 * h, t + h)
      PROVE  FALSE
  <2>1. PICK j \in Int : x = (b + t) + h * (2 * j)
    BY <1>1 DEF Class
  <2>2. PICK k \in Int : x = (b + t) + h * (2 * k + 1)
    BY <1>1, <1>6 DEF Class
  <2> DEFINE p == 2 * j
             q == 2 * k + 1
  <2>3. p \in Int /\ q \in Int /\ p # q
    OBVIOUS
  <2>4. x = (b + t) + h * p /\ x = (b + t) + h * q
    BY <2>1, <2>2
  <2> HIDE DEF p, q
  <2>5. h * p + 0 = h * q + 0
    BY <2>3, <2>4
  <2>6. p = q
    BY <2>3, <2>5, Quotient
  <2> QED
    BY <2>3, <2>6
<1>7. Class(b, M, h, t) \subseteq Class(b, M, 2 * h, t) \cup Class(b, M, 2 * h, t + h)
  BY <1>3 DEF Class
<1> QED
  BY <1>4, <1>5, <1>6, <1>7

\* The totals of the two classes combine into that of the class half as wide.
LEMMA ClassTotal ==
  ASSUME NEW f \in Semantics, NEW i \in CallNumbers,
         NEW b \in Nat, NEW M \in Nat \ {0}, NEW h \in Nat \ {0}, NEW t \in Int
  PROVE  Apply(f, Total(f, i, Class(b, M, 2 * h, t)), Total(f, i, Class(b, M, 2 * h, t + h)))
           = Total(f, i, Class(b, M, h, t))
BY ClassSplit, TotalJoin

-----------------------------------------------------------------------------
(* The butterfly.                                                           *)

LEMMA MaskIs ==
  /\ Mask[0] = kWarpSize \div 2
  /\ \A k \in 1 .. kWarpSize : Mask[k] = Mask[k - 1] \div 2
<1> DEFINE N == kWarpSize
           a == N \div 2
           Made(u) == [k \in 0 .. N |-> IF k = 0 THEN a ELSE u[k - 1] \div 2]
           step == [k \in 1 .. N |-> [x \in Nat |-> x \div 2]]
           w == CHOOSE u : u = Made(u)
<1>1. Mask = w
  BY DEF Mask
<1>2. N \in Nat /\ a \in Nat
  BY Sizes
<1> HIDE DEF N, a, w
<1>3. step \in [1 .. N -> [Nat -> Nat]]
  OBVIOUS
<1>4. PICK u : Steps(u, N, Nat, a, step)
  <2> HIDE DEF step
  <2> QED
    BY <1>2, <1>3, Recursion
<1>5. u = Made(u)
  <2>1. u \in [0 .. N -> Nat] /\ u[0] = a /\ \A k \in 1 .. N : u[k] = step[k][u[k - 1]]
    BY <1>4 DEF Steps
  <2>2. ASSUME NEW k \in 0 .. N
        PROVE  u[k] = Made(u)[k]
    <3>1. CASE k = 0
      BY <2>1, <3>1
    <3>2. CASE k \in 1 .. N
      <4>1. u[k] = step[k][u[k - 1]] /\ u[k - 1] \in Nat /\ k # 0
        BY <1>2, <2>1, <3>2
      <4> QED
        BY <3>2, <4>1
    <3> QED
      BY <1>2, <3>1, <3>2
  <2> QED
    BY <2>1, <2>2
<1>6. w = Made(w)
  BY <1>5 DEF w
<1>7. w[0] = a /\ \A k \in 1 .. N : w[k] = w[k - 1] \div 2
  BY <1>2, <1>6
<1> QED
  BY <1>1, <1>7 DEF N, a

\* Before round k the lanes m apart have been combined.
Halved(m, k) ==
  /\ m \in Nat \ {0} /\ Halves(m) /\ \E q \in Nat : kWarpSize = m * q
  /\ Mask[k] = m \div 2 /\ (m = 1 \/ m + k <= kWarpSize)

LEMMA HalvedFirst == Halved(kWarpSize, 0)
<1>1. kWarpSize \in Nat \ {0} /\ Halves(kWarpSize) /\ kWarpSize = kWarpSize * 1
  BY AclcubAssumption
<1>2. kWarpSize + 0 <= kWarpSize
  BY <1>1
<1> QED
  BY <1>1, <1>2, MaskIs DEF Halved

LEMMA HalvedNext ==
  ASSUME NEW k \in 1 .. kWarpSize, NEW m, Halved(m, k - 1)
  PROVE  /\ m = 1 => Mask[k - 1] = 0 /\ Halved(1, k)
         /\ m # 1 => /\ Mask[k - 1] # 0 /\ m = 2 * Mask[k - 1] /\ Mask[k - 1] \in Nat \ {0}
                     /\ Halved(Mask[k - 1], k)
<1>1. /\ m \in Nat \ {0} /\ Halves(m) /\ \E q \in Nat : kWarpSize = m * q
      /\ Mask[k - 1] = m \div 2 /\ (m = 1 \/ m + (k - 1) <= kWarpSize)
  BY DEF Halved
<1>2. Mask[k] = Mask[k - 1] \div 2
  BY MaskIs
<1>3. CASE m = 1
  <2>1. Mask[k - 1] = 0
    BY <1>1, <1>3
  <2>2. Mask[k] = 0 /\ 1 \div 2 = 0
    BY <1>2, <2>1
  <2> QED
    BY <1>1, <1>3, <2>1, <2>2 DEF Halved
<1>4. CASE m # 1
  <2> DEFINE h == m \div 2
  <2>1. h \in Nat \ {0} /\ m = 2 * h /\ h < m /\ Halves(h)
    BY <1>1, <1>4, HalvesOnce
  <2>2. Mask[k - 1] = h /\ Mask[k] = h \div 2
    BY <1>1, <1>2
  <2> HIDE DEF h
  <2>3. \E q \in Nat : kWarpSize = h * q
    <3>1. PICK q \in Nat : kWarpSize = m * q
      BY <1>1
    <3>2. kWarpSize = h * (2 * q) /\ 2 * q \in Nat
      BY <2>1, <3>1
    <3> QED
      BY <3>2
  <2>4. h + k <= kWarpSize
    BY <1>1, <1>4, <2>1, Sizes
  <2>5. Halved(h, k)
    BY <2>1, <2>2, <2>3, <2>4 DEF Halved
  <2> QED
    BY <1>4, <2>1, <2>2, <2>5
<1> QED
  BY <1>3, <1>4

LEMMA HalvedAll == \A k \in 0 .. kWarpSize : \E m : Halved(m, k)
<1> DEFINE S == {k \in 0 .. kWarpSize : \E m : Halved(m, k)}
<1>1. kWarpSize \in Nat
  BY Sizes
<1>2. 0 \in S
  BY <1>1, HalvedFirst
<1>3. ASSUME NEW k \in 1 .. kWarpSize, k - 1 \in S
      PROVE  k \in S
  <2>1. PICK m : Halved(m, k - 1)
    BY <1>3
  <2>2. Halved(1, k) \/ Halved(Mask[k - 1], k)
    BY <2>1, HalvedNext
  <2> QED
    BY <1>1, <2>2
<1> HIDE DEF S
<1>4. \A k \in 0 .. kWarpSize : k \in S
  BY <1>1, <1>2, <1>3, Counting
<1> QED
  BY <1>4 DEF S

\* The partner of a lane is a lane, half a period above or below.
LEMMA PartnerIn ==
  ASSUME NEW h \in Nat \ {0}, NEW q \in Nat, kWarpSize = (2 * h) * q, NEW l \in Lanes
  PROVE  /\ Partner(l, h) \in Lanes
         /\ Partner(l, h) = l + h \/ Partner(l, h) + 2 * h = l + h
<1> DEFINE d == l \div h
           r == l % h
<1>1. l \in Nat /\ l < (2 * h) * q
  BY Sizes DEF Lanes
<1>2. d \in Nat /\ r \in 0 .. h - 1 /\ l = h * d + r
  BY <1>1, Division
<1>3. Partner(l, h) = IF d % 2 = 0 THEN l + h ELSE l - h
  BY DEF Partner
<1> HIDE DEF d, r
<1>4. CASE d % 2 = 0
  <2>1. PICK e \in Nat : d = 2 * e
    <3>1. d \div 2 \in Nat /\ d = 2 * (d \div 2)
      BY <1>2, <1>4
    <3> QED
      BY <3>1
  <2>2. l = (2 * h) * e + r
    BY <1>2, <2>1
  <2>3. e < q
    <3>1. SUFFICES ASSUME e >= q PROVE FALSE
      BY <2>1
    <3>2. (2 * h) * e >= (2 * h) * q
      BY <2>1, <3>1
    <3> QED
      BY <1>1, <1>2, <2>1, <2>2, <3>2
  <2>4. (2 * h) * (e + 1) <= (2 * h) * q
    BY <2>1, <2>3
  <2>5. (2 * h) * (e + 1) = (2 * h) * e + 2 * h
    BY <2>1
  <2>6. l + h < kWarpSize
    BY <1>1, <1>2, <2>1, <2>2, <2>4, <2>5
  <2>7. Partner(l, h) = l + h
    BY <1>3, <1>4
  <2> QED
    BY <1>1, <2>6, <2>7 DEF Lanes
<1>5. CASE d % 2 # 0
  <2>1. d >= 1
    BY <1>2, <1>5
  <2>2. h * d >= h
    BY <1>2, <2>1
  <2>3. l - h >= 0 /\ l - h < kWarpSize
    BY <1>1, <1>2, <2>2
  <2>4. Partner(l, h) = l - h
    BY <1>3, <1>5
  <2> QED
    BY <1>1, <2>3, <2>4 DEF Lanes
<1> QED
  BY <1>4, <1>5

\* The values after round k, while no lane leaves the warp.
LEMMA RoundsAre ==
  ASSUME NEW f \in Semantics, NEW v \in [Lanes -> Values(f)]
  PROVE  /\ Rounds(f, v)[0] = v
         /\ \A k \in 1 .. kWarpSize : Rounds(f, v)[k] =
              IF Mask[k - 1] = 0 THEN Rounds(f, v)[k - 1]
              ELSE [l \in Lanes |-> Apply(f, Rounds(f, v)[k - 1][l],
                                             Rounds(f, v)[k - 1][Partner(l, Mask[k - 1])])]
<1> DEFINE N == kWarpSize
           K == [Lanes -> Values(f)]
           One(x, k) == IF Mask[k - 1] = 0 THEN x
                        ELSE [l \in Lanes |-> Apply(f, x[l], x[Partner(l, Mask[k - 1])])]
           Made(u) == [k \in 0 .. N |-> IF k = 0 THEN v ELSE One(u[k - 1], k)]
           step == [k \in 1 .. N |-> [x \in K |-> One(x, k)]]
           w == CHOOSE u : u = Made(u)
<1>1. Rounds(f, v) = w
  BY DEF Rounds
<1>2. N \in Nat
  BY Sizes
<1>3. ASSUME NEW k \in 1 .. N, NEW x \in K
      PROVE  One(x, k) \in K
  <2>1. CASE Mask[k - 1] = 0
    BY <2>1
  <2>2. CASE Mask[k - 1] # 0
    <3>1. k - 1 \in 0 .. kWarpSize
      BY <1>2
    <3>2. PICK m : Halved(m, k - 1)
      BY <3>1, HalvedAll
    <3>3. m # 1 /\ m = 2 * Mask[k - 1] /\ Mask[k - 1] \in Nat \ {0}
      BY <2>2, <3>2, HalvedNext
    <3>4. PICK q \in Nat : kWarpSize = (2 * Mask[k - 1]) * q
      BY <3>2, <3>3 DEF Halved
    <3>5. \A l \in Lanes : Partner(l, Mask[k - 1]) \in Lanes
      BY <3>3, <3>4, PartnerIn
    <3>6. \A l \in Lanes : Apply(f, x[l], x[Partner(l, Mask[k - 1])]) \in Values(f)
      BY <3>5, ApplyLaws
    <3> QED
      BY <2>2, <3>6
  <2> QED
    BY <2>1, <2>2
<1> HIDE DEF N, K, w, One
<1>4. step \in [1 .. N -> [K -> K]]
  BY <1>3
<1>5. v \in K
  BY DEF K
<1>6. PICK u : Steps(u, N, K, v, step)
  <2> HIDE DEF step
  <2> QED
    BY <1>2, <1>4, <1>5, Recursion
<1>7. u = Made(u)
  <2>1. u \in [0 .. N -> K] /\ u[0] = v /\ \A k \in 1 .. N : u[k] = step[k][u[k - 1]]
    BY <1>6 DEF Steps
  <2>2. ASSUME NEW k \in 0 .. N
        PROVE  u[k] = Made(u)[k]
    <3>1. CASE k = 0
      BY <2>1, <3>1
    <3>2. CASE k \in 1 .. N
      <4>1. u[k] = step[k][u[k - 1]] /\ u[k - 1] \in K /\ k # 0
        BY <1>2, <2>1, <3>2
      <4> QED
        BY <3>2, <4>1
    <3> QED
      BY <1>2, <3>1, <3>2
  <2> QED
    BY <2>1, <2>2
<1>8. w = Made(w)
  BY <1>7 DEF w
<1>9. w[0] = v /\ \A k \in 1 .. N : w[k] = One(w[k - 1], k)
  BY <1>2, <1>8
<1> QED
  BY <1>1, <1>9 DEF N, One

\* After log2 rounds every lane of warp w has the total of the warp.
LEMMA ButterflyTotal ==
  ASSUME NEW f \in Semantics, NEW i \in CallNumbers, NEW w \in Lanes
  PROVE  \A l \in Lanes : Butterfly(f, Operands(w, i))[l] = Total(f, i, ThreadsOf(w))
<1> DEFINE W == kWarpSize
           b == w * W
           v == Operands(w, i)
           u == Rounds(f, v)
           Good(k, m) == /\ Halved(m, k)
                         /\ \A l \in Lanes : u[k][l] = Total(f, i, Class(b, W, m, l))
           S == {k \in 0 .. W : \E m : Good(k, m)}
<1>1. W \in Nat \ {0} /\ b \in Nat /\ Lanes = 0 .. W - 1
  BY Sizes DEF Lanes
<1>2. ThreadsOf(w) = b .. b + (W - 1)
  <2>1. W \in 1 .. W /\ w \in 0 .. W - 1
    BY <1>1
  <2> QED
    BY <2>1, ThreadsLie
<1>3. v \in [Lanes -> Values(f)]
  <2>1. \A l \in Lanes : Inputs[b + l][i] \in Values(f)
    BY LaneOf, InputsAreValues
  <2> QED
    BY <2>1 DEF Operands, Input
<1>4. /\ u[0] = v
      /\ \A k \in 1 .. W : u[k] =
           IF Mask[k - 1] = 0 THEN u[k - 1]
           ELSE [l \in Lanes |-> Apply(f, u[k - 1][l], u[k - 1][Partner(l, Mask[k - 1])])]
  BY <1>3, RoundsAre
<1>5. \A l \in Lanes : v[l] = Total(f, i, {b + l})
  <2>1. \A l \in Lanes : b + l \in AllThreads
    BY LaneOf
  <2> QED
    BY <2>1, TotalOne DEF Operands, Input
<1> HIDE DEF u, v, b
<1>6. 0 \in S
  <2>1. \A l \in Lanes : Class(b, W, W, l) = {b + l}
    BY <1>1, ClassTop
  <2>2. Good(0, W)
    BY <1>4, <1>5, <2>1, HalvedFirst
  <2> HIDE DEF Good, W
  <2> QED
    BY <1>1, <2>2
<1>7. ASSUME NEW k \in 1 .. W, k - 1 \in S
      PROVE  k \in S
  <2>1. PICK m : Good(k - 1, m)
    BY <1>7
  <2>2. CASE m = 1
    <3>1. Mask[k - 1] = 0 /\ Halved(1, k)
      BY <2>1, <2>2, HalvedNext
    <3>2. u[k] = u[k - 1]
      BY <1>4, <3>1
    <3>3. Good(k, 1)
      BY <2>1, <2>2, <3>1, <3>2
    <3> HIDE DEF Good, W
    <3> QED
      BY <1>1, <3>3
  <2>3. CASE m # 1
    <3> DEFINE h == Mask[k - 1]
    <3>1. h # 0 /\ m = 2 * h /\ h \in Nat \ {0} /\ Halved(h, k)
      BY <2>1, <2>3, HalvedNext
    <3>2. PICK q \in Nat : W = (2 * h) * q
      BY <2>1, <3>1 DEF Halved
    <3>3. u[k] = [l \in Lanes |-> Apply(f, u[k - 1][l], u[k - 1][Partner(l, h)])]
      BY <1>4, <3>1
    <3>4. \A l \in Lanes : u[k - 1][l] = Total(f, i, Class(b, W, 2 * h, l))
      BY <2>1, <3>1
    <3> HIDE DEF h
    <3>5. ASSUME NEW l \in Lanes
          PROVE  u[k][l] = Total(f, i, Class(b, W, h, l))
      <4> DEFINE p == Partner(l, h)
      <4>1. p \in Lanes /\ (p = l + h \/ p + 2 * h = l + h)
        BY <3>1, <3>2, PartnerIn
      <4> HIDE DEF p
      <4>2. l \in Int /\ p \in Int /\ l + h \in Int /\ 2 * h \in Nat \ {0}
        BY <1>1, <3>1, <4>1
      <4>3. Class(b, W, 2 * h, p) = Class(b, W, 2 * h, l + h)
        <5>1. CASE p = l + h
          BY <5>1
        <5>2. CASE p + 2 * h = l + h
          <6> DEFINE s == l + h
                     m2 == 2 * h
          <6>1. s \in Int /\ m2 \in Nat \ {0} /\ s = p + m2
            BY <4>2, <5>2
          <6> HIDE DEF s, m2
          <6>2. Class(b, W, m2, s) = Class(b, W, m2, p)
            BY <1>1, <4>2, <6>1, ClassShift
          <6> QED
            BY <6>2 DEF s, m2
        <5> QED
          BY <4>1, <5>1, <5>2
      <4>4. u[k][l] = Apply(f, u[k - 1][l], u[k - 1][p])
        BY <3>3 DEF p
      <4>5. /\ u[k - 1][l] = Total(f, i, Class(b, W, 2 * h, l))
            /\ u[k - 1][p] = Total(f, i, Class(b, W, 2 * h, l + h))
        BY <3>4, <4>1, <4>3
      <4>6. Apply(f, Total(f, i, Class(b, W, 2 * h, l)), Total(f, i, Class(b, W, 2 * h, l + h)))
              = Total(f, i, Class(b, W, h, l))
        BY <1>1, <3>1, <4>2, ClassTotal
      <4> QED
        BY <4>4, <4>5, <4>6
    <3>6. Good(k, h)
      BY <3>1, <3>5
    <3> HIDE DEF Good, W
    <3> QED
      BY <1>1, <3>6
  <2> QED
    BY <2>2, <2>3
<1>8. PICK m : Good(W, m)
  <2> HIDE DEF Good, S, W
  <2>1. \A k \in 0 .. W : k \in S
    BY <1>1, <1>6, <1>7, Counting
  <2>2. W \in S
    BY <1>1, <2>1
  <2> QED
    BY <2>2 DEF S
<1>9. m = 1
  BY <1>1, <1>8 DEF Halved
<1>10. ASSUME NEW l \in Lanes
       PROVE  u[W][l] = Total(f, i, ThreadsOf(w))
  <2>1. Class(b, W, 1, l) = ThreadsOf(w)
    BY <1>1, <1>2, ClassOne
  <2> QED
    BY <1>8, <1>9, <2>1
<1> QED
  BY <1>10 DEF Butterfly, u, v, W

-----------------------------------------------------------------------------
(* The loop of calls: what each warp has done and what its storage holds.   *)

Sem == use.op.sem
UseTag == Tag([fn |-> use.fn, op |-> use.op])
BlockThreads == use.warps * kWarpSize
CallOf(w) == [fn |-> use.fn, op |-> use.op, warps |-> use.warps, iter |-> turn[w].it]
Side(i) == IF use.fn \in DoubleBuffered THEN i % 2 ELSE 0

Stages == {"sync", "fold", "done"}

\* The storage keeps its shape.
Shape ==
  /\ red = [b \in Blocks |-> red[b]] /\ red[0] = [w \in Lanes |-> red[0][w]]
  /\ warp_aggregates = [b \in Blocks |-> warp_aggregates[b]]
  /\ warp_aggregates[0] = [p \in {0, 1} |-> warp_aggregates[0][p]]
  /\ \A p \in {0, 1} : warp_aggregates[0][p] = [w \in Lanes |-> warp_aggregates[0][p][w]]
  /\ generic_buf = [b \in Blocks |-> generic_buf[b]]
  /\ generic_buf[0] = [t \in AllThreads |-> generic_buf[0][t]]

\* Warp w is inside the call its turn names.
Running(w) ==
  /\ red[0][w].at \in Stages
  /\ red[0][w] = [at |-> red[0][w].at, c |-> CallOf(w), tag |-> UseTag,
                  stride |-> red[0][w].stride, out |-> red[0][w].out]
  /\ turn[w].at = "call" /\ turn[w].it \in CallNumbers

Between(w) == red[0][w] = Idle /\ (turn[w].at = "guard" => use.guard /\ turn[w].it > 0)

CubTypes ==
  /\ use \in Uses /\ Shape
  /\ turn \in [0 .. use.warps - 1 -> [it : 0 .. Calls, at : {"call", "guard"}]]
  /\ \A w \in Warps : Running(w) \/ Between(w)

(* The barriers a warp has passed.  Tagged calls have one each; the tree    *)
(* has one for the inputs and one for each stride.                          *)
TagEpoch(w) == turn[w].it + (IF red[0][w].at \in {"fold", "done"} THEN 1 ELSE 0)

TreeEpoch(w) ==
  CASE red[0][w].at = "idle" /\ turn[w].at = "call"  -> <<turn[w].it, 2 * BlockThreads>>
    [] red[0][w].at = "idle" /\ turn[w].at = "guard" -> <<turn[w].it - 1, 1>>
    [] red[0][w].at = "sync" -> <<turn[w].it, 2 * red[0][w].stride>>
    [] red[0][w].at = "fold" -> <<turn[w].it, red[0][w].stride>>
    [] red[0][w].at = "done" -> <<turn[w].it, 1>>

\* Every warp has passed the same barriers.
Abreast ==
  /\ UseTag # "generic" => \A v, w \in Warps : TagEpoch(v) = TagEpoch(w)
  /\ UseTag = "generic" => \A v, w \in Warps : TreeEpoch(v) = TreeEpoch(w)

\* With a barrier of the caller's own, a warp that is ahead waits at it.
Waiting ==
  use.guard => \A v, w \in Warps : turn[w].it > turn[v].it => turn[w].at = "guard"

\* The aggregate of warp w in call i is published.
Published(w, i) == warp_aggregates[0][Side(i)][w] = Total(Sem, i, ThreadsOf(w))

\* What warp w has published, up to the call before its own when buffers alternate.
Publishes(w) ==
  LET i == turn[w].it
      a == red[0][w].at
  IN  /\ a \in {"sync", "fold"} => use.warps # 1
      /\ use.warps # 1 =>
           /\ a \in Stages => Published(w, i)
           /\ a = "idle" /\ i > 0 => Published(w, i - 1)
           /\ a = "sync" /\ i > 0 /\ use.fn \in DoubleBuffered => Published(w, i - 1)

\* The total of the threads a multiple of s from t.
Level(i, s, t) == Total(Sem, i, Class(0, BlockThreads, s, t))

\* What the tree's scratch holds at the threads of warp w.
Grows(w) ==
  LET i == turn[w].it
      a == red[0][w].at
      s == red[0][w].stride
      buf == generic_buf[0]
  IN  /\ a \in Stages => s \in 1 .. BlockThreads /\ Halves(s)
      /\ a = "done" => s = 1
      /\ a \in Stages => \A t \in ThreadsOf(w) : t < s => buf[t] = Level(i, s, t)
      /\ a = "sync" => \A t \in ThreadsOf(w) : s <= t /\ t < 2 * s => buf[t] = Level(i, 2 * s, t)
      /\ a = "idle" /\ turn[w].at = "guard" /\ w = 0 => buf[0] = Level(i - 1, 1, 0)

\* A call that is done has its result where it was promised.
Returns(w) ==
  red[0][w].at = "done" =>
    \A l \in Promised(w) : red[0][w].out[l] = BlockTotal(Sem, turn[w].it, use.warps)

Holds(w) ==
  /\ UseTag # "generic" => Publishes(w)
  /\ UseTag = "generic" => Grows(w)
  /\ Returns(w)

CubInv == CubTypes /\ Abreast /\ Waiting /\ \A w \in Warps : Holds(w)

-----------------------------------------------------------------------------
\* What the contract of the loop says.
LEMMA UseFacts ==
  ASSUME use \in Uses
  PROVE  /\ use.warps \in 1 .. kWarpSize /\ Sem \in Semantics
         /\ use.fn \in {"Reduce", "AllReduce", "Shfl"} \cup DoubleBuffered
         /\ UseTag = "generic" \/ UseTag = Sem
         /\ \A i : Tag([fn |-> use.fn, op |-> use.op, warps |-> use.warps, iter |-> i]) = UseTag
         /\ UseTag = "generic" => Halves(BlockThreads) /\ use.guard /\ use.fn # "Shfl"
         /\ ~ use.guard => use.fn \in DoubleBuffered
<1>1. Contract(use)
  BY CallsAssumption
<1>2. Honest(use.op)
  BY <1>1 DEF Contract
<1>3. DispatchTagOf(use.op) = "generic" \/ DispatchTagOf(use.op) = use.op.sem
  BY <1>2 DEF Honest, DispatchTagOf
<1>4. Sem \in Semantics
  BY <1>2 DEF Honest, Sem, Semantics
<1>5. UseTag = IF use.fn = "Shfl" THEN use.op.sem ELSE DispatchTagOf(use.op)
  BY DEF UseTag, Tag
<1>6. \A i : Tag([fn |-> use.fn, op |-> use.op, warps |-> use.warps, iter |-> i]) = UseTag
  BY <1>5 DEF Tag
<1>7. UseTag = "generic" => use.fn # "Shfl"
  BY <1>4, <1>5 DEF Sem, Semantics
<1>8. use.fn \in DoubleBuffered => use.fn # "Shfl"
  BY DEF DoubleBuffered
<1>9. /\ use.fn \in {"Reduce", "AllReduce", "Shfl"} \cup DoubleBuffered
      /\ use.warps \in 1 .. kWarpSize
      /\ use.guard \/ (use.fn \in DoubleBuffered /\ DispatchTagOf(use.op) # "generic")
      /\ UseTag = "generic" => Halves(BlockThreads)
  BY <1>1 DEF Contract, UseTag, BlockThreads
<1> QED
  BY <1>3, <1>4, <1>5, <1>6, <1>7, <1>8, <1>9 DEF Sem

LEMMA BlockFacts ==
  ASSUME use \in Uses
  PROVE  /\ BlockThreads \in Nat \ {0} /\ 0 .. BlockThreads - 1 \subseteq AllThreads
         /\ \A w \in 0 .. use.warps - 1 : w \in Lanes /\ ThreadsOf(w) \subseteq 0 .. BlockThreads - 1
         /\ 0 .. BlockThreads - 1 = UNION {ThreadsOf(k) : k \in 0 .. use.warps - 1}
         /\ 0 \in ThreadsOf(0) /\ 0 \in 0 .. use.warps - 1
<1>1. use.warps \in 1 .. kWarpSize
  BY UseFacts
<1>2. 0 \in 0 .. use.warps - 1
  BY <1>1, Sizes
<1>3. /\ BlockThreads \in Nat \ {0} /\ 0 .. BlockThreads - 1 \subseteq AllThreads
      /\ \A w \in 0 .. use.warps - 1 : w \in Lanes /\ ThreadsOf(w) \subseteq 0 .. BlockThreads - 1
  BY <1>1, <1>2, ThreadsLie DEF BlockThreads
<1>4. 0 .. BlockThreads - 1 = UNION {ThreadsOf(k) : k \in 0 .. use.warps - 1}
  BY <1>1, ThreadsCover DEF BlockThreads
<1>5. 0 \in ThreadsOf(0)
  <2>1. 0 * kWarpSize = 0 /\ (0 + 1) * kWarpSize = kWarpSize
    BY Sizes
  <2> QED
    BY <2>1, Sizes DEF ThreadsOf
<1> QED
  BY <1>2, <1>3, <1>4, <1>5

LEMMA WarpsAre ==
  ASSUME CubTypes
  PROVE  /\ Warps = 0 .. use.warps - 1 /\ 0 \in Warps /\ 0 \in Blocks
         /\ \A w \in Warps : /\ w \in Lanes /\ turn[w].it \in 0 .. Calls
                             /\ turn[w].it \in Nat /\ turn[w].at \in {"call", "guard"}
                             /\ turn[w] = [it |-> turn[w].it, at |-> turn[w].at]
                             /\ red[0][w].at = "idle" => Between(w)
                             /\ red[0][w].at # "idle" => Running(w)
<1>1. turn \in [0 .. use.warps - 1 -> [it : 0 .. Calls, at : {"call", "guard"}]] /\ use \in Uses
  BY DEF CubTypes
<1>2. Warps = 0 .. use.warps - 1
  BY <1>1 DEF Warps
<1>3. \A w \in Warps : /\ turn[w].it \in 0 .. Calls /\ turn[w].it \in Nat
                       /\ turn[w].at \in {"call", "guard"}
                       /\ turn[w] = [it |-> turn[w].it, at |-> turn[w].at]
  BY <1>1, <1>2, CallsAssumption
<1>4. \A w \in Warps : w \in Lanes
  BY <1>1, <1>2, BlockFacts
<1>5. \A w \in Warps : /\ red[0][w].at = "idle" => Between(w)
                       /\ red[0][w].at # "idle" => Running(w)
  BY DEF CubTypes, Running, Between, Idle, Stages
<1>6. 0 \in Warps
  BY <1>1, <1>2, BlockFacts
<1> QED
  BY <1>2, <1>3, <1>4, <1>5, <1>6, CallsAssumption

\* The step leaves warp v, its aggregates and its scratch alone.
LeftAlone(v) ==
  /\ red'[0][v] = red[0][v] /\ turn'[v] = turn[v]
  /\ \A p \in {0, 1} : warp_aggregates'[0][p][v] = warp_aggregates[0][p][v]
  /\ \A t \in ThreadsOf(v) : generic_buf'[0][t] = generic_buf[0][t]

LEMMA LeftAloneKeeps ==
  ASSUME use \in Uses, use' = use, NEW v \in 0 .. use.warps - 1, LeftAlone(v), Holds(v), turn[v].it \in Nat
  PROVE  /\ Holds(v)' /\ TagEpoch(v)' = TagEpoch(v) /\ TreeEpoch(v)' = TreeEpoch(v)
         /\ (Running(v) => Running(v)') /\ (Between(v) => Between(v)')
<1>1. Sem' = Sem /\ UseTag' = UseTag /\ BlockThreads' = BlockThreads /\ Promised(v)' = Promised(v)
  BY DEF Sem, UseTag, Tag, BlockThreads, Promised
<1>2. red'[0][v] = red[0][v] /\ turn'[v] = turn[v]
  BY DEF LeftAlone
<1>3. \A i \in Int : Side(i) \in {0, 1} /\ Side(i)' = Side(i)
  BY DEF Side
<1>4. \A i \in Int : Published(v, i)' = Published(v, i)
  BY <1>1, <1>3 DEF Published, LeftAlone
<1>5. \A i, s, t : Level(i, s, t)' = Level(i, s, t)
  BY <1>1 DEF Level
<1>6. Publishes(v)' = Publishes(v)
  <2>1. turn[v].it \in Int /\ turn[v].it - 1 \in Int
    OBVIOUS
  <2> QED
    BY <1>2, <1>4, <2>1 DEF Publishes
<1>7. Grows(v)' = Grows(v)
  <2>1. \A t \in ThreadsOf(v) : generic_buf'[0][t] = generic_buf[0][t]
    BY DEF LeftAlone
  <2>2. v = 0 => generic_buf'[0][0] = generic_buf[0][0]
    BY <2>1, BlockFacts
  <2> QED
    BY <1>1, <1>2, <1>5, <2>1, <2>2 DEF Grows
<1>8. Returns(v)' = Returns(v)
  BY <1>1, <1>2 DEF Returns
<1>9. TagEpoch(v)' = TagEpoch(v) /\ TreeEpoch(v)' = TreeEpoch(v)
  BY <1>1, <1>2 DEF TagEpoch, TreeEpoch
<1>10. CallOf(v)' = CallOf(v)
  BY <1>2 DEF CallOf
<1> QED
  BY <1>1, <1>2, <1>6, <1>7, <1>8, <1>9, <1>10 DEF Holds, Running, Between

LEMMA CallsStart == CallsInit => CubInv
<1> SUFFICES ASSUME CallsInit PROVE CubInv
  OBVIOUS
<1>1. use \in Uses /\ RedInit(Lanes) /\ turn = [w \in 0 .. use.warps - 1 |-> [it |-> 0, at |-> "call"]]
  BY DEF CallsInit
<1>2. Calls \in Nat /\ 0 \in Blocks
  BY CallsAssumption
<1>3. Cardinality(Lanes) = kWarpSize
  <2>1. Cardinality(Lanes) = IF 0 <= kWarpSize - 1 THEN kWarpSize - 1 - 0 + 1 ELSE 0
    BY Sizes, FS_Interval DEF Lanes
  <2> QED
    BY <2>1, Sizes
<1>4. Shape
  <2>1. /\ warp_aggregates = [b \in Blocks |-> [p \in {0, 1} |-> [w \in Lanes |-> Unset]]]
        /\ generic_buf = [b \in Blocks |-> [t \in AllThreads |-> Unset]]
        /\ red = [b \in Blocks |-> [w \in Lanes |-> Idle]]
    BY <1>1, <1>3 DEF RedInit, AllThreads
  <2> QED
    BY <1>2, <2>1 DEF Shape
<1>5. Warps = 0 .. use.warps - 1 /\ \A w \in Warps : turn[w].it = 0 /\ turn[w].at = "call"
  BY <1>1 DEF Warps
<1>6. \A w \in Warps : red[0][w] = Idle
  <2>1. \A w \in Lanes : red[0][w] = Idle
    BY <1>1, <1>2 DEF RedInit
  <2> QED
    BY <1>1, <1>5, <2>1, BlockFacts
<1>7. CubTypes
  <2>1. turn \in [0 .. use.warps - 1 -> [it : 0 .. Calls, at : {"call", "guard"}]]
    BY <1>1, <1>2
  <2>2. \A w \in Warps : Between(w)
    BY <1>5, <1>6 DEF Between
  <2> QED
    BY <1>1, <1>4, <2>1, <2>2 DEF CubTypes
<1>8. Abreast
  <2>1. \A w \in Warps : TagEpoch(w) = 0 /\ TreeEpoch(w) = <<0, 2 * BlockThreads>>
    BY <1>5, <1>6 DEF TagEpoch, TreeEpoch, Idle
  <2> QED
    BY <2>1 DEF Abreast
<1>9. Waiting
  BY <1>5 DEF Waiting
<1>10. \A w \in Warps : Holds(w)
  BY <1>5, <1>6 DEF Holds, Publishes, Grows, Returns, Idle, Stages
<1> QED
  BY <1>7, <1>8, <1>9, <1>10 DEF CubInv

\* A step of warp w alone keeps the invariant when it keeps what w is accountable for.
LEMMA OneMoves ==
  ASSUME CubInv, NEW w \in Warps, use' = use, Shape',
         turn' \in [0 .. use.warps - 1 -> [it : 0 .. Calls, at : {"call", "guard"}]],
         \A v \in Warps : v # w => LeftAlone(v),
         Running(w)' \/ Between(w)', Holds(w)',
         UseTag # "generic" => use.warps = 1 \/ TagEpoch(w)' = TagEpoch(w),
         UseTag = "generic" => TreeEpoch(w)' = TreeEpoch(w),
         turn'[w] = turn[w] \/ (turn'[w].it = turn[w].it + 1 /\ (use.guard => turn'[w].at = "guard"))
  PROVE  CubInv'
<1>1. use \in Uses /\ CubTypes
  BY DEF CubInv, CubTypes
<1>2. Warps = 0 .. use.warps - 1 /\ \A v \in Warps : turn[v].it \in Nat
  BY <1>1, WarpsAre
<1>3. Warps' = Warps
  BY <1>2 DEF Warps
<1>4. UseTag' = UseTag /\ use.guard' = use.guard
  BY DEF UseTag, Tag
<1>5. ASSUME NEW v \in Warps, v # w
      PROVE  /\ Holds(v)' /\ TagEpoch(v)' = TagEpoch(v) /\ TreeEpoch(v)' = TreeEpoch(v)
             /\ (Running(v)' \/ Between(v)') /\ turn'[v] = turn[v]
  <2>1. v \in 0 .. use.warps - 1 /\ LeftAlone(v) /\ Holds(v) /\ turn[v].it \in Nat
    BY <1>2, <1>5 DEF CubInv
  <2>2. Running(v) \/ Between(v)
    BY <1>1 DEF CubTypes
  <2> QED
    BY <1>1, <2>1, <2>2, LeftAloneKeeps DEF LeftAlone
<1>6. CubTypes'
  <2>1. \A v \in Warps' : (Running(v) \/ Between(v))'
    BY <1>3, <1>5
  <2> QED
    BY <1>1, <2>1 DEF CubTypes
<1>7. Abreast'
  <2>1. CASE UseTag # "generic" /\ use.warps = 1
    <3>1. \A v \in Warps : v = 0
      BY <1>2, <2>1
    <3> QED
      BY <1>3, <1>4, <2>1, <3>1 DEF Abreast
  <2>2. CASE UseTag # "generic" /\ use.warps # 1
    <3>1. \A v \in Warps : TagEpoch(v)' = TagEpoch(v)
      BY <1>5, <2>2
    <3> QED
      BY <1>3, <1>4, <2>2, <3>1 DEF CubInv, Abreast
  <2>3. CASE UseTag = "generic"
    <3>1. \A v \in Warps : TreeEpoch(v)' = TreeEpoch(v)
      BY <1>5, <2>3
    <3> QED
      BY <1>3, <1>4, <2>3, <3>1 DEF CubInv, Abreast
  <2> QED
    BY <2>1, <2>2, <2>3
<1>8. Waiting'
  <2> SUFFICES ASSUME use.guard, NEW v \in Warps, NEW x \in Warps, turn'[x].it > turn'[v].it
               PROVE  turn'[x].at = "guard"
    BY <1>3, <1>4 DEF Waiting
  <2>1. \A y, z \in Warps : turn[y].it > turn[z].it => turn[y].at = "guard"
    BY DEF CubInv, Waiting
  <2>2. CASE turn'[w] = turn[w]
    <3>1. \A y \in Warps : turn'[y] = turn[y]
      BY <1>5, <2>2
    <3> QED
      BY <2>1, <3>1
  <2>3. CASE turn'[w].it = turn[w].it + 1 /\ (use.guard => turn'[w].at = "guard")
    <3>1. CASE x = w
      BY <2>3, <3>1
    <3>2. CASE x # w /\ v = w
      <4>1. turn'[x] = turn[x] /\ turn[x].it > turn[w].it
        BY <1>2, <1>5, <2>3, <3>2
      <4> QED
        BY <2>1, <4>1
    <3>3. CASE x # w /\ v # w
      <4>1. turn'[x] = turn[x] /\ turn'[v] = turn[v]
        BY <1>5, <3>3
      <4> QED
        BY <2>1, <4>1
    <3> QED
      BY <3>1, <3>2, <3>3
  <2> QED
    BY <2>2, <2>3
<1>9. \A v \in Warps' : Holds(v)'
  BY <1>3, <1>5
<1> QED
  BY <1>6, <1>7, <1>8, <1>9 DEF CubInv

\* The records of a call that one warp writes.
LEMMA RecordSet ==
  ASSUME CubTypes, NEW w \in Lanes, NEW x, red' = [red EXCEPT ![0][w] = x]
  PROVE  /\ red' = [b \in Blocks |-> red'[b]] /\ red'[0] = [v \in Lanes |-> red'[0][v]]
         /\ red'[0][w] = x /\ \A v \in Lanes : v # w => red'[0][v] = red[0][v]
BY CallsAssumption DEF CubTypes, Shape

\* What an entering warp does.
LEMMA BeginMoves ==
  ASSUME CubInv, NEW w \in Warps, CallBegin(w)
  PROVE  /\ red[0][w].at = "idle" /\ turn[w].at = "call" /\ turn[w].it \in CallNumbers
         /\ use' = use /\ turn' = turn
         /\ UseTag = "generic" =>
              /\ red' = [red EXCEPT ![0][w] = [at |-> "sync", c |-> CallOf(w), tag |-> UseTag,
                            stride |-> BlockThreads, out |-> Operands(w, turn[w].it)]]
              /\ generic_buf' = [generic_buf EXCEPT ![0] =
                    [t \in DOMAIN @ |-> IF t \in ThreadsOf(w) THEN Operands(w, turn[w].it)[t % kWarpSize] ELSE @[t]]]
              /\ warp_aggregates' = warp_aggregates
         /\ UseTag # "generic" =>
              \E out : /\ \A l \in Lanes : out[l] = Total(Sem, turn[w].it, ThreadsOf(w))
                       /\ red' = [red EXCEPT ![0][w] = [at |-> IF use.warps = 1 THEN "done" ELSE "sync",
                            c |-> CallOf(w), tag |-> UseTag, stride |-> 0, out |-> out]]
                       /\ warp_aggregates' = IF use.warps = 1 THEN warp_aggregates
                             ELSE [warp_aggregates EXCEPT ![0][Side(turn[w].it)][w] = Total(Sem, turn[w].it, ThreadsOf(w))]
                       /\ generic_buf' = generic_buf
<1> DEFINE i == turn[w].it
           c == CallOf(w)
           in == Operands(w, i)
           out == IF c.fn = "Shfl" THEN Butterfly(UseTag, in) ELSE [l \in Lanes |-> WarpReduce(UseTag, in)]
<1>1. use \in Uses /\ CubTypes
  BY DEF CubInv, CubTypes
<1>2. /\ turn[w].at = "call" /\ turn[w].it < Calls /\ use' = use /\ turn' = turn
      /\ Begin(0, w, c, in)
  BY DEF CallBegin, callVars, CallOf, Operands
<1>3. i \in CallNumbers /\ w \in Lanes
  <2>1. turn[w].it \in Nat /\ w \in Lanes
    BY <1>1, WarpsAre
  <2>2. Calls \in Nat
    BY CallsAssumption
  <2> QED
    BY <1>2, <2>1, <2>2 DEF CallNumbers
<1>4. Tag(c) = UseTag /\ c.fn = use.fn /\ c.warps = use.warps /\ Side(i) = Parity(c)
  BY <1>1, UseFacts DEF CallOf, Side, Parity
<1>5. red[0][w].at = "idle"
  BY <1>2 DEF Begin
<1>6. CASE UseTag = "generic"
  BY <1>2, <1>3, <1>4, <1>5, <1>6 DEF Begin, BlockThreads
<1>7. CASE UseTag # "generic"
  <2>1. UseTag = Sem /\ Sem \in Semantics
    BY <1>1, <1>7, UseFacts
  <2>2. \A l \in Lanes : out[l] = Total(Sem, i, ThreadsOf(w))
    <3> HIDE DEF in
    <3>1. CASE c.fn = "Shfl"
      BY <1>3, <2>1, <3>1, ButterflyTotal DEF in
    <3>2. CASE c.fn # "Shfl"
      BY <1>3, <2>1, <3>2, WarpTotal DEF in
    <3> QED
      BY <3>1, <3>2
  <2>3. /\ red' = [red EXCEPT ![0][w] = [at |-> IF use.warps = 1 THEN "done" ELSE "sync",
                            c |-> c, tag |-> UseTag, stride |-> 0, out |-> out]]
        /\ warp_aggregates' = IF use.warps = 1 THEN warp_aggregates
                             ELSE [warp_aggregates EXCEPT ![0][Side(i)][w] = out[0]]
        /\ generic_buf' = generic_buf
    <3> HIDE DEF in, c
    <3> QED
      BY <1>2, <1>4, <1>7 DEF Begin
  <2>4. out[0] = Total(Sem, i, ThreadsOf(w))
    BY <2>2, Sizes DEF Lanes
  <2> HIDE DEF out
  <2> QED
    BY <1>2, <1>3, <1>5, <1>7, <2>2, <2>3, <2>4
<1> QED
  BY <1>6, <1>7

\* A warp that enters a tagged call publishes its aggregate, and in a block of one warp
\* has the result.
LEMMA BeginTagged ==
  ASSUME CubInv, NEW w \in Warps, CallBegin(w), UseTag # "generic"
  PROVE  CubInv'
<1> DEFINE i == turn[w].it
<1>1. use \in Uses /\ CubTypes /\ Shape
  BY DEF CubInv, CubTypes
<1>2. /\ red[0][w].at = "idle" /\ turn[w].at = "call" /\ i \in CallNumbers
      /\ use' = use /\ turn' = turn
  BY BeginMoves
<1>3. PICK out : /\ \A l \in Lanes : out[l] = Total(Sem, i, ThreadsOf(w))
                 /\ red' = [red EXCEPT ![0][w] = [at |-> IF use.warps = 1 THEN "done" ELSE "sync",
                            c |-> CallOf(w), tag |-> UseTag, stride |-> 0, out |-> out]]
                 /\ warp_aggregates' = IF use.warps = 1 THEN warp_aggregates
                       ELSE [warp_aggregates EXCEPT ![0][Side(i)][w] = Total(Sem, i, ThreadsOf(w))]
                 /\ generic_buf' = generic_buf
  BY BeginMoves
<1>4. /\ Warps = 0 .. use.warps - 1 /\ w \in Lanes /\ i \in Nat /\ i \in 0 .. Calls
      /\ \A v \in Warps : v \in Lanes
      /\ turn \in [0 .. use.warps - 1 -> [it : 0 .. Calls, at : {"call", "guard"}]]
  BY <1>1, WarpsAre DEF CubTypes
<1>5. /\ red' = [b \in Blocks |-> red'[b]] /\ red'[0] = [v \in Lanes |-> red'[0][v]]
      /\ red'[0][w] = [at |-> IF use.warps = 1 THEN "done" ELSE "sync",
                       c |-> CallOf(w), tag |-> UseTag, stride |-> 0, out |-> out]
      /\ \A v \in Lanes : v # w => red'[0][v] = red[0][v]
  <2> DEFINE x == [at |-> IF use.warps = 1 THEN "done" ELSE "sync",
                   c |-> CallOf(w), tag |-> UseTag, stride |-> 0, out |-> out]
  <2>1. red' = [red EXCEPT ![0][w] = x]
    BY <1>3
  <2> HIDE DEF x
  <2>2. /\ red' = [b \in Blocks |-> red'[b]] /\ red'[0] = [v \in Lanes |-> red'[0][v]]
        /\ red'[0][w] = x /\ \A v \in Lanes : v # w => red'[0][v] = red[0][v]
    BY <1>1, <1>4, <2>1, RecordSet
  <2> QED
    BY <2>2 DEF x
<1>6. Side(i) \in {0, 1}
  BY <1>4 DEF Side
<1>7. /\ warp_aggregates' = [b \in Blocks |-> warp_aggregates'[b]]
      /\ warp_aggregates'[0] = [p \in {0, 1} |-> warp_aggregates'[0][p]]
      /\ \A p \in {0, 1} : warp_aggregates'[0][p] = [v \in Lanes |-> warp_aggregates'[0][p][v]]
      /\ \A v \in Lanes, p \in {0, 1} : v # w \/ p # Side(i) \/ use.warps = 1
            => warp_aggregates'[0][p][v] = warp_aggregates[0][p][v]
      /\ use.warps # 1 => warp_aggregates'[0][Side(i)][w] = Total(Sem, i, ThreadsOf(w))
  <2> DEFINE x == Total(Sem, i, ThreadsOf(w))
             q == Side(i)
  <2> HIDE DEF x, q, i
  <2>1. CASE use.warps = 1
    <3>1. warp_aggregates' = warp_aggregates
      BY <1>3, <2>1
    <3> QED
      BY <1>1, <2>1, <3>1 DEF Shape
  <2>2. CASE use.warps # 1
    <3>1. warp_aggregates' = [warp_aggregates EXCEPT ![0][q][w] = x] /\ q \in {0, 1}
      BY <1>3, <1>6, <2>2 DEF x, q
    <3> QED
      BY <1>1, <1>4, <2>2, <3>1, CallsAssumption DEF Shape, x, q
  <2> QED
    BY <2>1, <2>2
<1>8. Shape'
  BY <1>1, <1>3, <1>5, <1>7 DEF Shape
<1>9. ASSUME NEW v \in Warps, v # w
      PROVE  LeftAlone(v)
  BY <1>2, <1>3, <1>4, <1>5, <1>7, <1>9 DEF LeftAlone
<1>10. Running(w)'
  <2>1. CallOf(w)' = CallOf(w) /\ UseTag' = UseTag
    BY <1>2 DEF CallOf, UseTag, Tag
  <2> QED
    BY <1>2, <1>5, <2>1 DEF Running, Stages
<1>11. use.warps = 1 \/ TagEpoch(w)' = TagEpoch(w)
  BY <1>2, <1>5 DEF TagEpoch
<1>12. Holds(w)'
  <2>1. Sem' = Sem /\ UseTag' = UseTag /\ Promised(w)' = Promised(w)
    BY <1>2 DEF Sem, UseTag, Tag, Promised
  <2>2. Side(i)' = Side(i) /\ Side(i - 1)' = Side(i - 1) /\ Side(i - 1) \in {0, 1}
    BY <1>2, <1>4 DEF Side
  <2>3. CASE use.warps = 1
    <3>1. ThreadsOf(w) = 0 .. use.warps * kWarpSize - 1
      <4>1. w = 0 /\ UNION {ThreadsOf(k) : k \in 0 .. use.warps - 1} = ThreadsOf(0)
        BY <1>4, <2>3
      <4> QED
        BY <1>1, <4>1, BlockFacts DEF BlockThreads
    <3>2. \A l \in Promised(w) : out[l] = BlockTotal(Sem, i, use.warps)
      BY <1>3, <3>1 DEF Promised, BlockTotal
    <3>3. Returns(w)'
      BY <1>2, <1>5, <2>1, <3>2 DEF Returns
    <3>4. Publishes(w)'
      BY <1>2, <1>5, <2>3 DEF Publishes
    <3> QED
      BY <2>1, <3>3, <3>4 DEF Holds
  <2>4. CASE use.warps # 1
    <3>1. Published(w, i)'
      BY <1>2, <1>7, <2>1, <2>2, <2>4 DEF Published
    <3>2. i > 0 /\ use.fn \in DoubleBuffered => Published(w, i - 1)'
      <4> SUFFICES ASSUME i > 0, use.fn \in DoubleBuffered PROVE Published(w, i - 1)'
        OBVIOUS
      <4>1. Holds(w) /\ Publishes(w)
        BY DEF CubInv, Holds
      <4>2. Published(w, i - 1)
        BY <1>2, <2>4, <4>1 DEF Publishes
      <4>3. Side(i - 1) # Side(i)
        BY <1>4 DEF Side
      <4>4. warp_aggregates'[0][Side(i - 1)][w] = warp_aggregates[0][Side(i - 1)][w]
        BY <1>4, <1>7, <2>2, <4>3
      <4> QED
        BY <1>2, <2>1, <2>2, <4>2, <4>4 DEF Published
    <3>3. red'[0][w].at = "sync"
      BY <1>5, <2>4
    <3>4. Publishes(w)'
      BY <1>2, <2>4, <3>1, <3>2, <3>3 DEF Publishes
    <3>5. Returns(w)'
      BY <3>3 DEF Returns
    <3> QED
      BY <2>1, <3>4, <3>5 DEF Holds
  <2> QED
    BY <2>3, <2>4
<1> QED
  BY <1>2, <1>4, <1>8, <1>9, <1>10, <1>11, <1>12, OneMoves

\* A warp that enters the tree stores its inputs.
LEMMA BeginTree ==
  ASSUME CubInv, NEW w \in Warps, CallBegin(w), UseTag = "generic"
  PROVE  CubInv'
<1> DEFINE i == turn[w].it
<1>1. use \in Uses /\ CubTypes /\ Shape
  BY DEF CubInv, CubTypes
<1>2. /\ red[0][w].at = "idle" /\ turn[w].at = "call" /\ i \in CallNumbers
      /\ use' = use /\ turn' = turn
  BY BeginMoves
<1>3. /\ red' = [red EXCEPT ![0][w] = [at |-> "sync", c |-> CallOf(w), tag |-> UseTag,
                    stride |-> BlockThreads, out |-> Operands(w, i)]]
      /\ generic_buf' = [generic_buf EXCEPT ![0] =
            [t \in DOMAIN @ |-> IF t \in ThreadsOf(w) THEN Operands(w, i)[t % kWarpSize] ELSE @[t]]]
      /\ warp_aggregates' = warp_aggregates
  BY BeginMoves
<1>4. /\ Warps = 0 .. use.warps - 1 /\ w \in Lanes /\ i \in Nat /\ i \in 0 .. Calls
      /\ \A v \in Warps : v \in Lanes
      /\ turn \in [0 .. use.warps - 1 -> [it : 0 .. Calls, at : {"call", "guard"}]]
  BY <1>1, WarpsAre DEF CubTypes
<1>5. /\ red' = [b \in Blocks |-> red'[b]] /\ red'[0] = [v \in Lanes |-> red'[0][v]]
      /\ red'[0][w] = [at |-> "sync", c |-> CallOf(w), tag |-> UseTag,
                       stride |-> BlockThreads, out |-> Operands(w, i)]
      /\ \A v \in Lanes : v # w => red'[0][v] = red[0][v]
  BY <1>1, <1>3, <1>4, RecordSet
<1>6. /\ generic_buf' = [b \in Blocks |-> generic_buf'[b]]
      /\ generic_buf'[0] = [t \in AllThreads |->
            IF t \in ThreadsOf(w) THEN Operands(w, i)[t % kWarpSize] ELSE generic_buf[0][t]]
  BY <1>1, <1>3, CallsAssumption DEF Shape
<1>7. generic_buf'[0] = [t \in AllThreads |-> generic_buf'[0][t]]
  BY <1>6
<1>8. Shape'
  BY <1>1, <1>3, <1>5, <1>6, <1>7 DEF Shape
<1>9. ASSUME NEW v \in Warps, v # w
      PROVE  LeftAlone(v)
  <2>1. v \in Lanes
    BY <1>4
  <2>2. \A t \in ThreadsOf(v) : t \in AllThreads /\ t \notin ThreadsOf(w)
    BY <1>4, <1>9, <2>1, LaneOf, ThreadsApart
  <2>3. \A t \in ThreadsOf(v) : generic_buf'[0][t] = generic_buf[0][t]
    BY <1>6, <2>2
  <2> QED
    BY <1>2, <1>3, <1>5, <1>9, <2>1, <2>3 DEF LeftAlone
<1>10. Running(w)'
  <2>1. CallOf(w)' = CallOf(w) /\ UseTag' = UseTag
    BY <1>2 DEF CallOf, UseTag, Tag
  <2> QED
    BY <1>2, <1>5, <2>1 DEF Running, Stages
<1>11. TreeEpoch(w)' = TreeEpoch(w)
  <2>1. BlockThreads' = BlockThreads
    BY <1>2 DEF BlockThreads
  <2>2. TreeEpoch(w) = <<i, 2 * BlockThreads>>
    BY <1>2 DEF TreeEpoch
  <2>3. red'[0][w].at = "sync" /\ red'[0][w].stride = BlockThreads
    BY <1>5
  <2>4. TreeEpoch(w)' = <<i, 2 * BlockThreads>>
    BY <1>2, <2>3 DEF TreeEpoch
  <2> QED
    BY <2>2, <2>4
<1>12. Holds(w)'
  <2>1. Sem' = Sem /\ UseTag' = UseTag /\ BlockThreads' = BlockThreads
    BY <1>2 DEF Sem, UseTag, Tag, BlockThreads
  <2>2. /\ BlockThreads \in Nat \ {0} /\ Halves(BlockThreads) /\ Sem \in Semantics
        /\ ThreadsOf(w) \subseteq 0 .. BlockThreads - 1
    BY <1>1, <1>4, UseFacts, BlockFacts
  <2>3. \A s, t : Level(i, s, t)' = Level(i, s, t)
    BY <1>2, <2>1 DEF Level
  <2>4. ASSUME NEW t \in ThreadsOf(w)
        PROVE  t < BlockThreads /\ generic_buf'[0][t] = Level(i, BlockThreads, t)
    <3>1. /\ t \in AllThreads /\ t \in Nat /\ t % kWarpSize \in Lanes
          /\ w * kWarpSize + (t % kWarpSize) = t
      BY <1>4, <2>4, LaneOf
    <3>2. generic_buf'[0][t] = Operands(w, i)[t % kWarpSize]
      BY <1>6, <2>4, <3>1
    <3>3. generic_buf'[0][t] = Inputs[t][i]
      BY <3>1, <3>2 DEF Operands, Input
    <3>4. t \in 0 .. BlockThreads - 1 /\ 0 + t = t
      BY <2>2, <2>4, <3>1
    <3>5. Class(0, BlockThreads, BlockThreads, t) = {t}
      BY <2>2, <3>4, ClassTop
    <3>6. Level(i, BlockThreads, t) = Inputs[t][i]
      BY <1>2, <2>2, <3>1, <3>5, TotalOne DEF Level
    <3> QED
      BY <2>2, <3>3, <3>4, <3>6
  <2>5. red'[0][w].at = "sync" /\ red'[0][w].stride = BlockThreads
    BY <1>5
  <2>6. Grows(w)'
    <3>1. \A t \in ThreadsOf(w) : t < BlockThreads /\ t \in Nat
      BY <1>4, <2>4, LaneOf
    <3>2. \A t \in ThreadsOf(w) : ~(BlockThreads <= t)
      BY <2>2, <3>1
    <3>3. BlockThreads \in 1 .. BlockThreads
      BY <2>2
    <3> QED
      BY <1>2, <2>1, <2>2, <2>3, <2>4, <2>5, <3>2, <3>3 DEF Grows
  <2>7. Returns(w)'
    BY <2>5 DEF Returns
  <2> QED
    BY <2>1, <2>6, <2>7 DEF Holds
<1> QED
  BY <1>2, <1>4, <1>8, <1>9, <1>10, <1>11, <1>12, OneMoves

\* The block barrier inside a call.
LEMMA SyncMoves ==
  ASSUME CubInv, Sync(0, Warps), UNCHANGED callVars
  PROVE  CubInv'
<1>1. use \in Uses /\ CubTypes /\ Shape
  BY DEF CubInv, CubTypes
<1>2. /\ use' = use /\ turn' = turn /\ warp_aggregates' = warp_aggregates /\ generic_buf' = generic_buf
      /\ \A w \in Warps : red[0][w].at = "sync"
      /\ red' = [red EXCEPT ![0] = [w \in DOMAIN @ |-> IF w \in Warps THEN [@[w] EXCEPT !.at = "fold"] ELSE @[w]]]
  BY DEF Sync, callVars
<1>3. Warps' = Warps /\ \A w \in Warps : w \in Lanes /\ turn[w].it \in Nat /\ Running(w)
  BY <1>1, <1>2, WarpsAre DEF Warps
<1>4. /\ red' = [b \in Blocks |-> red'[b]]
      /\ red'[0] = [w \in Lanes |-> IF w \in Warps THEN [red[0][w] EXCEPT !.at = "fold"] ELSE red[0][w]]
  BY <1>1, <1>2, CallsAssumption DEF Shape
<1>5. red'[0] = [w \in Lanes |-> red'[0][w]]
  BY <1>4
<1>6. Shape'
  BY <1>1, <1>2, <1>4, <1>5 DEF Shape
<1>7. ASSUME NEW w \in Warps
      PROVE  red'[0][w] = [at |-> "fold", c |-> CallOf(w), tag |-> UseTag,
                           stride |-> red[0][w].stride, out |-> red[0][w].out]
  <2>1. red'[0][w] = [red[0][w] EXCEPT !.at = "fold"]
    BY <1>3, <1>4
  <2>2. red[0][w] = [at |-> red[0][w].at, c |-> CallOf(w), tag |-> UseTag,
                     stride |-> red[0][w].stride, out |-> red[0][w].out]
    BY <1>3 DEF Running
  <2> DEFINE x == red[0][w].at
             s == red[0][w].stride
             o == red[0][w].out
             r == red[0][w]
  <2>3. r = [at |-> x, c |-> CallOf(w), tag |-> UseTag, stride |-> s, out |-> o]
    BY <2>2
  <2>4. red'[0][w] = [r EXCEPT !.at = "fold"]
    BY <2>1
  <2> HIDE DEF x, s, o, r
  <2>5. red'[0][w] = [at |-> "fold", c |-> CallOf(w), tag |-> UseTag, stride |-> s, out |-> o]
    BY <2>3, <2>4
  <2> QED
    BY <2>5 DEF s, o
<1>a. ASSUME NEW w \in Warps
      PROVE  /\ red'[0][w].at = "fold" /\ red'[0][w].c = CallOf(w) /\ red'[0][w].tag = UseTag
             /\ red'[0][w].stride = red[0][w].stride /\ red'[0][w].out = red[0][w].out
  <2> DEFINE y == red'[0][w]
             s == red[0][w].stride
             o == red[0][w].out
             cw == CallOf(w)
  <2>1. y = [at |-> "fold", c |-> cw, tag |-> UseTag, stride |-> s, out |-> o]
    BY <1>7
  <2> HIDE DEF y, s, o, cw
  <2>2. y.at = "fold" /\ y.c = cw /\ y.tag = UseTag /\ y.stride = s /\ y.out = o
    BY <2>1
  <2> QED
    BY <2>2 DEF y, s, o, cw
<1>8. UseTag' = UseTag /\ Sem' = Sem /\ BlockThreads' = BlockThreads
  BY <1>2 DEF UseTag, Tag, Sem, BlockThreads
<1>9. ASSUME NEW w \in Warps
      PROVE  Running(w)'
  <2>1. CallOf(w)' = CallOf(w)
    BY <1>2 DEF CallOf
  <2>2. red'[0][w] = [at |-> red'[0][w].at, c |-> CallOf(w)', tag |-> UseTag',
                      stride |-> red'[0][w].stride, out |-> red'[0][w].out]
    BY <1>7, <1>a, <1>8, <2>1
  <2>3. turn'[w].at = "call" /\ turn'[w].it \in CallNumbers
    BY <1>2, <1>3 DEF Running
  <2> QED
    BY <1>a, <2>2, <2>3 DEF Running, Stages
<1>10. CubTypes'
  BY <1>1, <1>2, <1>3, <1>6, <1>9 DEF CubTypes
<1>11. ASSUME NEW w \in Warps
       PROVE  Holds(w)'
  <2> DEFINE i == turn[w].it
  <2>1. Holds(w)
    BY DEF CubInv
  <2>2. \A j \in Int : Published(w, j)' = Published(w, j)
    BY <1>2, <1>8 DEF Published, Side
  <2>3. \A j, s, t : Level(j, s, t)' = Level(j, s, t)
    BY <1>8 DEF Level
  <2>4. UseTag # "generic" => Publishes(w)'
    <3>1. i \in Int
      BY <1>3
    <3> QED
      BY <1>2, <1>a, <2>1, <2>2, <3>1 DEF Holds, Publishes, Stages
  <2>5. UseTag = "generic" => Grows(w)'
    BY <1>2, <1>3, <1>a, <1>8, <2>1, <2>3 DEF Holds, Grows, Stages
  <2>6. Returns(w)'
    BY <1>a DEF Returns
  <2> QED
    BY <1>8, <2>4, <2>5, <2>6 DEF Holds
<1>12. Abreast'
  <2>1. CASE UseTag # "generic"
    <3>1. \A w \in Warps : TagEpoch(w) = turn[w].it /\ TagEpoch(w)' = turn[w].it + 1
      BY <1>2, <1>3, <1>a DEF TagEpoch
    <3> QED
      BY <1>3, <1>8, <2>1, <3>1 DEF CubInv, Abreast
  <2>2. CASE UseTag = "generic"
    <3>1. \A w \in Warps : /\ TreeEpoch(w) = <<turn[w].it, 2 * red[0][w].stride>>
                           /\ TreeEpoch(w)' = <<turn[w].it, red[0][w].stride>>
      BY <1>2, <1>a DEF TreeEpoch
    <3>2. \A w \in Warps : red[0][w].stride \in Nat
      <4>1. \A w \in Warps : red[0][w].stride \in 1 .. BlockThreads
        BY <1>2, <2>2 DEF CubInv, Holds, Grows, Stages
      <4> QED
        BY <1>1, <4>1, BlockFacts
    <3>3. ASSUME NEW v \in Warps, NEW w \in Warps
          PROVE  TreeEpoch(v)' = TreeEpoch(w)'
      <4>1. TreeEpoch(v) = TreeEpoch(w)
        BY <2>2 DEF CubInv, Abreast
      <4> DEFINE r == red[0][v].stride
                 s == red[0][w].stride
      <4>2. <<turn[v].it, 2 * r>> = <<turn[w].it, 2 * s>>
        BY <3>1, <4>1
      <4>3. turn[v].it = turn[w].it /\ 2 * r = 2 * s
        BY <4>2
      <4>4. r \in Nat /\ s \in Nat
        BY <3>2
      <4> HIDE DEF r, s
      <4>5. r = s
        BY <4>3, <4>4
      <4> QED
        BY <3>1, <4>3, <4>5 DEF r, s
    <3> QED
      BY <1>3, <1>8, <2>2, <3>3 DEF Abreast
  <2> QED
    BY <2>1, <2>2
<1>13. Waiting'
  BY <1>2, <1>3 DEF CubInv, Waiting
<1> QED
  BY <1>3, <1>10, <1>11, <1>12, <1>13 DEF CubInv

\* Between the barrier and its return a warp finds the aggregates of its own call.
LEMMA FoldReads ==
  ASSUME CubInv, NEW w \in Warps, red[0][w].at = "fold", UseTag # "generic"
  PROVE  Aggregated(Sem, turn[w].it, warp_aggregates[0][Side(turn[w].it)], use.warps)
<1> DEFINE i == turn[w].it
<1>1. use \in Uses /\ CubTypes
  BY DEF CubInv, CubTypes
<1>2. Warps = 0 .. use.warps - 1 /\ i \in Nat
  BY <1>1, WarpsAre
<1>3. use.warps # 1
  BY DEF CubInv, Holds, Publishes
<1>4. ASSUME NEW v \in Warps
      PROVE  Published(v, i)
  <2>1. Publishes(v) /\ turn[v].it \in Nat /\ (red[0][v].at # "idle" => Running(v))
    BY <1>1, WarpsAre DEF CubInv, Holds
  <2>2. TagEpoch(v) = TagEpoch(w) /\ TagEpoch(w) = i + 1
    BY DEF CubInv, Abreast, TagEpoch
  <2>3. CASE red[0][v].at \in {"fold", "done"}
    <3>1. turn[v].it = i
      BY <1>2, <2>1, <2>2, <2>3 DEF TagEpoch
    <3> QED
      BY <1>3, <2>1, <2>3, <3>1 DEF Publishes, Stages
  <2>4. CASE red[0][v].at = "idle"
    <3>1. turn[v].it = i + 1
      BY <1>2, <2>1, <2>2, <2>4 DEF TagEpoch
    <3>2. turn[v].it > 0 /\ turn[v].it - 1 = i
      BY <1>2, <3>1
    <3> QED
      BY <1>3, <2>1, <2>4, <3>2 DEF Publishes
  <2>5. CASE red[0][v].at = "sync"
    <3>1. turn[v].it = i + 1
      BY <1>2, <2>1, <2>2, <2>5 DEF TagEpoch
    <3>2. turn[v].it > 0 /\ turn[v].it - 1 = i /\ turn[v].it > turn[w].it
      BY <1>2, <3>1
    <3>3. turn[v].at = "call"
      BY <2>1, <2>5 DEF Running
    <3>4. ~ use.guard
      BY <3>2, <3>3 DEF CubInv, Waiting
    <3>5. use.fn \in DoubleBuffered
      BY <1>1, <3>4, UseFacts
    <3> QED
      BY <1>3, <2>1, <2>5, <3>2, <3>5 DEF Publishes
  <2> QED
    BY <2>1, <2>3, <2>4, <2>5 DEF Running, Stages
<1> QED
  BY <1>2, <1>4 DEF Published, Aggregated

LEMMA FoldMoves ==
  ASSUME CubInv, NEW w \in Warps, Fold(0, w), UNCHANGED callVars
  PROVE  CubInv'
<1> DEFINE i == turn[w].it
           r == red[0][w]
           agg == warp_aggregates[0][Side(i)]
<1>1. use \in Uses /\ CubTypes /\ Shape
  BY DEF CubInv, CubTypes
<1>2. /\ Warps = 0 .. use.warps - 1 /\ w \in Lanes /\ i \in Nat
      /\ turn \in [0 .. use.warps - 1 -> [it : 0 .. Calls, at : {"call", "guard"}]]
      /\ \A v \in Warps : v \in Lanes
  BY <1>1, WarpsAre DEF CubTypes
<1>3. /\ r.at = "fold" /\ r.tag # "generic" /\ use' = use /\ turn' = turn
      /\ red' = [red EXCEPT ![0][w] = [r EXCEPT !.at = "done",
                    !.out = Folded(r, warp_aggregates[0][Parity(r.c)], w)]]
      /\ warp_aggregates' = warp_aggregates /\ generic_buf' = generic_buf
  BY DEF Fold, callVars
<1>4. /\ Running(w) /\ i \in CallNumbers
      /\ r = [at |-> r.at, c |-> CallOf(w), tag |-> UseTag, stride |-> r.stride, out |-> r.out]
  <2>1. Running(w)
    BY <1>1, <1>3, WarpsAre
  <2> QED
    BY <2>1 DEF Running
<1>5. r.c = CallOf(w) /\ r.tag = UseTag /\ UseTag # "generic" /\ UseTag = Sem /\ Parity(r.c) = Side(i)
  <2>1. r.c = CallOf(w) /\ r.tag = UseTag
    BY <1>4
  <2>2. Parity(CallOf(w)) = Side(i)
    BY DEF Parity, CallOf, Side
  <2> HIDE DEF r
  <2> QED
    BY <1>1, <1>3, <2>1, <2>2, UseFacts
<1> DEFINE out == Folded(r, agg, w)
<1>6. /\ red' = [b \in Blocks |-> red'[b]] /\ red'[0] = [v \in Lanes |-> red'[0][v]]
      /\ red'[0][w] = [at |-> "done", c |-> CallOf(w), tag |-> UseTag, stride |-> r.stride, out |-> out]
      /\ \A v \in Lanes : v # w => red'[0][v] = red[0][v]
  <2> DEFINE x == [r EXCEPT !.at = "done", !.out = out]
             s == r.stride
             o == r.out
             a == r.at
  <2>1. red' = [red EXCEPT ![0][w] = x]
    BY <1>3, <1>5
  <2>2. r = [at |-> a, c |-> CallOf(w), tag |-> UseTag, stride |-> s, out |-> o]
    BY <1>4
  <2> HIDE DEF r, out, s, o, a
  <2>a. x = [[at |-> a, c |-> CallOf(w), tag |-> UseTag, stride |-> s, out |-> o]
               EXCEPT !.at = "done", !.out = out]
    BY <2>2
  <2> HIDE DEF x
  <2>3. x = [at |-> "done", c |-> CallOf(w), tag |-> UseTag, stride |-> s, out |-> out]
    BY <2>a
  <2> HIDE DEF x
  <2>4. /\ red' = [b \in Blocks |-> red'[b]] /\ red'[0] = [v \in Lanes |-> red'[0][v]]
        /\ red'[0][w] = x /\ \A v \in Lanes : v # w => red'[0][v] = red[0][v]
    BY <1>1, <1>2, <2>1, RecordSet
  <2> QED
    BY <2>3, <2>4 DEF s
<1>a. red'[0][w].at = "done" /\ red'[0][w].stride = r.stride /\ red'[0][w].out = out
  <2> HIDE DEF out, r
  <2> QED
    BY <1>6
<1>7. \A l \in Promised(w) : out[l] = BlockTotal(Sem, i, use.warps)
  <2>1. Aggregated(Sem, i, agg, use.warps) /\ Sem \in Semantics /\ use.warps \in 1 .. kWarpSize
    BY <1>1, <1>3, <1>5, FoldReads, UseFacts
  <2>2. /\ FoldSerial(Sem, agg, use.warps) = BlockTotal(Sem, i, use.warps)
        /\ FoldWarp(Sem, agg, use.warps) = BlockTotal(Sem, i, use.warps)
        /\ FoldAuto(Sem, agg, use.warps) = BlockTotal(Sem, i, use.warps)
    BY <1>4, <2>1, FoldSerialTotal, FoldWarpTotal, FoldAutoTotal
  <2>3. r.c.fn = use.fn /\ r.c.warps = use.warps /\ r.tag = Sem
    BY <1>5 DEF CallOf
  <2> HIDE DEF r, agg
  <2>4. use.fn \in {"Reduce", "AllReduce", "Shfl"} \cup DoubleBuffered
    BY <1>1, UseFacts
  <2>5. \A l \in Promised(w) : /\ l \in Lanes
                               /\ use.fn \in {"Reduce", "Shfl"} => w = 0 /\ l = 0
    BY <1>5 DEF Promised, UseTag, DoubleBuffered
  <2>6. CASE use.fn = "Reduce"
    BY <2>2, <2>3, <2>5, <2>6 DEF Folded
  <2>7. CASE use.fn = "Shfl"
    BY <2>2, <2>3, <2>5, <2>7 DEF Folded
  <2>8. CASE use.fn = "AllReduceSerial"
    BY <2>2, <2>3, <2>5, <2>8 DEF Folded
  <2>9. CASE use.fn = "AllReduceW"
    BY <2>2, <2>3, <2>5, <2>9 DEF Folded
  <2>10. CASE use.fn \in {"AllReduce", "AllReduceDB"}
    BY <2>2, <2>3, <2>5, <2>10 DEF Folded
  <2> QED
    BY <2>4, <2>6, <2>7, <2>8, <2>9, <2>10 DEF DoubleBuffered
<1> HIDE DEF out
<1>8. Shape'
  BY <1>1, <1>3, <1>6 DEF Shape
<1>9. \A v \in Warps : v # w => LeftAlone(v)
  BY <1>2, <1>3, <1>6 DEF LeftAlone
<1>10. Running(w)'
  <2>1. CallOf(w)' = CallOf(w) /\ UseTag' = UseTag
    BY <1>3 DEF CallOf, UseTag, Tag
  <2>2. red'[0][w] = [at |-> red'[0][w].at, c |-> CallOf(w)', tag |-> UseTag',
                      stride |-> red'[0][w].stride, out |-> red'[0][w].out]
    <3> HIDE DEF r
    <3> QED
      BY <1>6, <1>a, <2>1
  <2>3. turn'[w].at = "call" /\ turn'[w].it \in CallNumbers
    BY <1>3, <1>4 DEF Running
  <2> QED
    BY <1>a, <2>2, <2>3 DEF Running, Stages
<1>11. TagEpoch(w)' = TagEpoch(w)
  BY <1>3, <1>a DEF TagEpoch
<1>12. Holds(w)'
  <2>1. Sem' = Sem /\ UseTag' = UseTag /\ Promised(w)' = Promised(w)
    BY <1>3 DEF Sem, UseTag, Tag, Promised
  <2>2. \A j \in Int : Published(w, j)' = Published(w, j)
    BY <1>3, <2>1 DEF Published, Side
  <2>3. Publishes(w)'
    <3>1. i \in Int /\ Publishes(w)
      BY <1>2, <1>5 DEF CubInv, Holds
    <3> QED
      BY <1>3, <1>a, <2>2, <3>1 DEF Publishes, Stages
  <2>4. Returns(w)'
    BY <1>3, <1>a, <1>7, <2>1 DEF Returns
  <2> QED
    BY <1>5, <2>1, <2>3, <2>4 DEF Holds
<1> QED
  BY <1>2, <1>3, <1>5, <1>8, <1>9, <1>10, <1>11, <1>12, OneMoves

\* At stride 2 * s the upper half of the scratch is what every warp left there, and at
\* stride 1 its first element is the total.
LEMMA TreeReads ==
  ASSUME CubInv, NEW w \in Warps, red[0][w].at = "fold", UseTag = "generic",
         NEW v \in Warps
  PROVE  /\ \A s \in Nat \ {0}, t \in ThreadsOf(v) :
              red[0][w].stride = 2 * s /\ s <= t /\ t < 2 * s
                => generic_buf[0][t] = Level(turn[w].it, 2 * s, t)
         /\ red[0][w].stride = 1 /\ v = 0 => generic_buf[0][0] = Level(turn[w].it, 1, 0)
<1> DEFINE i == turn[w].it
           j == turn[v].it
           a == red[0][v].at
           g == turn[v].at
           d == red[0][w].stride
           e == red[0][v].stride
           B == BlockThreads
<1>1. use \in Uses /\ CubTypes
  BY DEF CubInv, CubTypes
<1>2. /\ i \in Nat /\ j \in Nat /\ g \in {"call", "guard"} /\ B \in Nat \ {0}
      /\ a \in {"idle", "sync", "fold", "done"}
      /\ \A t \in ThreadsOf(v) : t \in Nat
      /\ v = 0 => 0 \in ThreadsOf(v)
  <2>1. i \in Nat /\ j \in Nat /\ g \in {"call", "guard"} /\ v \in Lanes
    BY <1>1, WarpsAre
  <2>2. a \in {"idle", "sync", "fold", "done"}
    BY <1>1, WarpsAre DEF Running, Stages
  <2> QED
    BY <1>1, <2>1, <2>2, BlockFacts, LaneOf
<1>3. Grows(w) /\ Grows(v) /\ TreeEpoch(v) = TreeEpoch(w)
  BY DEF CubInv, Holds, Abreast
<1>4. d \in 1 .. B /\ (a # "idle" => e \in 1 .. B) /\ (a = "done" => e = 1)
  BY <1>2, <1>3 DEF Grows, Stages
<1>5. TreeEpoch(w) = <<i, d>>
  BY DEF TreeEpoch
<1>6. CASE a = "idle" /\ g = "call"
  <2>1. <<j, 2 * B>> = <<i, d>>
    BY <1>3, <1>5, <1>6 DEF TreeEpoch
  <2> HIDE DEF B, d, i, j
  <2>2. 2 * B = d
    BY <2>1
  <2> QED
    BY <1>2, <1>4, <2>2
<1>7. CASE a = "idle" /\ g = "guard"
  <2>1. <<j - 1, 1>> = <<i, d>>
    BY <1>3, <1>5, <1>7 DEF TreeEpoch
  <2>2. j - 1 = i /\ d = 1
    BY <2>1
  <2>3. v = 0 => generic_buf[0][0] = Level(i, 1, 0)
    BY <1>3, <1>7, <2>2 DEF Grows
  <2> HIDE DEF d, i
  <2>4. \A s \in Nat \ {0} : d # 2 * s
    BY <2>2
  <2> QED
    BY <2>3, <2>4 DEF d, i
<1>8. CASE a = "sync"
  <2>1. <<j, 2 * e>> = <<i, d>>
    BY <1>3, <1>5, <1>8 DEF TreeEpoch
  <2>2. j = i /\ 2 * e = d
    BY <2>1
  <2>3. \A t \in ThreadsOf(v) : e <= t /\ t < 2 * e => generic_buf[0][t] = Level(i, 2 * e, t)
    BY <1>3, <1>8, <2>2 DEF Grows
  <2> HIDE DEF d, i, e, a
  <2>4. d # 1 /\ \A s \in Nat \ {0} : d = 2 * s => s = e
    BY <1>2, <1>4, <1>8, <2>2
  <2> QED
    BY <2>3, <2>4 DEF d, i
<1>9. CASE a = "fold"
  <2>1. <<j, e>> = <<i, d>>
    BY <1>3, <1>5, <1>9 DEF TreeEpoch
  <2>2. j = i /\ e = d
    BY <2>1
  <2>3. \A t \in ThreadsOf(v) : t < d => generic_buf[0][t] = Level(i, d, t)
    BY <1>3, <1>9, <2>2 DEF Grows, Stages
  <2>4. d = 1 /\ v = 0 => generic_buf[0][0] = Level(i, 1, 0)
    BY <1>2, <2>3
  <2> QED
    BY <2>3, <2>4
<1>10. CASE a = "done"
  <2>1. <<j, 1>> = <<i, d>>
    BY <1>3, <1>5, <1>10 DEF TreeEpoch
  <2>2. j = i /\ d = 1 /\ e = 1
    BY <1>4, <1>10, <2>1
  <2>3. \A t \in ThreadsOf(v) : t < 1 => generic_buf[0][t] = Level(i, 1, t)
    BY <1>3, <1>10, <2>2 DEF Grows, Stages
  <2>4. v = 0 => generic_buf[0][0] = Level(i, 1, 0)
    BY <1>2, <2>3
  <2> HIDE DEF d, i
  <2>5. \A s \in Nat \ {0} : d # 2 * s
    BY <2>2
  <2> QED
    BY <2>4, <2>5 DEF d, i
<1> QED
  BY <1>2, <1>6, <1>7, <1>8, <1>9, <1>10

\* The last level is the total of the block.
LEMMA LevelOne ==
  ASSUME use \in Uses, NEW i
  PROVE  Level(i, 1, 0) = BlockTotal(Sem, i, use.warps)
<1>1. Class(0, BlockThreads, 1, 0) = 0 .. 0 + (BlockThreads - 1) /\ BlockThreads \in Nat \ {0}
  BY BlockFacts, ClassOne
<1>2. 0 + (BlockThreads - 1) = BlockThreads - 1
  BY <1>1
<1> QED
  BY <1>1, <1>2 DEF Level, BlockTotal, BlockThreads

\* The steps of one warp of the tree, up to the invariant of that warp.
LEMMA TreeFacts ==
  ASSUME CubInv, NEW w \in Warps, Tree(0, w), UNCHANGED callVars
  PROVE  /\ use \in Uses /\ CubTypes /\ Shape /\ use' = use /\ turn' = turn
         /\ w \in Lanes /\ turn[w].it \in Nat /\ turn[w].it \in CallNumbers
         /\ turn \in [0 .. use.warps - 1 -> [it : 0 .. Calls, at : {"call", "guard"}]]
         /\ UseTag = "generic" /\ red[0][w].at = "fold" /\ Running(w) /\ Grows(w)
         /\ red[0][w].stride \in 1 .. BlockThreads /\ Halves(red[0][w].stride)
         /\ red[0][w].c.op.sem = Sem
         /\ \A v \in Warps : v \in Lanes
         /\ warp_aggregates' = warp_aggregates
<1>1. use \in Uses /\ CubTypes /\ Shape
  BY DEF CubInv, CubTypes
<1>2. /\ red[0][w].at = "fold" /\ red[0][w].tag = "generic" /\ use' = use /\ turn' = turn
      /\ warp_aggregates' = warp_aggregates
  BY DEF Tree, callVars
<1>3. /\ w \in Lanes /\ turn[w].it \in Nat /\ Running(w) /\ \A v \in Warps : v \in Lanes
      /\ turn \in [0 .. use.warps - 1 -> [it : 0 .. Calls, at : {"call", "guard"}]]
  BY <1>1, <1>2, WarpsAre DEF CubTypes
<1>4. red[0][w].c = CallOf(w) /\ red[0][w].tag = UseTag
  <2> DEFINE y == red[0][w]
             a == y.at
             s == y.stride
             o == y.out
             cw == CallOf(w)
  <2>1. y = [at |-> a, c |-> cw, tag |-> UseTag, stride |-> s, out |-> o]
    BY <1>3 DEF Running
  <2> HIDE DEF y, a, s, o, cw
  <2>2. y.c = cw /\ y.tag = UseTag
    BY <2>1
  <2> QED
    BY <2>2 DEF y, cw
<1>5. UseTag = "generic" /\ Grows(w)
  BY <1>2, <1>4 DEF CubInv, Holds
<1>6. red[0][w].stride \in 1 .. BlockThreads /\ Halves(red[0][w].stride)
  BY <1>2, <1>5 DEF Grows, Stages
<1>7. red[0][w].c.op.sem = Sem
  BY <1>4 DEF CallOf, Sem
<1> QED
  BY <1>1, <1>2, <1>3, <1>5, <1>6, <1>7 DEF Running

\* A level of the tree combines each thread below the stride with the one a stride above.
LEMMA TreeLevel ==
  ASSUME CubInv, NEW w \in Warps, Tree(0, w), UNCHANGED callVars, red[0][w].stride # 1
  PROVE  CubInv'
<1> DEFINE i == turn[w].it
           r == red[0][w]
           s == red[0][w].stride \div 2
           buf == generic_buf[0]
<1>1. /\ use \in Uses /\ CubTypes /\ Shape /\ use' = use /\ turn' = turn
      /\ w \in Lanes /\ i \in Nat /\ i \in CallNumbers
      /\ turn \in [0 .. use.warps - 1 -> [it : 0 .. Calls, at : {"call", "guard"}]]
      /\ UseTag = "generic" /\ r.at = "fold" /\ Running(w) /\ Grows(w)
      /\ r.stride \in 1 .. BlockThreads /\ Halves(r.stride) /\ r.c.op.sem = Sem
      /\ \A v \in Warps : v \in Lanes
      /\ warp_aggregates' = warp_aggregates
  BY TreeFacts
<1>2. /\ BlockThreads \in Nat \ {0} /\ ThreadsOf(w) \subseteq 0 .. BlockThreads - 1
      /\ 0 .. BlockThreads - 1 \subseteq AllThreads /\ Sem \in Semantics
      /\ \A t \in 0 .. BlockThreads - 1 : \E v \in Warps : t \in ThreadsOf(v)
  <2>1. Warps = 0 .. use.warps - 1
    BY <1>1, WarpsAre
  <2> QED
    BY <1>1, <2>1, BlockFacts, UseFacts
<1>3. s \in Nat \ {0} /\ r.stride = 2 * s /\ s < r.stride /\ Halves(s)
  <2>1. r.stride \in Nat \ {0}
    BY <1>1, <1>2
  <2> QED
    BY <1>1, <2>1, HalvesOnce
<1>4. /\ generic_buf' = [generic_buf EXCEPT ![0] =
            [t \in DOMAIN @ |-> IF t \in ThreadsOf(w) /\ t < s THEN Apply(Sem, @[t], @[t + s]) ELSE @[t]]]
      /\ red' = [red EXCEPT ![0][w] = [r EXCEPT !.at = "sync", !.stride = s]]
  <2>1. s > 0
    BY <1>3
  <2> QED
    BY <1>1, <2>1 DEF Tree
<1> HIDE DEF s
<1>5. /\ red' = [b \in Blocks |-> red'[b]] /\ red'[0] = [v \in Lanes |-> red'[0][v]]
      /\ red'[0][w] = [at |-> "sync", c |-> CallOf(w), tag |-> UseTag, stride |-> s, out |-> r.out]
      /\ \A v \in Lanes : v # w => red'[0][v] = red[0][v]
  <2> DEFINE x == [r EXCEPT !.at = "sync", !.stride = s]
             d == r.stride
             o == r.out
             a == r.at
             cw == CallOf(w)
  <2>1. red' = [red EXCEPT ![0][w] = x]
    BY <1>4
  <2>2. r = [at |-> a, c |-> cw, tag |-> UseTag, stride |-> d, out |-> o]
    BY <1>1 DEF Running
  <2> HIDE DEF r, d, o, a, cw
  <2>3. x = [[at |-> a, c |-> cw, tag |-> UseTag, stride |-> d, out |-> o]
               EXCEPT !.at = "sync", !.stride = s]
    BY <2>2
  <2> HIDE DEF x
  <2>4. x = [at |-> "sync", c |-> cw, tag |-> UseTag, stride |-> s, out |-> o]
    BY <2>3
  <2>5. /\ red' = [b \in Blocks |-> red'[b]] /\ red'[0] = [v \in Lanes |-> red'[0][v]]
        /\ red'[0][w] = x /\ \A v \in Lanes : v # w => red'[0][v] = red[0][v]
    BY <1>1, <2>1, RecordSet
  <2> QED
    BY <2>4, <2>5 DEF o, cw
<1>6. red'[0][w].at = "sync" /\ red'[0][w].stride = s /\ red'[0][w].out = r.out
  <2> HIDE DEF r
  <2> QED
    BY <1>5
<1>7. /\ generic_buf' = [b \in Blocks |-> generic_buf'[b]]
      /\ generic_buf'[0] = [t \in AllThreads |->
            IF t \in ThreadsOf(w) /\ t < s THEN Apply(Sem, buf[t], buf[t + s]) ELSE buf[t]]
  BY <1>1, <1>4, CallsAssumption DEF Shape
<1>8. generic_buf'[0] = [t \in AllThreads |-> generic_buf'[0][t]]
  BY <1>7
<1>9. Shape'
  BY <1>1, <1>5, <1>7, <1>8 DEF Shape
<1>10. ASSUME NEW v \in Warps, v # w
       PROVE  LeftAlone(v)
  <2>1. v \in Lanes
    BY <1>1
  <2>2. \A t \in ThreadsOf(v) : t \in AllThreads /\ t \notin ThreadsOf(w)
    BY <1>1, <1>10, <2>1, LaneOf, ThreadsApart
  <2>3. \A t \in ThreadsOf(v) : generic_buf'[0][t] = generic_buf[0][t]
    BY <1>7, <2>2
  <2> QED
    BY <1>1, <1>5, <1>10, <2>1, <2>3 DEF LeftAlone
<1>11. Running(w)'
  <2>1. CallOf(w)' = CallOf(w) /\ UseTag' = UseTag
    BY <1>1 DEF CallOf, UseTag, Tag
  <2>2. red'[0][w] = [at |-> red'[0][w].at, c |-> CallOf(w)', tag |-> UseTag',
                      stride |-> red'[0][w].stride, out |-> red'[0][w].out]
    <3> HIDE DEF r
    <3> QED
      BY <1>5, <1>6, <2>1
  <2>3. turn'[w].at = "call" /\ turn'[w].it \in CallNumbers
    BY <1>1 DEF Running
  <2> QED
    BY <1>6, <2>2, <2>3 DEF Running, Stages
<1>12. TreeEpoch(w)' = TreeEpoch(w)
  <2>1. TreeEpoch(w) = <<i, 2 * s>>
    BY <1>1, <1>3 DEF TreeEpoch
  <2>2. TreeEpoch(w)' = <<i, 2 * s>>
    BY <1>1, <1>6 DEF TreeEpoch
  <2> QED
    BY <2>1, <2>2
<1>13. \A t \in ThreadsOf(w) : t \in Nat /\ t \in AllThreads
  BY <1>1, LaneOf
<1>14. ASSUME NEW t \in ThreadsOf(w), t < s
       PROVE  generic_buf'[0][t] = Level(i, s, t)
  <2>1. generic_buf'[0][t] = Apply(Sem, buf[t], buf[t + s])
    BY <1>7, <1>13, <1>14
  <2>2. buf[t] = Level(i, 2 * s, t)
    <3>1. t < 2 * s
      BY <1>3, <1>13, <1>14
    <3> QED
      BY <1>1, <1>3, <3>1 DEF Grows, Stages
  <2>3. buf[t + s] = Level(i, 2 * s, t + s)
    <3> DEFINE x == t + s
    <3>1. x \in 0 .. BlockThreads - 1 /\ s <= x /\ x < 2 * s
      BY <1>1, <1>2, <1>3, <1>13, <1>14
    <3> HIDE DEF x
    <3>2. PICK v \in Warps : x \in ThreadsOf(v)
      BY <1>2, <3>1
    <3>3. buf[x] = Level(i, 2 * s, x)
      BY <1>1, <1>3, <3>1, <3>2, TreeReads
    <3> QED
      BY <3>3 DEF x
  <2>4. Apply(Sem, Level(i, 2 * s, t), Level(i, 2 * s, t + s)) = Level(i, s, t)
    <3> DEFINE f == Sem
               M == BlockThreads
    <3>1. /\ f \in Semantics /\ i \in CallNumbers /\ 0 \in Nat /\ M \in Nat \ {0}
          /\ s \in Nat \ {0} /\ t \in Int
      BY <1>1, <1>2, <1>3, <1>13
    <3> HIDE DEF f, M, i
    <3>2. Apply(f, Total(f, i, Class(0, M, 2 * s, t)), Total(f, i, Class(0, M, 2 * s, t + s)))
            = Total(f, i, Class(0, M, s, t))
      BY <3>1, ClassTotal
    <3> QED
      BY <3>2 DEF Level, f, M
  <2> QED
    BY <2>1, <2>2, <2>3, <2>4
<1>15. ASSUME NEW t \in ThreadsOf(w), s <= t, t < 2 * s
       PROVE  generic_buf'[0][t] = Level(i, 2 * s, t)
  <2>1. ~(t < s)
    BY <1>3, <1>13, <1>15
  <2>2. generic_buf'[0][t] = buf[t]
    BY <1>7, <1>13, <2>1
  <2>3. buf[t] = Level(i, 2 * s, t)
    BY <1>1, <1>3, <1>15 DEF Grows, Stages
  <2> QED
    BY <2>2, <2>3
<1>16. Holds(w)'
  <2>1. Sem' = Sem /\ UseTag' = UseTag /\ BlockThreads' = BlockThreads
    BY <1>1 DEF Sem, UseTag, Tag, BlockThreads
  <2>2. \A j, d, t : Level(j, d, t)' = Level(j, d, t)
    BY <2>1 DEF Level
  <2>3. s \in 1 .. BlockThreads
    BY <1>1, <1>2, <1>3
  <2>4. Grows(w)'
    BY <1>1, <1>3, <1>6, <1>14, <1>15, <2>1, <2>2, <2>3 DEF Grows
  <2>5. Returns(w)'
    BY <1>6 DEF Returns
  <2> QED
    BY <1>1, <2>1, <2>4, <2>5 DEF Holds
<1> QED
  BY <1>1, <1>9, <1>10, <1>11, <1>12, <1>16, OneMoves

\* When the stride is spent every thread reads the total.
LEMMA TreeEnd ==
  ASSUME CubInv, NEW w \in Warps, Tree(0, w), UNCHANGED callVars, red[0][w].stride = 1
  PROVE  CubInv'
<1> DEFINE i == turn[w].it
           r == red[0][w]
           out == [l \in Lanes |-> generic_buf[0][0]]
<1>1. /\ use \in Uses /\ CubTypes /\ Shape /\ use' = use /\ turn' = turn
      /\ w \in Lanes /\ i \in Nat /\ i \in CallNumbers
      /\ turn \in [0 .. use.warps - 1 -> [it : 0 .. Calls, at : {"call", "guard"}]]
      /\ UseTag = "generic" /\ r.at = "fold" /\ Running(w) /\ Grows(w)
      /\ r.stride \in 1 .. BlockThreads /\ Halves(r.stride) /\ r.c.op.sem = Sem
      /\ \A v \in Warps : v \in Lanes
      /\ warp_aggregates' = warp_aggregates
  BY TreeFacts
<1>2. /\ red' = [red EXCEPT ![0][w] = [r EXCEPT !.at = "done", !.out = out]]
      /\ generic_buf' = generic_buf
  <2>1. red[0][w].stride \div 2 = 0
    OBVIOUS
  <2> QED
    BY <2>1 DEF Tree
<1>3. \A l \in Lanes : out[l] = BlockTotal(Sem, i, use.warps)
  <2>1. 0 \in Warps
    BY <1>1, WarpsAre
  <2>2. generic_buf[0][0] = Level(i, 1, 0)
    BY <1>1, <2>1, TreeReads
  <2> QED
    BY <1>1, <2>2, LevelOne
<1> HIDE DEF out
<1>5. /\ red' = [b \in Blocks |-> red'[b]] /\ red'[0] = [v \in Lanes |-> red'[0][v]]
      /\ red'[0][w] = [at |-> "done", c |-> CallOf(w), tag |-> UseTag, stride |-> r.stride, out |-> out]
      /\ \A v \in Lanes : v # w => red'[0][v] = red[0][v]
  <2> DEFINE x == [r EXCEPT !.at = "done", !.out = out]
             d == r.stride
             o == r.out
             a == r.at
             cw == CallOf(w)
  <2>1. red' = [red EXCEPT ![0][w] = x]
    BY <1>2
  <2>2. r = [at |-> a, c |-> cw, tag |-> UseTag, stride |-> d, out |-> o]
    BY <1>1 DEF Running
  <2> HIDE DEF r, d, o, a, cw
  <2>3. x = [[at |-> a, c |-> cw, tag |-> UseTag, stride |-> d, out |-> o]
               EXCEPT !.at = "done", !.out = out]
    BY <2>2
  <2> HIDE DEF x
  <2>4. x = [at |-> "done", c |-> cw, tag |-> UseTag, stride |-> d, out |-> out]
    BY <2>3
  <2>5. /\ red' = [b \in Blocks |-> red'[b]] /\ red'[0] = [v \in Lanes |-> red'[0][v]]
        /\ red'[0][w] = x /\ \A v \in Lanes : v # w => red'[0][v] = red[0][v]
    BY <1>1, <2>1, RecordSet
  <2> QED
    BY <2>4, <2>5 DEF d, cw
<1>6. red'[0][w].at = "done" /\ red'[0][w].stride = 1 /\ red'[0][w].out = out
  <2>1. r.stride = 1
    OBVIOUS
  <2> HIDE DEF r
  <2> QED
    BY <1>5, <2>1
<1>7. Shape'
  BY <1>1, <1>2, <1>5 DEF Shape
<1>8. \A v \in Warps : v # w => LeftAlone(v)
  BY <1>1, <1>2, <1>5 DEF LeftAlone
<1>9. Running(w)'
  <2>1. CallOf(w)' = CallOf(w) /\ UseTag' = UseTag
    BY <1>1 DEF CallOf, UseTag, Tag
  <2>2. red'[0][w] = [at |-> red'[0][w].at, c |-> CallOf(w)', tag |-> UseTag',
                      stride |-> red'[0][w].stride, out |-> red'[0][w].out]
    <3> HIDE DEF r
    <3> QED
      BY <1>5, <1>6, <2>1
  <2>3. turn'[w].at = "call" /\ turn'[w].it \in CallNumbers
    BY <1>1 DEF Running
  <2> QED
    BY <1>6, <2>2, <2>3 DEF Running, Stages
<1>10. TreeEpoch(w)' = TreeEpoch(w)
  BY <1>1, <1>6 DEF TreeEpoch
<1>11. Holds(w)'
  <2>1. Sem' = Sem /\ UseTag' = UseTag /\ BlockThreads' = BlockThreads /\ Promised(w)' = Promised(w)
    BY <1>1 DEF Sem, UseTag, Tag, BlockThreads, Promised
  <2>2. \A j, d, t : Level(j, d, t)' = Level(j, d, t)
    BY <2>1 DEF Level
  <2>3. \A t \in ThreadsOf(w) : t < 1 => generic_buf[0][t] = Level(i, 1, t)
    BY <1>1 DEF Grows, Stages
  <2>4. 1 \in 1 .. BlockThreads /\ Halves(1)
    BY <1>1
  <2>5. Grows(w)'
    BY <1>1, <1>2, <1>6, <2>1, <2>2, <2>3, <2>4 DEF Grows, Stages
  <2>6. \A l \in Promised(w) : l \in Lanes
    BY DEF Promised
  <2>7. Returns(w)'
    BY <1>1, <1>3, <1>6, <2>1, <2>6 DEF Returns
  <2> QED
    BY <1>1, <2>1, <2>5, <2>7 DEF Holds
<1> QED
  BY <1>1, <1>7, <1>8, <1>9, <1>10, <1>11, OneMoves

LEMMA ReturnMoves ==
  ASSUME CubInv, NEW w \in Warps, CallReturn(w)
  PROVE  CubInv'
<1> DEFINE i == turn[w].it
<1>1. use \in Uses /\ CubTypes /\ Shape
  BY DEF CubInv, CubTypes
<1>2. /\ red[0][w].at = "done" /\ red' = [red EXCEPT ![0][w] = Idle]
      /\ turn' = [turn EXCEPT ![w] = [it |-> @.it + 1, at |-> IF use.guard THEN "guard" ELSE "call"]]
      /\ use' = use /\ warp_aggregates' = warp_aggregates /\ generic_buf' = generic_buf
  BY DEF CallReturn
<1>3. /\ Warps = 0 .. use.warps - 1 /\ w \in Lanes /\ i \in Nat /\ Running(w)
      /\ turn \in [0 .. use.warps - 1 -> [it : 0 .. Calls, at : {"call", "guard"}]]
      /\ \A v \in Warps : v \in Lanes
  BY <1>1, <1>2, WarpsAre DEF CubTypes
<1>4. i + 1 \in 0 .. Calls /\ i + 1 > 0 /\ (i + 1) - 1 = i
  <2>1. i \in 0 .. Calls - 1
    BY <1>3 DEF Running, CallNumbers
  <2> QED
    BY <2>1, CallsAssumption
<1>5. /\ red' = [b \in Blocks |-> red'[b]] /\ red'[0] = [v \in Lanes |-> red'[0][v]]
      /\ red'[0][w] = Idle /\ \A v \in Lanes : v # w => red'[0][v] = red[0][v]
  BY <1>1, <1>2, <1>3, RecordSet
<1>6. /\ turn'[w] = [it |-> i + 1, at |-> IF use.guard THEN "guard" ELSE "call"]
      /\ turn' \in [0 .. use.warps - 1 -> [it : 0 .. Calls, at : {"call", "guard"}]]
      /\ \A v \in Warps : v # w => turn'[v] = turn[v]
  <2> DEFINE x == [it |-> i + 1, at |-> IF use.guard THEN "guard" ELSE "call"]
  <2>1. turn' = [turn EXCEPT ![w] = x] /\ x \in [it : 0 .. Calls, at : {"call", "guard"}]
    BY <1>2, <1>4
  <2> HIDE DEF x
  <2>2. turn'[w] = x /\ \A v \in Warps : v # w => turn'[v] = turn[v]
    BY <1>3, <2>1
  <2>3. turn' \in [0 .. use.warps - 1 -> [it : 0 .. Calls, at : {"call", "guard"}]]
    BY <1>3, <2>1
  <2> QED
    BY <2>2, <2>3 DEF x
<1>7. turn'[w].it = i + 1 /\ turn'[w].at = IF use.guard THEN "guard" ELSE "call"
  BY <1>6
<1>8. Shape'
  BY <1>1, <1>2, <1>5 DEF Shape
<1>9. \A v \in Warps : v # w => LeftAlone(v)
  BY <1>2, <1>3, <1>5, <1>6 DEF LeftAlone
<1>10. Between(w)'
  BY <1>2, <1>4, <1>5, <1>7 DEF Between
<1>11. UseTag' = UseTag /\ Sem' = Sem /\ BlockThreads' = BlockThreads
  BY <1>2 DEF UseTag, Tag, Sem, BlockThreads
<1>12. red'[0][w].at = "idle"
  BY <1>5 DEF Idle
<1>13. TagEpoch(w)' = TagEpoch(w)
  BY <1>2, <1>4, <1>7, <1>12 DEF TagEpoch
<1>14. UseTag = "generic" => TreeEpoch(w)' = TreeEpoch(w)
  <2> SUFFICES ASSUME UseTag = "generic" PROVE TreeEpoch(w)' = TreeEpoch(w)
    OBVIOUS
  <2>1. turn'[w].at = "guard"
    BY <1>1, <1>7, UseFacts
  <2>2. TreeEpoch(w)' = <<turn'[w].it - 1, 1>>
    BY <1>12, <2>1 DEF TreeEpoch
  <2>3. TreeEpoch(w) = <<i, 1>>
    BY <1>2 DEF TreeEpoch
  <2> QED
    BY <1>4, <1>7, <2>2, <2>3
<1>15. Holds(w)'
  <2>1. \A j \in Int : Published(w, j)' = Published(w, j)
    BY <1>2, <1>11 DEF Published, Side
  <2>2. UseTag # "generic" => Publishes(w)'
    <3> SUFFICES ASSUME UseTag # "generic" PROVE Publishes(w)'
      OBVIOUS
    <3>1. use.warps # 1 => Published(w, i)
      BY <1>2 DEF CubInv, Holds, Publishes, Stages
    <3>2. \A j \in Int : j = i /\ use.warps # 1 => Published(w, j)'
      BY <2>1, <3>1
    <3>3. turn'[w].it - 1 \in Int /\ turn'[w].it - 1 = i
      BY <1>3, <1>4, <1>7
    <3> QED
      BY <1>2, <1>12, <3>2, <3>3 DEF Publishes, Stages
  <2>3. UseTag = "generic" => Grows(w)'
    <3> SUFFICES ASSUME UseTag = "generic" PROVE Grows(w)'
      OBVIOUS
    <3>1. w = 0 => generic_buf[0][0] = Level(i, 1, 0)
      <4> SUFFICES ASSUME w = 0 PROVE generic_buf[0][0] = Level(i, 1, 0)
        OBVIOUS
      <4>1. 0 \in ThreadsOf(w) /\ Grows(w)
        BY <1>1, BlockFacts DEF CubInv, Holds
      <4>2. red[0][w].stride = 1
        BY <1>2, <4>1 DEF Grows
      <4> QED
        BY <1>2, <4>1, <4>2 DEF Grows, Stages
    <3>2. w = 0 => generic_buf'[0][0] = Level(turn'[w].it - 1, 1, 0)
      BY <1>2, <1>4, <1>7, <3>1
    <3>3. \A j, s, t : Level(j, s, t)' = Level(j, s, t)
      BY <1>11 DEF Level
    <3> QED
      BY <1>12, <3>2, <3>3 DEF Grows, Stages
  <2>4. Returns(w)'
    BY <1>12 DEF Returns
  <2> QED
    BY <1>11, <2>2, <2>3, <2>4 DEF Holds
<1> QED
  BY <1>2, <1>6, <1>7, <1>8, <1>9, <1>10, <1>13, <1>14, <1>15, OneMoves

\* The caller's barrier.
LEMMA GuardMoves ==
  ASSUME CubInv, Guard
  PROVE  CubInv'
<1>1. use \in Uses /\ CubTypes /\ Shape
  BY DEF CubInv, CubTypes
<1>2. /\ \A w \in Warps : turn[w].at = "guard"
      /\ turn' = [w \in Warps |-> [turn[w] EXCEPT !.at = "call"]]
      /\ use' = use /\ red' = red /\ warp_aggregates' = warp_aggregates /\ generic_buf' = generic_buf
  BY DEF Guard, redVars
<1>3. /\ Warps = 0 .. use.warps - 1 /\ Warps' = Warps
      /\ \A w \in Warps : turn[w].it \in 0 .. Calls /\ turn[w].it \in Nat
      /\ \A w \in Warps : Between(w) /\ red[0][w].at = "idle"
  <2>1. Warps' = Warps
    BY <1>2 DEF Warps
  <2>2. ASSUME NEW w \in Warps
        PROVE  Between(w) /\ red[0][w].at = "idle"
    <3>1. ~ Running(w)
      BY <1>2 DEF Running
    <3>2. Between(w)
      BY <1>1, <3>1 DEF CubTypes
    <3> QED
      BY <3>2 DEF Between, Idle
  <2> QED
    BY <1>1, <2>1, <2>2, WarpsAre
<1>4. \A w \in Warps : turn'[w] = [it |-> turn[w].it, at |-> "call"]
  <2>1. \A w \in Warps : turn[w] = [it |-> turn[w].it, at |-> turn[w].at]
    BY <1>1, WarpsAre
  <2> TAKE w \in Warps
  <2> DEFINE y == turn[w]
             i == turn[w].it
             a == turn[w].at
  <2>2. y = [it |-> i, at |-> a] /\ turn'[w] = [y EXCEPT !.at = "call"]
    BY <1>2, <2>1
  <2> HIDE DEF y, i, a
  <2>3. turn'[w] = [it |-> i, at |-> "call"]
    BY <2>2
  <2> QED
    BY <2>3 DEF i
<1>5. ASSUME NEW w \in Warps
      PROVE  turn'[w].it = turn[w].it /\ turn'[w].at = "call"
  <2> DEFINE y == turn'[w]
             i == turn[w].it
  <2>1. y = [it |-> i, at |-> "call"]
    BY <1>4
  <2> HIDE DEF y, i
  <2>2. y.it = i /\ y.at = "call"
    BY <2>1
  <2> QED
    BY <2>2 DEF y, i
<1>6. Shape'
  BY <1>1, <1>2 DEF Shape
<1>7. CubTypes'
  <2>1. turn' \in [0 .. use.warps - 1 -> [it : 0 .. Calls, at : {"call", "guard"}]]
    <3>1. turn' = [w \in 0 .. use.warps - 1 |-> turn'[w]]
      BY <1>2, <1>3
    <3>2. ASSUME NEW w \in 0 .. use.warps - 1
          PROVE  turn'[w] \in [it : 0 .. Calls, at : {"call", "guard"}]
      <4> DEFINE y == turn'[w]
                 i == turn[w].it
      <4>1. y = [it |-> i, at |-> "call"] /\ i \in 0 .. Calls
        BY <1>3, <1>4
      <4> HIDE DEF y, i
      <4>2. y \in [it : 0 .. Calls, at : {"call", "guard"}]
        BY <4>1
      <4> QED
        BY <4>2 DEF y
    <3> QED
      BY <3>1, <3>2
  <2>2. \A w \in Warps : Between(w)'
    BY <1>2, <1>3, <1>5 DEF Between
  <2> QED
    BY <1>1, <1>2, <1>3, <1>6, <2>1, <2>2 DEF CubTypes
<1>8. UseTag' = UseTag /\ Sem' = Sem /\ BlockThreads' = BlockThreads
  BY <1>2 DEF UseTag, Tag, Sem, BlockThreads
<1>9. \A v, w \in Warps : turn[v].it = turn[w].it
  <2> TAKE v, w \in Warps
  <2>1. CASE UseTag # "generic"
    <3>1. TagEpoch(v) = turn[v].it /\ TagEpoch(w) = turn[w].it
      BY <1>3 DEF TagEpoch
    <3> QED
      BY <2>1, <3>1 DEF CubInv, Abreast
  <2>2. CASE UseTag = "generic"
    <3>1. TreeEpoch(v) = <<turn[v].it - 1, 1>> /\ TreeEpoch(w) = <<turn[w].it - 1, 1>>
      BY <1>2, <1>3 DEF TreeEpoch
    <3>2. <<turn[v].it - 1, 1>> = <<turn[w].it - 1, 1>>
      BY <2>2, <3>1 DEF CubInv, Abreast
    <3>3. turn[v].it - 1 = turn[w].it - 1
      BY <3>2
    <3> QED
      BY <1>3, <3>3
  <2> QED
    BY <2>1, <2>2
<1>10. Abreast'
  <2>1. \A w \in Warps : /\ TagEpoch(w)' = turn[w].it
                         /\ TreeEpoch(w)' = <<turn[w].it, 2 * BlockThreads>>
    BY <1>2, <1>3, <1>5, <1>8 DEF TagEpoch, TreeEpoch
  <2> QED
    BY <1>3, <1>9, <2>1 DEF Abreast
<1>11. Waiting'
  <2>1. \A v, w \in Warps : ~(turn'[w].it > turn'[v].it)
    BY <1>3, <1>5, <1>9
  <2> QED
    BY <1>3, <2>1 DEF Waiting
<1>12. ASSUME NEW w \in Warps
       PROVE  Holds(w)'
  <2> DEFINE i == turn[w].it
  <2>1. Holds(w) /\ red'[0][w].at = "idle" /\ turn'[w].at = "call" /\ turn'[w].it = i /\ i \in Int
    BY <1>2, <1>3, <1>5 DEF CubInv
  <2>2. \A j \in Int : Published(w, j)' = Published(w, j)
    BY <1>2, <1>8 DEF Published, Side
  <2>3. UseTag # "generic" => Publishes(w)'
    <3> SUFFICES ASSUME UseTag # "generic" PROVE Publishes(w)'
      OBVIOUS
    <3>1. use.warps # 1 /\ i > 0 => Published(w, i - 1)
      BY <1>3, <2>1 DEF Holds, Publishes
    <3> QED
      BY <1>2, <2>1, <2>2, <3>1 DEF Publishes, Stages
  <2>4. Grows(w)'
    BY <2>1 DEF Grows, Stages
  <2>5. Returns(w)'
    BY <2>1 DEF Returns
  <2> QED
    BY <1>8, <2>3, <2>4, <2>5 DEF Holds
<1> QED
  BY <1>3, <1>7, <1>10, <1>11, <1>12 DEF CubInv

LEMMA CubStutters ==
  ASSUME CubInv, UNCHANGED <<redVars, callVars>>
  PROVE  CubInv'
<1>1. /\ warp_aggregates' = warp_aggregates /\ generic_buf' = generic_buf /\ red' = red
      /\ use' = use /\ turn' = turn
  BY DEF redVars, callVars
<1>2. use \in Uses /\ CubTypes /\ Warps' = Warps /\ UseTag' = UseTag
  BY <1>1 DEF CubInv, CubTypes, Warps, UseTag, Tag
<1>3. \A w \in Warps : w \in 0 .. use.warps - 1 /\ turn[w].it \in Nat
  BY <1>2, WarpsAre
<1>4. ASSUME NEW w \in Warps
      PROVE  /\ Holds(w)' /\ TagEpoch(w)' = TagEpoch(w) /\ TreeEpoch(w)' = TreeEpoch(w)
             /\ (Running(w)' \/ Between(w)')
  <2>1. LeftAlone(w) /\ Holds(w) /\ (Running(w) \/ Between(w))
    BY <1>1 DEF LeftAlone, CubInv, CubTypes
  <2> QED
    BY <1>1, <1>2, <1>3, <2>1, LeftAloneKeeps
<1>5. CubTypes'
  BY <1>1, <1>2, <1>4 DEF CubTypes, Shape
<1>6. Abreast'
  BY <1>2, <1>4 DEF CubInv, Abreast
<1>7. Waiting'
  BY <1>1, <1>2 DEF CubInv, Waiting
<1> QED
  BY <1>2, <1>4, <1>5, <1>6, <1>7 DEF CubInv

LEMMA CallsStep ==
  ASSUME CubInv, [CallsNext]_<<redVars, callVars>>
  PROVE  CubInv'
<1>1. ASSUME NEW w \in Warps, CallBegin(w)
      PROVE  CubInv'
  BY <1>1, BeginTagged, BeginTree
<1>2. ASSUME NEW w \in Warps, CallReturn(w)
      PROVE  CubInv'
  BY <1>2, ReturnMoves
<1>3. CASE RedStep(0, Warps) /\ UNCHANGED callVars
  <2>1. CASE Sync(0, Warps)
    BY <1>3, <2>1, SyncMoves
  <2>2. ASSUME NEW w \in Warps, Fold(0, w)
        PROVE  CubInv'
    BY <1>3, <2>2, FoldMoves
  <2>3. ASSUME NEW w \in Warps, Tree(0, w)
        PROVE  CubInv'
    BY <1>3, <2>3, TreeLevel, TreeEnd
  <2> QED
    BY <1>3, <2>1, <2>2, <2>3 DEF RedStep
<1>4. CASE Guard
  BY <1>4, GuardMoves
<1>5. CASE CallsDone
  BY <1>5, CubStutters DEF CallsDone
<1>6. CASE UNCHANGED <<redVars, callVars>>
  BY <1>6, CubStutters
<1> QED
  BY <1>1, <1>2, <1>3, <1>4, <1>5, <1>6 DEF CallsNext

(* Whatever number of warps and lanes, inputs, reducer and overload a loop  *)
(* that keeps the contract has: a call that returns hands every promised    *)
(* thread the reduction of the inputs of that very call (aclcub.hpp         *)
(* ReduceDispatch, AllReduceDispatch, AllReduceDB, Shfl).                   *)
THEOREM ReusedStorageIsExact == CallsSpec => []CallExact
<1>1. CubInv => CallExact
  <2> SUFFICES ASSUME CubInv, NEW w \in Warps, red[0][w].at = "done", NEW l \in Promised(w)
               PROVE  red[0][w].out[l] = Reference(turn[w].it)
    BY DEF CallExact
  <2>1. use \in Uses /\ CubTypes
    BY DEF CubInv, CubTypes
  <2>2. turn[w].it \in CallNumbers
    BY <2>1, WarpsAre DEF Running
  <2>3. use.op.sem \in Semantics /\ use.warps \in 1 .. kWarpSize
    BY <2>1, UseFacts DEF Sem
  <2>4. Reference(turn[w].it) = BlockTotal(use.op.sem, turn[w].it, use.warps)
    BY <2>2, <2>3, ReferenceTotal
  <2>5. red[0][w].out[l] = BlockTotal(Sem, turn[w].it, use.warps)
    BY DEF CubInv, Holds, Returns
  <2> QED
    BY <2>4, <2>5 DEF Sem
<1>2. CubInv /\ [CallsNext]_<<redVars, callVars>> => CubInv'
  BY CallsStep
<1> QED
  BY <1>1, <1>2, CallsStart, PTL DEF CallsSpec
=============================================================================
