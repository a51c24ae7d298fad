-------------------------- MODULE RuntimeLifecycle --------------------------
(***************************************************************************)
(* The lazy runtime lifecycle of translated programs                       *)
(* (include/ascify/ascify_cuda_compat.hpp): RuntimeManager, which starts   *)
(* ACL and binds devices on demand, ProfilerManager, which owns one        *)
(* collection session, and their cleanup from the process's exit stack.    *)
(*                                                                         *)
(* Every section under a RuntimeLock is one step: what it reads and writes *)
(* is guarded by that lock.  The steps between sections, and the ACL calls *)
(* of shutdown after its section, interleave with the other threads.  ACL  *)
(* and atexit are external and may fail wherever the code handles it.      *)
(***************************************************************************)
EXTENDS Naturals, Sequences, SequencesExt

CONSTANTS
  Threads, Main,   \* host threads; Main is the one that exits
  Devices, First,  \* device numbers; First is the default selection
  Capacity,        \* kTrackedDeviceCapacity
  MaxCalls,        \* bound on the calls of all threads
  Embedded         \* does an application initialise ACL by itself?

ASSUME LifecycleAssumption ==
  /\ Main \in Threads /\ First \in Devices
  /\ Capacity \in Nat \ {0} /\ MaxCalls \in Nat /\ Embedded \in BOOLEAN

VARIABLES
  acl,       \* who initialised ACL: "none", "app", "ascify", or "finalized"
  live,      \* devices bound in ACL
  built,     \* has aclrtSetDevice succeeded once in this process?
  ctx,       \* the current device of each thread, or None
  stack,     \* exit callbacks, the next to run first
  gone,      \* SDK exit state that has been destroyed
  lost,      \* devices whose reset failed
  mgr,       \* fields of RuntimeManager
  prof,      \* fields of ProfilerManager, which mirror the collector's state
  phase,     \* "run", "exit", "done"
  todo,      \* devices shutdown has still to reset
  finalize,  \* will shutdown finalize ACL?
  pc, op, arg, sel, ret,   \* per thread
  calls      \* calls made so far

None == "none"
aclVars == <<acl, live, built, ctx>>
exitVars == <<phase, todo, finalize>>
threadVars == <<pc, op, arg, sel, calls, ret>>
vars == <<acl, live, built, ctx, stack, gone, lost, mgr, prof, phase, todo, finalize,
          pc, op, arg, sel, calls, ret>>

Ops == {"set", "ready", "reset", "start", "stop"}
Init ==
  /\ acl = "none" /\ live = {} /\ built = FALSE /\ ctx = [t \in Threads |-> None]
  \* The destructor of the inline runtime_manager is registered before main.
  /\ stack = <<"mgr">> /\ gone = {} /\ lost = {}
  /\ mgr = [attempted |-> FALSE, owns |-> FALSE, shutdown |-> FALSE,
            deviceCleanup |-> FALSE, status |-> "ok", active |-> <<>>]
  /\ prof = [initialized |-> FALSE, config |-> FALSE, active |-> FALSE,
             registered |-> FALSE, failed |-> FALSE, device |-> None]
  /\ phase = "run" /\ todo = <<>> /\ finalize = FALSE
  /\ pc = [t \in Threads |-> "idle"] /\ op = [t \in Threads |-> "none"]
  /\ arg = [t \in Threads |-> First] /\ sel = [t \in Threads |-> First]
  /\ calls = 0 /\ ret = [t \in Threads |-> "none"]

-----------------------------------------------------------------------------
(* ACL and the exit stack (external) *)

Push(cb, s) == <<cb>> \o s

\* SetDevice builds SDK exit state until it has succeeded once.
AfterSetDevice(s) == IF built THEN s ELSE Push("sdk", s)

\* A reset takes the current device from every thread that has it.
Without(c, d) == [t \in Threads |-> IF c[t] = d THEN None ELSE c[t]]

AclSet(t, d) ==
  live' = live \cup {d} /\ ctx' = [ctx EXCEPT ![t] = d] /\ built' = TRUE

AclReset(d) ==
  live' = live \ {d} /\ ctx' = Without(ctx, d) /\ UNCHANGED built

\* aclrtSetDevice undone at once; a reset that fails loses the device.
AclSetAndReset(t, d) ==
  \/ /\ live' = live \ {d} /\ ctx' = Without([ctx EXCEPT ![t] = d], d)
     /\ built' = TRUE /\ UNCHANGED lost
  \/ AclSet(t, d) /\ lost' = lost \cup {d}

AclFinalize ==
  /\ acl' = "finalized" /\ live' = {} /\ ctx' = [t \in Threads |-> None]
  /\ UNCHANGED built

\* An embedding application initialises ACL and selects a device itself.
AppInit ==
  /\ Embedded /\ phase = "run" /\ acl = "none"
  /\ acl' = "app" /\ stack' = Push("sdk", stack)
  /\ UNCHANGED <<live, built, ctx, gone, lost, mgr, prof, exitVars, threadVars>>

AppSetDevice(t) ==
  /\ Embedded /\ phase = "run" /\ acl = "app" /\ pc[t] = "idle" /\ ctx[t] = None
  /\ \E d \in Devices : AclSet(t, d)
  /\ stack' = AfterSetDevice(stack)
  /\ UNCHANGED <<acl, gone, lost, mgr, prof, exitVars, threadVars>>

-----------------------------------------------------------------------------
(* Calls of a host thread *)

Call(t) ==
  /\ phase = "run" /\ pc[t] = "idle" /\ calls < MaxCalls
  /\ \E o \in Ops, d \in Devices :
       /\ o # "set" => d = First
       /\ op' = [op EXCEPT ![t] = o] /\ arg' = [arg EXCEPT ![t] = d]
       /\ pc' = [pc EXCEPT ![t] = IF o = "stop" THEN "stop" ELSE "init"]
  /\ calls' = calls + 1
  /\ UNCHANGED <<aclVars, stack, gone, lost, mgr, prof, exitVars, sel, ret>>

GoTo(t, label) == pc' = [pc EXCEPT ![t] = label] /\ UNCHANGED ret

Return(t, r) == pc' = [pc EXCEPT ![t] = "idle"] /\ ret' = [ret EXCEPT ![t] = r]

\* Where a call continues once ACL is initialised: bindDevice, resetDevice and
\* ensureCurrentDevice all begin with ensureInitialized.
AfterInit(t) ==
  CASE pc[t] = "init" /\ op[t] = "set" -> "bind"
    [] pc[t] = "init" /\ op[t] # "set" -> "query"
    [] pc[t] = "initBind" -> "bind"
    [] pc[t] = "initReset" -> "reset"

Initialising == {"init", "initBind", "initReset"}

\* RuntimeManager::ensureInitialized, after an earlier attempt or shutdown.
EnsureInitializedAgain(t) ==
  /\ pc[t] \in Initialising
  /\ mgr.shutdown \/ mgr.attempted
  /\ IF ~mgr.shutdown /\ mgr.status = "ok" THEN GoTo(t, AfterInit(t))
                                           ELSE Return(t, "error")
  /\ UNCHANGED <<aclVars, stack, gone, lost, mgr, prof, exitVars, op, arg, sel, calls>>

\* The first attempt: aclInit fails, ...
EnsureInitializedFails(t) ==
  /\ pc[t] \in Initialising /\ ~mgr.shutdown /\ ~mgr.attempted /\ acl = "none"
  /\ mgr' = [mgr EXCEPT !.attempted = TRUE, !.status = "init"]
  /\ Return(t, "error")
  /\ UNCHANGED <<aclVars, stack, gone, lost, prof, exitVars, op, arg, sel, calls>>

\* ... or succeeds, or finds ACL initialised by the application, and the exit
\* callback is registered after it.
EnsureInitializedFirst(t) ==
  /\ pc[t] \in Initialising /\ ~mgr.shutdown /\ ~mgr.attempted
  /\ mgr' = [mgr EXCEPT !.attempted = TRUE, !.owns = (acl = "none")]
  /\ acl' = IF acl = "none" THEN "ascify" ELSE acl
  /\ stack' = Push("mgr", IF acl = "none" THEN Push("sdk", stack) ELSE stack)
  /\ GoTo(t, AfterInit(t))
  /\ UNCHANGED <<live, built, ctx, gone, lost, prof, exitVars, op, arg, sel, calls>>

\* ... or the registration fails and the initialization is rolled back.
EnsureInitializedUnregistered(t) ==
  /\ pc[t] \in Initialising /\ ~mgr.shutdown /\ ~mgr.attempted
  /\ mgr' = [mgr EXCEPT !.attempted = TRUE, !.status = "register"]
  /\ IF acl = "none" THEN acl' = "finalized" /\ stack' = Push("sdk", stack)
                     ELSE UNCHANGED <<acl, stack>>
  /\ Return(t, "error")
  /\ UNCHANGED <<live, built, ctx, gone, lost, prof, exitVars, op, arg, sel, calls>>

\* ensureCurrentDevice: the thread's device is taken over, or one is bound.
QueryDevice(t) ==
  /\ pc[t] = "query"
  /\ \/ /\ ctx[t] # None
        /\ sel' = [sel EXCEPT ![t] = ctx[t]]
        /\ CASE op[t] = "ready" -> Return(t, "ok")
             [] op[t] = "reset" -> GoTo(t, "initReset")
             [] op[t] = "start" -> GoTo(t, "start")
        /\ arg' = [arg EXCEPT ![t] = ctx[t]]
     \/ /\ ctx[t] = None
        /\ arg' = [arg EXCEPT ![t] = sel[t]] /\ UNCHANGED sel
        /\ GoTo(t, "initBind")
     \/ Return(t, "error") /\ UNCHANGED <<arg, sel>>   \* any other ACL error
  /\ UNCHANGED <<aclVars, stack, gone, lost, mgr, prof, exitVars, op, calls>>

\* Neither shut down nor failed, as the sections after ensureInitialized check.
Usable == ~mgr.shutdown /\ mgr.status = "ok"

\* bindDevice: shut down or failed since ensureInitialized.
BindRefused(t) ==
  /\ pc[t] = "bind" /\ ~Usable
  /\ Return(t, "error")
  /\ UNCHANGED <<aclVars, stack, gone, lost, mgr, prof, exitVars, op, arg, sel, calls>>

Binding(t) == pc[t] = "bind" /\ Usable

\* Mutant: one registration is enough, even after a failed SetDevice.
MutBindFails(t) ==
  /\ Binding(t)
  /\ stack' = IF mgr.deviceCleanup THEN stack ELSE Push("mgr", AfterSetDevice(stack))
  /\ mgr' = [mgr EXCEPT !.deviceCleanup = TRUE]
  /\ Return(t, "error")
  /\ UNCHANGED <<aclVars, gone, lost, prof, exitVars, op, arg, sel, calls>>

\* aclrtSetDevice fails but may have built SDK state: a callback is registered
\* above it, and the next attempt will register another.
BindFails(t) ==
  /\ Binding(t)
  /\ stack' = IF mgr.deviceCleanup THEN stack ELSE Push("mgr", AfterSetDevice(stack))
  /\ Return(t, "error")
  /\ UNCHANGED <<aclVars, gone, lost, mgr, prof, exitVars, op, arg, sel, calls>>

\* The registration after the first SetDevice fails: everything is undone now.
BindUnregistered(t) ==
  /\ Binding(t) /\ ~mgr.deviceCleanup
  /\ stack' = AfterSetDevice(stack)
  /\ mgr' = [mgr EXCEPT !.owns = FALSE, !.status = "register"]
  /\ \/ mgr.owns /\ AclFinalize /\ UNCHANGED lost
     \/ ~mgr.owns /\ AclSetAndReset(t, arg[t]) /\ UNCHANGED acl
     \/ ~mgr.owns /\ UNCHANGED <<aclVars, lost>>     \* SetDevice had failed
  /\ Return(t, "error")
  /\ UNCHANGED <<gone, prof, exitVars, op, arg, sel, calls>>

\* A binding that succeeds: what the rest of the call does.
BoundReturn(t) ==
  CASE op[t] = "set" -> Return(t, "ok") /\ sel' = [sel EXCEPT ![t] = arg[t]]
    [] op[t] = "ready" -> Return(t, "ok") /\ UNCHANGED sel
    [] op[t] = "reset" -> GoTo(t, "initReset") /\ sel' = [sel EXCEPT ![t] = arg[t]]
    [] op[t] = "start" -> GoTo(t, "start") /\ UNCHANGED sel

Tracked(d) == \E i \in DOMAIN mgr.active : mgr.active[i] = d

\* The table is full: the binding is undone and refused.
BindOverflow(t) ==
  /\ Binding(t) /\ ~Tracked(arg[t]) /\ Len(mgr.active) = Capacity
  /\ AclSetAndReset(t, arg[t])
  /\ Return(t, "error")
  /\ UNCHANGED <<acl, stack, gone, mgr, prof, exitVars, op, arg, sel, calls>>

\* aclrtSetDevice succeeds; the first time, a callback is registered after it.
Bind(t) ==
  /\ Binding(t) /\ (Tracked(arg[t]) \/ Len(mgr.active) < Capacity)
  /\ AclSet(t, arg[t])
  /\ stack' = IF mgr.deviceCleanup THEN stack ELSE Push("mgr", AfterSetDevice(stack))
  /\ mgr' = [mgr EXCEPT !.deviceCleanup = TRUE,
               !.active = IF Tracked(arg[t]) THEN @ ELSE Append(@, arg[t])]
  /\ BoundReturn(t)
  /\ UNCHANGED <<acl, gone, lost, prof, exitVars, op, arg, calls>>

\* Mutant: a reset device stays in the table.
MutForget(d) == mgr.active

\* The table without a device: the entries behind its first one move down.
Forget(d) ==
  IF ~Tracked(d) THEN mgr.active
  ELSE LET i == CHOOSE i \in DOMAIN mgr.active :
                  mgr.active[i] = d /\ \A k \in 1 .. i - 1 : mgr.active[k] # d
       IN  [j \in 1 .. Len(mgr.active) - 1 |-> mgr.active[IF j < i THEN j ELSE j + 1]]

\* resetDevice, the section after ensureInitialized; a failed reset keeps the
\* device in the table.
ResetDevice(t) ==
  /\ pc[t] = "reset"
  /\ \/ /\ Usable
        /\ AclReset(arg[t]) /\ Return(t, "ok")
        /\ mgr' = [mgr EXCEPT !.active = Forget(arg[t])]
     \/ Return(t, "error") /\ UNCHANGED <<live, built, ctx, mgr>>
  /\ UNCHANGED <<acl, stack, gone, lost, prof, exitVars, op, arg, sel, calls>>

-----------------------------------------------------------------------------
(* ProfilerManager *)

\* Mutant: the later stages run although an earlier one failed.
MutCleanups(p) ==
  {[p EXCEPT !.initialized = FALSE, !.config = FALSE, !.device = None,
             !.failed = FALSE]}
  \cup (IF p.active THEN {[p EXCEPT !.failed = TRUE]} ELSE {})

\* The outcomes of cleanup(): it stops at the stage that fails and keeps what
\* is still owned for the next attempt.
Cleanups(p) ==
  {[p EXCEPT !.active = FALSE, !.config = FALSE, !.initialized = FALSE,
             !.failed = FALSE, !.device = None]}
  \cup (IF p.active THEN {[p EXCEPT !.failed = TRUE]} ELSE {})
  \cup (IF p.config THEN {[p EXCEPT !.active = FALSE, !.failed = TRUE]} ELSE {})
  \cup (IF p.initialized
        THEN {[p EXCEPT !.active = FALSE, !.config = FALSE, !.failed = TRUE]}
        ELSE {})

\* start() with a session already owned.
StartAgain(t) ==
  /\ pc[t] = "start" /\ prof.initialized
  /\ Return(t, IF prof.device = arg[t] /\ ~prof.failed /\ prof.active
               THEN "ok" ELSE "error")
  /\ UNCHANGED <<aclVars, stack, gone, lost, mgr, prof, exitVars, op, arg, sel, calls>>

Opened(t) == [prof EXCEPT !.initialized = TRUE, !.device = arg[t]]

\* start(): aclprofInit, the configuration, aclprofStart or the registration of
\* the exit callback fails; what was built is rolled back.
StartFails(t) ==
  /\ pc[t] = "start" /\ ~prof.initialized
  /\ LET configured == [Opened(t) EXCEPT !.config = TRUE]
         started == [configured EXCEPT !.active = TRUE]
     IN \/ UNCHANGED <<prof, stack>>
        \/ prof' \in Cleanups(Opened(t)) /\ UNCHANGED stack
        \/ prof' \in Cleanups(configured) /\ UNCHANGED stack
        \/ /\ ~prof.registered
           /\ prof' \in Cleanups(started) /\ stack' = Push("sdkprof", stack)
  /\ Return(t, "error")
  /\ UNCHANGED <<aclVars, gone, lost, mgr, exitVars, op, arg, sel, calls>>

Start(t) ==
  /\ pc[t] = "start" /\ ~prof.initialized
  /\ prof' = [Opened(t) EXCEPT !.config = TRUE, !.active = TRUE,
                               !.registered = TRUE, !.failed = FALSE]
  /\ stack' = IF prof.registered THEN stack ELSE Push("prof", Push("sdkprof", stack))
  /\ Return(t, "ok")
  /\ UNCHANGED <<aclVars, gone, lost, mgr, exitVars, op, arg, sel, calls>>

\* stop(): nothing to do, another context, or one more attempt at cleanup.
Stop(t) ==
  /\ pc[t] = "stop"
  /\ \/ ~prof.initialized /\ Return(t, "ok") /\ UNCHANGED prof
     \/ /\ prof.initialized /\ ctx[t] # prof.device
        /\ Return(t, "error") /\ UNCHANGED prof
     \/ /\ prof.initialized /\ ctx[t] = prof.device
        /\ prof' \in Cleanups(prof)
        /\ Return(t, IF prof'.failed THEN "error" ELSE "ok")
  /\ UNCHANGED <<aclVars, stack, gone, lost, mgr, exitVars, op, arg, sel, calls>>

-----------------------------------------------------------------------------
(* Process exit *)

\* Main returns or calls exit; other threads may still be inside a call.  An
\* application that owns ACL joins them first: their calls would find its ACL
\* destroyed, which no callback of the adapter can prevent.
BeginExit ==
  /\ phase = "run" /\ pc[Main] = "idle"
  /\ acl = "app" => \A t \in Threads : pc[t] = "idle"
  /\ phase' = "exit"
  /\ UNCHANGED <<aclVars, stack, gone, lost, mgr, prof, todo, finalize, threadVars>>

Popping == phase = "exit" /\ todo = <<>> /\ ~finalize /\ stack # <<>>

\* The SDK destroys state of its own (external).
DestroySdk ==
  /\ Popping /\ Head(stack) \in {"sdk", "sdkprof"}
  /\ stack' = Tail(stack) /\ gone' = gone \cup {Head(stack)}
  /\ UNCHANGED <<aclVars, lost, mgr, prof, exitVars, threadVars>>

\* ProfilerManager::runExitCleanup.
ProfilerExit ==
  /\ Popping /\ Head(stack) = "prof"
  /\ stack' = Tail(stack) /\ prof' \in Cleanups(prof)
  /\ UNCHANGED <<aclVars, gone, lost, mgr, exitVars, threadVars>>

\* RuntimeManager::shutdown, its section: only the first call does anything.
Shutdown ==
  /\ Popping /\ Head(stack) = "mgr"
  /\ stack' = Tail(stack)
  /\ IF mgr.shutdown THEN UNCHANGED <<mgr, todo, finalize>>
     ELSE /\ mgr' = [mgr EXCEPT !.shutdown = TRUE, !.active = <<>>, !.owns = FALSE]
          /\ todo' = Reverse(mgr.active)
          /\ finalize' = mgr.owns
  /\ UNCHANGED <<aclVars, gone, lost, prof, phase, threadVars>>

\* The resets of shutdown, outside the lock; their results are ignored.
ShutdownReset ==
  /\ todo # <<>> /\ todo' = Tail(todo)
  /\ \/ AclReset(Head(todo)) /\ UNCHANGED lost
     \/ lost' = lost \cup {Head(todo)} /\ UNCHANGED <<live, built, ctx>>
  /\ UNCHANGED <<acl, stack, gone, mgr, prof, phase, finalize, threadVars>>

ShutdownFinalize ==
  /\ todo = <<>> /\ finalize
  /\ AclFinalize /\ finalize' = FALSE
  /\ UNCHANGED <<stack, gone, lost, mgr, prof, phase, todo, threadVars>>

ProcessEnds ==
  /\ phase = "exit" /\ todo = <<>> /\ ~finalize /\ stack = <<>>
  /\ phase' = "done"
  /\ UNCHANGED <<aclVars, stack, gone, lost, mgr, prof, todo, finalize, threadVars>>

ThreadStep(t) ==
  /\ phase # "done"
  /\ \/ EnsureInitializedAgain(t) \/ EnsureInitializedFails(t)
     \/ EnsureInitializedFirst(t) \/ EnsureInitializedUnregistered(t)
     \/ QueryDevice(t) \/ BindRefused(t) \/ BindFails(t) \/ BindUnregistered(t)
     \/ BindOverflow(t) \/ Bind(t) \/ ResetDevice(t)
     \/ StartAgain(t) \/ StartFails(t) \/ Start(t) \/ Stop(t)

ExitStep ==
  DestroySdk \/ ProfilerExit \/ Shutdown \/ ShutdownReset \/ ShutdownFinalize
    \/ ProcessEnds

Terminated == phase = "done" /\ UNCHANGED vars

Next ==
  \/ AppInit \/ BeginExit \/ ExitStep \/ Terminated
  \/ \E t \in Threads : AppSetDevice(t) \/ Call(t) \/ ThreadStep(t)

Spec == Init /\ [][Next]_vars

-----------------------------------------------------------------------------
(* Properties *)

\* While Ascify owns ACL, every device that is bound is in the table or about
\* to be reset, once each, and every device in the table is bound: no failed,
\* overflowing or repeated binding leaves a device teardown does not know.
BindingsTracked ==
  /\ acl = "ascify" => live \ lost \subseteq Range(mgr.active) \cup Range(todo)
  /\ \A i, j \in DOMAIN mgr.active : mgr.active[i] = mgr.active[j] => i = j
  /\ acl = "ascify" => Range(mgr.active) \subseteq live

\* shutdown resets devices and finalizes ACL before the SDK state that aclInit
\* and aclrtSetDevice built, in failed attempts too, is destroyed; and it never
\* finalizes what an embedding application initialised.
TeardownWhileSdkLive ==
  /\ todo # <<>> \/ finalize => "sdk" \notin gone
  /\ finalize => acl # "app"

\* The configuration outlives the collection and the session outlives the
\* configuration, whichever stage of a start, rollback or stop failed and
\* however often Stop was retried; an error is remembered only with a session.
ProfilerUnwinds ==
  /\ prof.active => prof.config
  /\ prof.config => prof.initialized
  /\ ~prof.initialized => ~prof.failed /\ prof.device = None

=============================================================================
