---------------------------- MODULE RuntimeCalls ----------------------------
(***************************************************************************)
(* The runtime calls of translated programs that submit, order and await   *)
(* device work (include/ascify/ascify_cuda_compat.hpp), the errors they    *)
(* remember for their thread, and copies to and from device symbols        *)
(* (include/ascify/symbol_compat.hpp).                                     *)
(*                                                                         *)
(* Submitted work is one history; what has run is a set of its positions.  *)
(* A stream runs its own work in order, and streams (the null stream too)  *)
(* do not order each other.  ACL calls are external: each may fail, and    *)
(* then the code returns its status.  Whether the device is ready is the   *)
(* subject of RuntimeLifecycle; here a thread may find that it is not.     *)
(***************************************************************************)
EXTENDS DeviceQueries, FiniteSets

CONSTANTS
  Threads,
  Observed,   \* the threads whose other calls are followed; the rest submit work
  Named,      \* handles of explicitly created streams
  Events,
  Tokens,     \* host tokens of device symbols
  SymbolBytes,\* size of each symbol
  MaxWork,    \* bound on submitted work
  Beta        \* is this the reviewed header family on ACL 1.17.0?

ASSUME CallsAssumption ==
  /\ MaxWork \in Nat /\ SymbolBytes \in Nat /\ Beta \in BOOLEAN /\ Observed \subseteq Threads

VARIABLES
  work,      \* submitted work, in the order of submission
  done,      \* positions of work that has run
  streams,   \* streams that exist
  event,     \* position of the latest record of each event, 0 if never recorded
  registry,  \* the chain of DeviceSymbolResolver entries, newest first
  pending,   \* pendingLifecycleErrorForThread
  aclLast,   \* ACL's own thread-level last error
  pc, call,  \* the call a thread is in: its operation, its stream or event, ...
  ret,       \* what its last call returned
  textures,  \* is a texture handle live on the current device?
  asked      \* the last question about the device and its answer

vars == <<work, done, streams, event, registry, pending, aclLast, pc, call, ret,
          asked, textures>>
device == <<work, done, streams, event>>
errors == <<pending, aclLast>>

Null == "null"
NoCall == [op |-> "none", on |-> Null, since |-> 0, mark |-> 0, failed |-> FALSE]

Init ==
  /\ work = <<>> /\ done = {} /\ streams = {Null}
  /\ event = [e \in Events |-> 0] /\ registry = <<>>
  /\ pending = [t \in Threads |-> FALSE] /\ aclLast = [t \in Threads |-> FALSE]
  /\ pc = [t \in Threads |-> "idle"] /\ call = [t \in Threads |-> NoCall]
  /\ ret = [t \in Threads |-> [op |-> "none", on |-> Null, status |-> "ok", since |-> 0]]
  /\ asked = <<>> /\ textures \in BOOLEAN

(***************************************************************************)
(* The device.                                                             *)
(***************************************************************************)
On(s, upTo) == {i \in 1 .. upTo : work[i].stream = s}
All(upTo) == 1 .. upTo

\* A bad kernel reads through a texture handle it may not use: the sampler
\* raises the handle's status flag, which stays raised.
flag == \E i \in done : work[i].bad

Run(i) ==
  /\ i \notin done
  /\ On(work[i].stream, i - 1) \subseteq done
  /\ work[i].dep # 0 => work[i].dep \in done
  /\ done' = done \cup {i}
  /\ UNCHANGED <<work, streams, event, registry, pending, aclLast, pc, call, ret,
                 asked, textures>>

(***************************************************************************)
(* Returns.                                                                *)
(***************************************************************************)
Idle(t) == pc[t] = "idle" /\ asked = <<>>

Reported(t, op, on, status, since) ==
  ret' = [ret EXCEPT ![t] = [op |-> op, on |-> on, status |-> status, since |-> since]]

Finish(t, status) ==
  /\ pc' = [pc EXCEPT ![t] = "idle"]
  /\ call' = [call EXCEPT ![t] = NoCall]
  /\ Reported(t, call[t].op, call[t].on, status, call[t].since)

\* A call that is over as soon as it is made; its status is not followed further.
Immediate(t) ==
  /\ Reported(t, "none", Null, "ok", 0)
  /\ UNCHANGED <<pc, call, asked, textures>>

\* cudaRuntimeEnsureReady fails at the start of a call.
NotReady(t) ==
  /\ Idle(t)
  /\ pending' = [pending EXCEPT ![t] = TRUE]
  /\ Immediate(t)
  /\ UNCHANGED <<device, registry, aclLast>>

\* A call that checks its arguments and refuses them before it does anything.
Refuse(t) ==
  /\ Idle(t)
  /\ Immediate(t)
  /\ UNCHANGED <<device, registry, errors>>

\* cudaGetDevice, cudaGetDeviceCount and the peer-access calls: a failure of
\* theirs is remembered, success changes nothing that is followed here.
DeviceCall(t) ==
  /\ Idle(t)
  /\ \/ pending' = [pending EXCEPT ![t] = TRUE]
     \/ UNCHANGED pending
  /\ Immediate(t)
  /\ UNCHANGED <<device, registry, aclLast>>

\* cudaMallocHost and cudaFreeHost, like the calls below that only submit: ACL's
\* status is returned and not remembered, but ACL keeps its own last error.
HostMemory(t) ==
  /\ Idle(t)
  /\ \/ aclLast' = [aclLast EXCEPT ![t] = TRUE]
     \/ UNCHANGED aclLast
  /\ Immediate(t)
  /\ UNCHANGED <<device, registry, pending>>

\* The pending lifecycle error goes first and is taken; ACL's is taken otherwise.
GetLastError(t) ==
  /\ Idle(t)
  /\ pending' = [pending EXCEPT ![t] = FALSE]
  /\ aclLast' = [aclLast EXCEPT ![t] = pending[t] /\ aclLast[t]]
  /\ Immediate(t)
  /\ UNCHANGED <<device, registry>>

PeekAtLastError(t) ==
  /\ Idle(t)
  /\ Immediate(t)
  /\ UNCHANGED <<device, registry, errors>>

(***************************************************************************)
(* Work that a call only submits.                                          *)
(***************************************************************************)
\* Its stream, whether it misuses a texture handle, the record it waits for (or 0).
Item(s, bad, dep) == [stream |-> s, bad |-> bad, dep |-> dep]

Submit(item) == Len(work) < MaxWork /\ work' = Append(work, item)

Launch(t, s, bad) ==
  /\ Idle(t) /\ s \in streams /\ (bad => textures)
  /\ Submit(Item(s, bad, 0))
  /\ Immediate(t)
  /\ UNCHANGED <<done, streams, event, registry, errors>>

\* cudaMemcpyAsync and cudaMemsetAsync; zero bytes are success without work.
MemcpyAsync(t, s) ==
  /\ Idle(t) /\ s \in streams
  /\ Submit(Item(s, FALSE, 0))
  /\ Immediate(t)
  /\ UNCHANGED <<done, streams, event, registry, errors>>

\* Only an explicit stream of the reviewed build takes a host callback.
LaunchHostFunc(t, s) ==
  /\ Idle(t) /\ Beta /\ s \in streams \ {Null}
  /\ Submit(Item(s, FALSE, 0))
  /\ Immediate(t)
  /\ UNCHANGED <<done, streams, event, registry, errors>>

\* Recording again replaces what the event stands for.
EventRecord(t, e, s) ==
  /\ Idle(t) /\ s \in streams /\ (s = Null => Beta)
  /\ Submit(Item(s, FALSE, 0))
  /\ event' = [event EXCEPT ![e] = Len(work) + 1]
  /\ Immediate(t)
  /\ UNCHANGED <<done, streams, registry, errors>>

\* The wait captures the latest record; an event never recorded is complete.
StreamWaitEvent(t, s, e) ==
  /\ Idle(t) /\ Beta /\ s \in streams \ {Null}
  /\ Submit(Item(s, FALSE, event[e]))
  /\ Immediate(t)
  /\ UNCHANGED <<done, streams, event, registry, errors>>

(***************************************************************************)
(* Streams.                                                                *)
(***************************************************************************)

\* The nonblocking flag means ordinary creation on the reviewed build only.
StreamCreate(t, s, nonblocking) ==
  /\ Idle(t) /\ s \notin streams /\ (nonblocking => Beta)
  /\ streams' = streams \cup {s}
  /\ Immediate(t)
  /\ UNCHANGED <<work, done, event, registry, errors>>

Clamp(priority, greatest, least) ==
  IF priority < greatest THEN greatest ELSE IF priority > least THEN least ELSE priority

\* The range the reviewed ABI admits: 0 .. 7, smaller is higher.
ValidRange(greatest, least) == greatest >= 0 /\ least >= greatest /\ least <= 7

\* The caller's handle is stored only once the stream really exists.
StreamCreateWithPriority(t, s, priority, greatest, least) ==
  /\ Idle(t) /\ Beta /\ s \notin streams
  /\ ValidRange(greatest, least)
  /\ Clamp(priority, greatest, least) \in greatest .. least
  /\ streams' = streams \cup {s}
  /\ Immediate(t)
  /\ UNCHANGED <<work, done, event, registry, errors>>

\* The program destroys a stream nobody uses any more.
StreamDestroy(t, s) ==
  /\ Idle(t) /\ s \in streams \ {Null} /\ On(s, Len(work)) \subseteq done
  /\ \A u \in Threads : call[u].on # s
  /\ streams' = streams \ {s}
  /\ Immediate(t)
  /\ UNCHANGED <<work, done, event, registry, errors>>

\* ACL reports an unfinished stream either as a status or as a state.
StreamQuery(t, s) ==
  /\ Idle(t) /\ Beta /\ s \in streams \ {Null}
  /\ Reported(t, "query", s, IF On(s, Len(work)) \subseteq done THEN "ok" ELSE "notready",
              Len(work))
  /\ UNCHANGED <<device, registry, errors, pc, call, asked, textures>>

EventQuery(t, e) ==
  /\ Idle(t) /\ Beta
  /\ Immediate(t)
  /\ UNCHANGED <<device, registry, errors>>

(***************************************************************************)
(* Calls that wait: the wait, then the check of the texture status flags.  *)
(***************************************************************************)
Begin(t, op, on, mark, label) ==
  /\ Idle(t)
  /\ pc' = [pc EXCEPT ![t] = label]
  /\ call' = [call EXCEPT ![t] = [op |-> op, on |-> on, since |-> Len(work),
                                  mark |-> mark, failed |-> FALSE]]
  /\ Reported(t, "none", Null, "ok", 0)
  /\ UNCHANGED <<device, registry, errors, asked, textures>>

StreamSynchronize(t, s) == s \in streams /\ Begin(t, "stream", s, Len(work), "sync")
DeviceSynchronize(t) == Begin(t, "device", Null, Len(work), "sync")
EventSynchronize(t, e) == Begin(t, "event", e, event[e], "sync")

\* A host-to-host copy waits for nothing.
MutMemcpy(t, host) == Begin(t, IF host THEN "hostcopy" ELSE "copy", Null, Len(work), "check")
Memcpy(t, host) ==
  Begin(t, IF host THEN "hostcopy" ELSE "copy", Null, Len(work),
        IF host THEN "check" ELSE "sync")

\* What the wait stands for: the event's record at the time of the call, the
\* stream's work or the device's.
Awaits(t) ==
  CASE call[t].op = "event" -> {call[t].mark} \ {0}
    [] call[t].op = "device" -> All(call[t].mark)
    [] OTHER -> On(call[t].on, call[t].mark)

Goto(t, label) ==
  /\ pc' = [pc EXCEPT ![t] = label]
  /\ call' = [call EXCEPT ![t].mark = Len(work)]
  /\ UNCHANGED ret

MutWaitFor(t) ==
  /\ pc[t] = "sync" /\ Awaits(t) \subseteq done
  /\ IF call[t].op = "event" THEN Finish(t, "ok") ELSE Goto(t, "check")
  /\ UNCHANGED <<device, registry, errors, asked, textures>>
WaitFor(t) ==
  /\ pc[t] = "sync" /\ Awaits(t) \subseteq done
  /\ Goto(t, "check")
  /\ UNCHANGED <<device, registry, errors, asked, textures>>

\* The wait itself fails.
WaitFails(t) ==
  /\ pc[t] = "sync"
  /\ aclLast' = [aclLast EXCEPT ![t] = TRUE]
  /\ Finish(t, "error")
  /\ UNCHANGED <<device, registry, pending, asked, textures>>

\* textureCheckPending: with a live handle, the whole device is awaited before
\* the flags are read.
Checked(t) == textures => All(call[t].mark) \subseteq done
RaisedFlag == textures /\ flag

CheckPending(t) ==
  /\ pc[t] = "check" /\ Checked(t)
  /\ IF RaisedFlag THEN Finish(t, "error")
     ELSE IF call[t].op \in {"copy", "hostcopy"} THEN Goto(t, "copy") ELSE Finish(t, "ok")
  /\ UNCHANGED <<device, registry, errors, asked, textures>>

\* ACL's immediate copy, which does not order itself after any stream.
ImmediateCopy(t) ==
  /\ pc[t] = "copy"
  /\ Finish(t, "ok")
  /\ UNCHANGED <<device, registry, errors, asked, textures>>

\* cudaMemset is immediate too, and waits for nothing.
Memset(t) ==
  /\ Idle(t)
  /\ Immediate(t)
  /\ UNCHANGED <<device, registry, errors>>

(***************************************************************************)
(* Device symbols.                                                         *)
(***************************************************************************)
Found(k) == \E i \in DOMAIN registry : registry[i] = k

\* Nothing has been called yet.
Fresh ==
  /\ asked = <<>> /\ work = <<>> /\ streams = {Null}
  /\ \A t \in Threads : pc[t] = "idle" /\ ret[t].op = "none" /\ ~pending[t] /\ ~aclLast[t]

\* A translation unit's static resolver enters the chain before main and leaves
\* it after main, which is outside these histories.
Register(k) ==
  /\ Fresh /\ ~Found(k)
  /\ registry' = <<k>> \o registry
  /\ UNCHANGED <<device, errors, pc, call, ret, asked, textures>>

\* size_t arithmetic: nothing may wrap around.
InBounds(count, offset) == ~(offset > SymbolBytes \/ count > SymbolBytes - offset)

\* cudaMemcpyToSymbol and cudaMemcpyFromSymbol of a registered symbol.
SymbolCopy(t, k) ==
  /\ Found(k) /\ \E count, offset \in 0 .. SymbolBytes + 1 : InBounds(count, offset)
  /\ Begin(t, "symbol", Null, Len(work), "resolve")

\* A token without an entry goes to the SDK, which knows it or fails.
SymbolNative(t, k) ==
  /\ Idle(t) /\ ~Found(k) /\ \E count, offset \in 0 .. SymbolBytes + 1 : InBounds(count, offset)
  /\ Immediate(t)
  /\ UNCHANGED <<device, registry, errors>>

\* The resolver allocates its result ...
Resolve(t) ==
  /\ pc[t] = "resolve"
  /\ \/ pc' = [pc EXCEPT ![t] = "address"] /\ UNCHANGED <<call, ret>>
     \/ Finish(t, "error")
  /\ UNCHANGED <<device, registry, errors, asked, textures>>

\* ... launches the kernel that stores the symbol's address there ...
LaunchAddress(t) ==
  /\ pc[t] = "address"
  /\ \/ Submit(Item(Null, FALSE, 0)) /\ UNCHANGED aclLast
     \/ UNCHANGED work /\ aclLast' = [aclLast EXCEPT ![t] = TRUE]
  /\ pc' = [pc EXCEPT ![t] = "launched"]
  /\ UNCHANGED <<call, ret, done, streams, event, registry, pending, asked, textures>>

\* ... asks whether the launch failed (which takes the thread's older error) ...
AddressLaunched(t) ==
  /\ pc[t] = "launched"
  /\ pending' = [pending EXCEPT ![t] = FALSE]
  /\ aclLast' = [aclLast EXCEPT ![t] = pending[t] /\ aclLast[t]]
  /\ pc' = [pc EXCEPT ![t] = IF pending[t] \/ aclLast[t] THEN "free" ELSE "await"]
  /\ call' = [call EXCEPT ![t].failed = pending[t] \/ aclLast[t], ![t].mark = Len(work)]
  /\ UNCHANGED <<device, registry, ret, asked, textures>>

\* ... awaits the null stream and copies the result (cudaMemcpy waits again) ...
AddressAwaited(t) ==
  /\ pc[t] = "await"
  /\ \/ /\ On(Null, call[t].mark) \subseteq done /\ Checked(t)
        /\ call' = [call EXCEPT ![t].failed = RaisedFlag] /\ UNCHANGED aclLast
     \/ /\ call' = [call EXCEPT ![t].failed = TRUE]
        /\ aclLast' = [aclLast EXCEPT ![t] = TRUE]
  /\ pc' = [pc EXCEPT ![t] = "free"]
  /\ UNCHANGED <<device, registry, pending, ret, asked, textures>>

\* ... and frees the buffer whatever happened.
AddressFree(t) ==
  /\ pc[t] = "free"
  /\ \/ IF call[t].failed THEN Finish(t, "error") ELSE Goto(t, "copy")
     \/ Finish(t, "error")
  /\ UNCHANGED <<device, registry, errors, asked, textures>>

(***************************************************************************)
(* Questions about the device: they read it and change nothing else.       *)
(***************************************************************************)
Asks(q) ==
  CASE q.what = "active" -> MaxActiveBlocks(q.size, q.model.base, q.dev, q.failing)
    [] q.what = "activeBound" ->
         MaxActiveBlocksMaxThreads(q.size, q.model.base, q.bound, q.dev, q.failing)
    [] q.what = "size" -> MaxPotentialBlockSize(q.size, q.model.base, q.dev, q.failing)
    [] q.what = "sizeBound" ->
         MaxPotentialBlockSizeMaxThreads(q.size, q.model, q.bound, q.dev, q.failing)
    [] q.what = "attributes" -> FuncGetAttributesMaxThreads(q.bound, Beta, q.dev, q.failing)
    [] q.what = "properties" -> GetDeviceProperties(q.size, q.bound > 0, q.dev, q.failing)
    [] q.what = "find" -> FindCudaDevice(q.args, "cores" \notin q.failing, q.size, q.bound > 0)

\* Asked before anything else, so that the answers do not multiply the histories.
Ask(q) ==
  /\ asked' = <<q, Asks(q)>>
  /\ UNCHANGED <<device, registry, errors, pc, call, ret, textures>>

Submits(t) ==
  \E s \in {Null} \cup Named :
    \/ MemcpyAsync(t, s) \/ LaunchHostFunc(t, s)
    \/ \E bad \in BOOLEAN : Launch(t, s, bad)
    \/ \E e \in Events : EventRecord(t, e, s) \/ StreamWaitEvent(t, s, e)

Calls(t) ==
  \/ NotReady(t) \/ Refuse(t) \/ DeviceCall(t) \/ HostMemory(t) \/ GetLastError(t) \/ PeekAtLastError(t)
  \/ \E s \in {Null} \cup Named :
       \/ StreamSynchronize(t, s) \/ StreamDestroy(t, s) \/ StreamQuery(t, s)
       \/ \E nonblocking \in BOOLEAN : StreamCreate(t, s, nonblocking)
       \/ \E p \in {-1, 4, 9} : StreamCreateWithPriority(t, s, p, 0, 7)
  \/ \E e \in Events : EventSynchronize(t, e) \/ EventQuery(t, e)
  \/ DeviceSynchronize(t) \/ Memset(t)
  \/ \E host \in BOOLEAN : Memcpy(t, host)
  \/ \E k \in Tokens : SymbolCopy(t, k) \/ SymbolNative(t, k)

Continues(t) ==
  \/ WaitFor(t) \/ WaitFails(t) \/ CheckPending(t) \/ ImmediateCopy(t)
  \/ Resolve(t) \/ LaunchAddress(t) \/ AddressLaunched(t) \/ AddressAwaited(t)
  \/ AddressFree(t)

\* The program is over, or only a question was asked.
Over == asked # <<>> /\ UNCHANGED vars

CONSTANT Questions

\* A question takes int sizes and attribute values, a size_t of dynamic UB and
\* the words of a command line.
ASSUME QuestionsAssumption ==
  \A q \in Questions :
    /\ q.what \in {"active", "activeBound", "size", "sizeBound", "attributes", "properties", "find"}
    /\ {q.size, q.bound} \subseteq Int
    /\ q.model \in [base : Nat, slope : Int]
    /\ q.dev \in [Attributes \cup Properties -> Int]
    /\ q.args \in Seq({"other", "zero", "device"})

Next ==
  \/ \E t \in Threads : Submits(t)
  \/ \E t \in Observed : Calls(t) \/ Continues(t)
  \/ \E i \in DOMAIN work : Run(i)
  \/ \E k \in Tokens : Register(k)
  \/ Fresh /\ registry = <<>> /\ \E q \in Questions : Ask(q)
  \/ Over

Spec == Init /\ [][Next]_vars

(***************************************************************************)
(* Properties.                                                             *)
(***************************************************************************)

\* A blocking copy of device memory, and a copy to or from a symbol, moves its
\* bytes only when everything the null stream had before the call has run:
\* ACL's immediate copy does not order itself after default-stream work.
CopyOrdered ==
  \A t \in Threads : pc[t] = "copy" /\ call[t].op # "hostcopy" =>
                        On(Null, call[t].since) \subseteq done

\* A waiting call that succeeds tells the truth: what it waits for has run, and
\* none of the work submitted before it, on any stream, had used a texture handle
\* it may not use.  A query that says complete has nothing outstanding.
SyncHonest ==
  \A t \in Threads :
    LET r == ret[t] IN
    /\ r.op \in {"stream", "query"} /\ r.status = "ok" => On(r.on, r.since) \subseteq done
    /\ r.op = "device" /\ r.status = "ok" => All(r.since) \subseteq done
    /\ r.op \in {"stream", "device", "event", "copy", "symbol"} /\ r.status = "ok" =>
         \A i \in All(r.since) : ~work[i].bad

\* Occupancy answers are the best launch the limits admit, for every device the
\* code accepts; a device with no more warps per core than the search tries is
\* told that no size fits only when none does; a refused or failed question leaves
\* the caller's storage alone, and nothing is answered from a failed read.
QueryExact ==
  asked # <<>> =>
    LET q == asked[1]  a == asked[2]
        fits == LaunchSizes(IF q.what = "size" THEN q.size
                            ELSE IF q.size > 0 /\ q.size < q.bound THEN q.size ELSE q.bound,
                            IF q.what = "size" THEN [q.model EXCEPT !.slope = 0] ELSE q.model,
                            q.dev)
    IN /\ a.status # "ok" => a.out = <<>>
       /\ a.status = "ok" => CASE
            q.what \in {"active", "activeBound"} ->
              /\ a.out[1] = FitBlocks(q.size, q.model.base, q.dev)
              /\ q.what = "activeBound" => q.size <= q.bound
         [] q.what \in {"size", "sizeBound"} ->
              /\ q.failing \cap Attributes = {} /\ fits # {} /\ a.out[1].block = Max(fits)
              /\ a.out[1].grid = FewestBlocks(Max(fits), q.dev)
         [] q.what = "properties" ->
              q.failing \cap Properties = {} /\ \A p \in Properties : a.out[1][p] > 0
         [] q.what = "attributes" -> a.out[1] <= q.bound /\ a.out[1] <= q.dev.perBlock
         [] OTHER -> q.size = 1 /\ Cardinality(Selectors(q.args)) <= 1
       /\ q.what \in {"size", "sizeBound"} /\ a.status = "unsupported"
            /\ Positive(q.dev, Attributes \ {"ub"}) /\ q.dev.ub >= 0
            /\ q.dev.perCore <= MaxSteps * q.dev.warp => fits = {}

=============================================================================
