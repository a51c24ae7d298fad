------------------------ MODULE RuntimeCalls_proofs ------------------------
(***************************************************************************)
(* Proofs for every number of threads, streams and events and any amount   *)
(* of work: the types, that a copy comes after the work it must follow,    *)
(* and that a waiting call which succeeds has told the truth.  Then, for   *)
(* every source and all values of the limits, that the bound a published   *)
(* call answers with is the one the kernel is compiled with; for every     *)
(* device, that questions about it are answered exactly; and, for warps    *)
(* and registers of every size, that the collectives of a warp are exact.  *)
(***************************************************************************)
EXTENDS RuntimeCalls, KernelBounds, WarpGroups, FiniteSetTheorems, WellFoundedInduction, TLAPS

Handles == {Null} \cup Named \cup Events
Items == [stream : {Null} \cup Named, bad : BOOLEAN, dep : Nat]
Operations == {"none", "stream", "device", "event", "copy", "hostcopy", "symbol", "query"}
Labels == {"idle", "sync", "check", "copy", "resolve", "address", "launched", "await", "free"}

Records ==
  [op : Operations, on : Handles, since : Nat, mark : Nat, failed : BOOLEAN]
Returns == [op : Operations, on : Handles, status : {"ok", "error", "notready"}, since : Nat]

\* The values of the variables.
TypeOK ==
  /\ work \in Seq(Items) /\ done \subseteq Nat
  /\ event \in [Events -> Nat] /\ streams \subseteq {Null} \cup Named
  /\ pc \in [Threads -> Labels] /\ call \in [Threads -> Records]
  /\ ret \in [Threads -> Returns]
  /\ pending \in [Threads -> BOOLEAN] /\ aclLast \in [Threads -> BOOLEAN]
  /\ textures \in BOOLEAN

-----------------------------------------------------------------------------
\* What is true of a stretch of the history and stays true.
Ran(s, n) == On(s, n) \subseteq done
AllRan(n) == All(n) \subseteq done
Clean(n) == \A i \in All(n) : ~work[i].bad

\* What a waiting call knows at each of its steps.
CallKnows(t) ==
  LET c == call[t] IN
  /\ c.since <= Len(work) /\ c.mark <= Len(work)
  /\ pc[t] = "sync" =>
       /\ c.op \in {"stream", "device", "event", "copy"}
       /\ c.op # "event" => c.mark = c.since
  /\ pc[t] = "check" =>
       /\ c.op \in {"stream", "device", "event", "copy", "hostcopy"}
       /\ c.mark >= c.since
       /\ c.op \in {"stream", "copy"} => Ran(c.on, c.since)
       /\ c.op = "device" => AllRan(c.since)
  /\ pc[t] = "copy" =>
       /\ c.op \in {"copy", "hostcopy", "symbol"}
       /\ c.op # "hostcopy" => Ran(c.on, c.since) /\ Clean(c.since)
  /\ pc[t] \in {"resolve", "address", "launched", "await", "free"} => c.op = "symbol"
  /\ pc[t] = "await" => c.mark >= c.since
  /\ pc[t] = "free" /\ ~c.failed => Ran(c.on, c.since) /\ Clean(c.since)
  /\ c.op \in {"copy", "symbol"} => c.on = Null

\* What the last call told its caller.
ReturnTrue(t) ==
  LET r == ret[t] IN
  /\ r.since <= Len(work)
  /\ r.op \in {"stream", "query"} /\ r.status = "ok" => Ran(r.on, r.since)
  /\ r.op = "device" /\ r.status = "ok" => AllRan(r.since)
  /\ r.op \in {"stream", "device", "event", "copy", "symbol"} /\ r.status = "ok" =>
       Clean(r.since)

\* Without a live texture handle nothing can misuse one.
BadNeedsTexture == ~textures => \A i \in DOMAIN work : ~work[i].bad

IInv ==
  /\ TypeOK
  /\ BadNeedsTexture
  /\ \A e \in Events : event[e] <= Len(work)
  /\ \A t \in Threads : CallKnows(t) /\ ReturnTrue(t)

-----------------------------------------------------------------------------
\* The history is only ever extended.
Grown ==
  /\ work' \in Seq(Items) /\ Len(work) <= Len(work')
  /\ \A i \in 1 .. Len(work) : work'[i] = work[i]
  /\ done \subseteq done'

\* What a submission does to the history.
LEMMA AppendGrows ==
  ASSUME work \in Seq(Items), NEW item \in Items, work' = Append(work, item), done' = done
  PROVE  /\ Grown /\ Len(work') = Len(work) + 1
         /\ work'[Len(work) + 1] = item
BY DEF Grown

\* Submitting keeps the history clean while no texture handle is live.
LEMMA AppendClean ==
  ASSUME work \in Seq(Items), NEW item \in Items, work' = Append(work, item), done' = done,
         item.bad => textures, textures' = textures, BadNeedsTexture
  PROVE  BadNeedsTexture'
<1>1. SUFFICES ASSUME ~textures, NEW i \in DOMAIN work' PROVE ~work'[i].bad
  BY DEF BadNeedsTexture
<1>2. Grown /\ Len(work') = Len(work) + 1 /\ work'[Len(work) + 1] = item
  BY AppendGrows
<1>3. DOMAIN work = 1 .. Len(work) /\ DOMAIN work' = 1 .. Len(work) + 1 /\ Len(work) \in Nat
  BY <1>2 DEF Grown
<1>4. CASE i \in 1 .. Len(work)
  BY <1>1, <1>2, <1>3, <1>4 DEF Grown, BadNeedsTexture
<1>5. CASE i = Len(work) + 1
  BY <1>1, <1>2, <1>5
<1> QED
  BY <1>3, <1>4, <1>5

\* What has run stays run, and what was clean stays clean: work is not withdrawn.
LEMMA Stable ==
  ASSUME work \in Seq(Items), Grown, NEW n \in Nat, n <= Len(work), NEW s
  PROVE  /\ Ran(s, n) => Ran(s, n)'
         /\ AllRan(n) => AllRan(n)'
         /\ Clean(n) => Clean(n)'
<1>1. \A i \in 1 .. n : work'[i] = work[i]
  BY DEF Grown
<1> QED
  BY <1>1 DEF Grown, Ran, AllRan, Clean, On, All

\* A call that does not step keeps what it knows while others step.
LEMMA CallKept ==
  ASSUME TypeOK, Grown, NEW t \in Threads, CallKnows(t), pc'[t] = pc[t], call'[t] = call[t]
  PROVE  CallKnows(t)'
<1>1. call[t] \in Records /\ Len(work) \in Nat /\ Len(work') \in Nat /\ Len(work) <= Len(work')
  BY DEF TypeOK, Grown
<1>2. call[t].since \in Nat /\ call[t].mark \in Nat
  BY <1>1 DEF Records
<1>3. call[t].since <= Len(work) /\ call[t].mark <= Len(work)
  BY DEF CallKnows
<1>4. /\ Ran(call[t].on, call[t].since) => Ran(call[t].on, call[t].since)'
      /\ AllRan(call[t].since) => AllRan(call[t].since)'
      /\ Clean(call[t].since) => Clean(call[t].since)'
  <2>1. /\ Ran(call[t].on, call[t].since) => (On(call[t].on, call[t].since)' \subseteq done')
        /\ AllRan(call[t].since) => (All(call[t].since)' \subseteq done')
        /\ Clean(call[t].since) => (\A i \in All(call[t].since)' : ~work'[i].bad)
    BY <1>2, <1>3, Stable DEF TypeOK, Ran, AllRan, Clean, On, All
  <2> QED
    BY <2>1 DEF Ran, AllRan, Clean
<1> QED
  BY <1>1, <1>2, <1>4 DEF CallKnows

\* A report stays true while others step.
LEMMA ReturnKept ==
  ASSUME TypeOK, Grown, NEW t \in Threads, ReturnTrue(t), ret'[t] = ret[t]
  PROVE  ReturnTrue(t)'
<1>1. ret[t] \in Returns /\ ret[t].since \in Nat /\ ret[t].since <= Len(work)
      /\ Len(work) \in Nat /\ Len(work') \in Nat /\ Len(work) <= Len(work')
  BY DEF TypeOK, Grown, Returns, ReturnTrue
<1>2. /\ Ran(ret[t].on, ret[t].since) => (On(ret[t].on, ret[t].since)' \subseteq done')
      /\ AllRan(ret[t].since) => (All(ret[t].since)' \subseteq done')
      /\ Clean(ret[t].since) => (\A i \in All(ret[t].since)' : ~work'[i].bad)
  BY <1>1, Stable DEF TypeOK, Ran, AllRan, Clean, On, All
<1> QED
  BY <1>1, <1>2 DEF ReturnTrue, Ran, AllRan, Clean

\* The other threads' calls and reports stay true while one thread steps.
LEMMA OthersKept ==
  ASSUME IInv, Grown, NEW t \in Threads,
         \A u \in Threads \ {t} : pc'[u] = pc[u] /\ call'[u] = call[u] /\ ret'[u] = ret[u],
         CallKnows(t)', ReturnTrue(t)'
  PROVE  \A u \in Threads : CallKnows(u)' /\ ReturnTrue(u)'
BY CallKept, ReturnKept DEF IInv

Forgotten == [op |-> "none", on |-> Null, status |-> "ok", since |-> 0]

\* A report that says nothing is true.
LEMMA NothingReported ==
  ASSUME NEW t \in Threads, work' \in Seq(Items), ret'[t] = Forgotten
  PROVE  ReturnTrue(t)'
BY DEF ReturnTrue, Forgotten

\* What a new call knows.
LEMMA NothingKnown ==
  ASSUME NEW t \in Threads, work' \in Seq(Items), call'[t] = NoCall, pc'[t] = "idle"
  PROVE  CallKnows(t)'
BY DEF CallKnows, NoCall, Null

-----------------------------------------------------------------------------
\* No call has been made before the first.
LEMMA IInvInit == Init => IInv
<1> SUFFICES ASSUME Init PROVE IInv
  OBVIOUS
<1>1. TypeOK
  BY DEF Init, TypeOK, Items, Labels, Records, Returns, NoCall, Handles, Operations
<1>2. ASSUME NEW t \in Threads PROVE CallKnows(t) /\ ReturnTrue(t)
  BY <1>2 DEF Init, CallKnows, ReturnTrue, NoCall
<1> QED
  BY <1>1, <1>2 DEF Init, IInv, BadNeedsTexture

\* What can be submitted.
LEMMA ItemTypes ==
  \A s \in {Null} \cup Named, bad \in BOOLEAN, dep \in Nat :
    Item(s, bad, dep) \in Items /\ Item(s, bad, dep).bad = bad
BY DEF Item, Items

\* A submission: some work is added, and the thread has nothing to report.
Submission(t) ==
  /\ \E item \in Items : work' = Append(work, item) /\ (item.bad => textures)
  /\ ret' = [ret EXCEPT ![t] = Forgotten]
  /\ event' \in [Events -> Nat] /\ \A e \in Events : event'[e] <= Len(work) + 1
  /\ UNCHANGED <<done, streams, registry, errors, pc, call, asked, textures>>

\* Launches, asynchronous copies, callbacks, records and waits are submissions.
LEMMA SubmitShape ==
  ASSUME IInv, NEW t \in Threads, Submits(t)
  PROVE  Submission(t)
<1> USE DEF Immediate, Reported, Forgotten, Submit, errors
<1>1. PICK s \in {Null} \cup Named :
        \/ MemcpyAsync(t, s) \/ LaunchHostFunc(t, s)
        \/ \E bad \in BOOLEAN : Launch(t, s, bad)
        \/ \E e \in Events : EventRecord(t, e, s) \/ StreamWaitEvent(t, s, e)
  BY DEF Submits
<1>2. /\ event \in [Events -> Nat] /\ \A e \in Events : event[e] <= Len(work) /\ event[e] \in Nat
      /\ Len(work) \in Nat
  BY DEF IInv, TypeOK
<1>3. CASE MemcpyAsync(t, s) \/ LaunchHostFunc(t, s)
  <2>1. work' = Append(work, Item(s, FALSE, 0)) /\ event' = event
    BY <1>3 DEF MemcpyAsync, LaunchHostFunc
  <2>2. Item(s, FALSE, 0) \in Items /\ ~Item(s, FALSE, 0).bad
    BY ItemTypes
  <2>3. \E item \in Items : work' = Append(work, item) /\ (item.bad => textures)
    BY <2>1, <2>2
  <2>4. event' \in [Events -> Nat] /\ \A f \in Events : event'[f] <= Len(work) + 1
    BY <1>2, <2>1
  <2> QED
    BY <1>3, <2>1, <2>3, <2>4 DEF MemcpyAsync, LaunchHostFunc, Submission
<1>4. ASSUME NEW bad \in BOOLEAN, Launch(t, s, bad) PROVE Submission(t)
  <2>1. work' = Append(work, Item(s, bad, 0)) /\ event' = event /\ (bad => textures)
    BY <1>4 DEF Launch
  <2>2. Item(s, bad, 0) \in Items /\ (Item(s, bad, 0).bad => textures)
    BY <2>1, ItemTypes
  <2> QED
    BY <1>2, <1>4, <2>1, <2>2 DEF Launch, Submission
<1>5. ASSUME NEW e \in Events, EventRecord(t, e, s) PROVE Submission(t)
  <2>1. work' = Append(work, Item(s, FALSE, 0))
        /\ event' = [event EXCEPT ![e] = Len(work) + 1]
    BY <1>5 DEF EventRecord
  <2>2. event' \in [Events -> Nat] /\ \A f \in Events : event'[f] <= Len(work) + 1
    BY <1>2, <2>1
  <2> QED
    BY <1>5, <2>1, <2>2, ItemTypes DEF EventRecord, Submission
<1>6. ASSUME NEW e \in Events, StreamWaitEvent(t, s, e) PROVE Submission(t)
  <2>1. work' = Append(work, Item(s, FALSE, event[e])) /\ event' = event
    BY <1>6 DEF StreamWaitEvent
  <2>2. Item(s, FALSE, event[e]) \in Items /\ ~Item(s, FALSE, event[e]).bad
    BY <1>2, ItemTypes
  <2>3. \E item \in Items : work' = Append(work, item) /\ (item.bad => textures)
    BY <2>1, <2>2
  <2>4. event' \in [Events -> Nat] /\ \A f \in Events : event'[f] <= Len(work) + 1
    BY <1>2, <2>1
  <2> QED
    BY <1>6, <2>1, <2>3, <2>4 DEF StreamWaitEvent, Submission
<1> QED
  BY <1>1, <1>3, <1>4, <1>5, <1>6

\* A call that is over at once: the history is left alone.
Quiet(t) ==
  /\ ret' = [ret EXCEPT ![t] = Forgotten]
  /\ streams' \subseteq {Null} \cup Named
  /\ pending' \in [Threads -> BOOLEAN] /\ aclLast' \in [Threads -> BOOLEAN]
  /\ UNCHANGED <<work, done, event, pc, call, textures>>

\* A waiting call starts: it knows how much work there is.
StartsAs(t, op, on, mark, label) ==
  /\ pc' = [pc EXCEPT ![t] = label]
  /\ call' = [call EXCEPT ![t] = [op |-> op, on |-> on, since |-> Len(work), mark |-> mark,
                                  failed |-> FALSE]]
  /\ mark <= Len(work)
  /\ \/ label = "sync" /\ op \in {"stream", "device", "copy"} /\ mark = Len(work)
     \/ label = "sync" /\ op = "event"
     \/ label = "check" /\ op = "hostcopy" /\ mark = Len(work)
     \/ label = "resolve" /\ op = "symbol"
  /\ op \in {"copy", "symbol"} => on = Null
  /\ ret' = [ret EXCEPT ![t] = Forgotten]
  /\ UNCHANGED <<device, errors, textures>>

Starts(t) ==
  \E op \in Operations, on \in Handles, mark \in Nat, label \in {"sync", "check", "resolve"} :
    StartsAs(t, op, on, mark, label)

\* Every first step of a call is over at once, asks, or starts a waiting call.
LEMMA CallShape ==
  ASSUME IInv, NEW t \in Threads, Calls(t)
  PROVE  Quiet(t) \/ Starts(t) \/ (\E s \in {Null} \cup Named : StreamQuery(t, s))
<1> USE DEF Immediate, Reported, Forgotten, errors, device
<1>1. /\ pending \in [Threads -> BOOLEAN] /\ aclLast \in [Threads -> BOOLEAN]
      /\ streams \subseteq {Null} \cup Named /\ Len(work) \in Nat
      /\ \A e \in Events : event[e] \in Nat /\ event[e] <= Len(work)
  BY DEF IInv, TypeOK
<1>2. ASSUME \/ NotReady(t) \/ Refuse(t) \/ DeviceCall(t) \/ HostMemory(t)
             \/ GetLastError(t) \/ PeekAtLastError(t) \/ Memset(t)
      PROVE  Quiet(t)
  BY <1>1, <1>2 DEF NotReady, Refuse, DeviceCall, HostMemory, GetLastError, PeekAtLastError,
                    Memset, Quiet
<1>3. ASSUME NEW s \in {Null} \cup Named,
             \/ StreamDestroy(t, s)
             \/ \E nonblocking \in BOOLEAN : StreamCreate(t, s, nonblocking)
             \/ \E p \in {-1, 4, 9} : StreamCreateWithPriority(t, s, p, 0, 7)
      PROVE  Quiet(t)
  BY <1>1, <1>3 DEF StreamDestroy, StreamCreate, StreamCreateWithPriority, Quiet
<1>4. ASSUME NEW e \in Events, EventQuery(t, e) PROVE Quiet(t)
  BY <1>1, <1>4 DEF EventQuery, Quiet
<1>5. ASSUME NEW k \in Tokens, SymbolNative(t, k) PROVE Quiet(t)
  BY <1>1, <1>5 DEF SymbolNative, Quiet
<1>6. ASSUME NEW s \in {Null} \cup Named, StreamSynchronize(t, s) PROVE Starts(t)
  <2>1. StartsAs(t, "stream", s, Len(work), "sync")
    BY <1>1, <1>6 DEF StreamSynchronize, Begin, StartsAs
  <2> QED
    BY <1>1, <2>1 DEF Starts, Operations, Handles
<1>7. ASSUME NEW e \in Events, EventSynchronize(t, e) PROVE Starts(t)
  <2>1. StartsAs(t, "event", e, event[e], "sync")
    BY <1>1, <1>7 DEF EventSynchronize, Begin, StartsAs
  <2> QED
    BY <1>1, <2>1 DEF Starts, Operations, Handles
<1>8. ASSUME DeviceSynchronize(t) PROVE Starts(t)
  <2>1. StartsAs(t, "device", Null, Len(work), "sync")
    BY <1>1, <1>8 DEF DeviceSynchronize, Begin, StartsAs
  <2> QED
    BY <1>1, <2>1 DEF Starts, Operations, Handles
<1>9. ASSUME NEW host \in BOOLEAN, Memcpy(t, host) PROVE Starts(t)
  <2>1. CASE host
    <3>1. StartsAs(t, "hostcopy", Null, Len(work), "check")
      BY <1>1, <1>9, <2>1 DEF Memcpy, Begin, StartsAs
    <3> QED
      BY <1>1, <3>1 DEF Starts, Operations, Handles
  <2>2. CASE ~host
    <3>1. StartsAs(t, "copy", Null, Len(work), "sync")
      BY <1>1, <1>9, <2>2 DEF Memcpy, Begin, StartsAs
    <3> QED
      BY <1>1, <3>1 DEF Starts, Operations, Handles
  <2> QED
    BY <2>1, <2>2
<1>10. ASSUME NEW k \in Tokens, SymbolCopy(t, k) PROVE Starts(t)
  <2>1. StartsAs(t, "symbol", Null, Len(work), "resolve")
    BY <1>1, <1>10 DEF SymbolCopy, Begin, StartsAs
  <2> QED
    BY <1>1, <2>1 DEF Starts, Operations, Handles
<1> QED
  BY <1>2, <1>3, <1>4, <1>5, <1>6, <1>7, <1>8, <1>9, <1>10 DEF Calls

\* A waiting call in progress touches its own thread and at most the error flags
\* and one kernel of its own.
Within(t) ==
  /\ \A u \in Threads \ {t} : pc'[u] = pc[u] /\ call'[u] = call[u] /\ ret'[u] = ret[u]
  /\ pc' \in [Threads -> Labels] /\ call' \in [Threads -> Records] /\ ret' \in [Threads -> Returns]
  /\ pending' \in [Threads -> BOOLEAN] /\ aclLast' \in [Threads -> BOOLEAN]
  /\ \/ UNCHANGED work
     \/ work' = Append(work, Item(Null, FALSE, 0))
  /\ UNCHANGED <<done, event, streams, textures>>

\* What the end of a call does to its thread.
LEMMA FinishShape ==
  ASSUME TypeOK, NEW t \in Threads, NEW status \in {"ok", "error", "notready"},
         Finish(t, status)
  PROVE  /\ pc'[t] = "idle" /\ call'[t] = NoCall
         /\ ret'[t] = [op |-> call[t].op, on |-> call[t].on, status |-> status,
                       since |-> call[t].since]
         /\ \A u \in Threads \ {t} : pc'[u] = pc[u] /\ call'[u] = call[u] /\ ret'[u] = ret[u]
         /\ pc' \in [Threads -> Labels] /\ call' \in [Threads -> Records]
         /\ ret' \in [Threads -> Returns]
<1>1. NoCall \in Records
  BY DEF NoCall, Records, Operations, Handles
<1>2. call[t].op \in Operations /\ call[t].on \in Handles /\ call[t].since \in Nat
  BY DEF TypeOK, Records
<1> QED
  BY <1>1, <1>2 DEF TypeOK, Finish, Reported, Labels, Returns

\* What going on to another step does.
LEMMA GotoShape ==
  ASSUME TypeOK, NEW t \in Threads, NEW label \in Labels, Goto(t, label)
  PROVE  /\ pc'[t] = label /\ ret' = ret
         /\ call'[t] = [op |-> call[t].op, on |-> call[t].on, since |-> call[t].since,
                        mark |-> Len(work), failed |-> call[t].failed]
         /\ \A u \in Threads \ {t} : pc'[u] = pc[u] /\ call'[u] = call[u]
         /\ pc' \in [Threads -> Labels] /\ call' \in [Threads -> Records]
<1>1. call[t] \in Records /\ Len(work) \in Nat
  BY DEF TypeOK
<1> QED
  BY <1>1 DEF TypeOK, Goto, Records

\* A finished call knows nothing more, and its report is true when it was earned.
LEMMA FinishTrue ==
  ASSUME IInv, NEW t \in Threads, NEW status \in {"ok", "error"}, Finish(t, status),
         UNCHANGED <<work, done>>,
         status = "ok" =>
           /\ call[t].op \in {"stream", "query"} => Ran(call[t].on, call[t].since)
           /\ call[t].op = "device" => AllRan(call[t].since)
           /\ call[t].op \in {"stream", "device", "event", "copy", "symbol"} =>
                Clean(call[t].since)
  PROVE  CallKnows(t)' /\ ReturnTrue(t)'
<1>1. /\ pc'[t] = "idle" /\ call'[t] = NoCall
      /\ ret'[t] = [op |-> call[t].op, on |-> call[t].on, status |-> status,
                    since |-> call[t].since]
  BY FinishShape DEF IInv
<1>2. call[t].since <= Len(work) /\ work' \in Seq(Items)
  BY DEF IInv, CallKnows, TypeOK
<1>3. CallKnows(t)'
  BY <1>1, <1>2, NothingKnown
<1>4. ReturnTrue(t)'
  BY <1>1, <1>2 DEF ReturnTrue, Ran, AllRan, Clean, On, All
<1> QED
  BY <1>3, <1>4

\* A call that goes on knows what its next step needs.
LEMMA GotoTrue ==
  ASSUME IInv, NEW t \in Threads, NEW label \in {"check", "copy"}, Goto(t, label),
         UNCHANGED <<work, done>>,
         label = "check" =>
           /\ call[t].op \in {"stream", "device", "event", "copy"}
           /\ call[t].op \in {"stream", "copy"} => Ran(call[t].on, call[t].since)
           /\ call[t].op = "device" => AllRan(call[t].since),
         label = "copy" =>
           /\ call[t].op \in {"copy", "hostcopy", "symbol"}
           /\ call[t].op # "hostcopy" =>
                Ran(call[t].on, call[t].since) /\ Clean(call[t].since)
  PROVE  CallKnows(t)' /\ ReturnTrue(t)'
<1>1. /\ TypeOK /\ CallKnows(t) /\ ReturnTrue(t) /\ Len(work) \in Nat
      /\ call[t].since \in Nat /\ call[t].since <= Len(work) /\ label \in Labels
  BY DEF IInv, TypeOK, Records, CallKnows, Labels
<1>2. /\ pc'[t] = label /\ ret' = ret
      /\ call'[t] = [op |-> call[t].op, on |-> call[t].on, since |-> call[t].since,
                     mark |-> Len(work), failed |-> call[t].failed]
  BY <1>1, GotoShape
<1>3. CallKnows(t)'
  BY <1>1, <1>2 DEF CallKnows, Ran, AllRan, Clean, On, All
<1>4. Grown
  BY <1>1 DEF Grown, TypeOK
<1>5. ReturnTrue(t)'
  BY <1>1, <1>2, <1>4, ReturnKept
<1> QED
  BY <1>3, <1>5

\* With the flags down and the device's work awaited, nothing so far was bad.
LEMMA FlagsDown ==
  ASSUME IInv, NEW t \in Threads, Checked(t), ~RaisedFlag, call[t].mark >= call[t].since
  PROVE  Clean(call[t].since)
<1>1. call[t].since \in Nat /\ call[t].mark \in Nat /\ call[t].since <= Len(work)
      /\ Len(work) \in Nat
  BY DEF IInv, TypeOK, Records, CallKnows
<1>2. CASE textures
  BY <1>1, <1>2 DEF Checked, RaisedFlag, flag, Clean, All
<1>3. CASE ~textures
  BY <1>1, <1>3 DEF IInv, BadNeedsTexture, Clean, All
<1> QED
  BY <1>2, <1>3

\* It is enough to look at the thread that steps.
LEMMA WithinKeeps ==
  ASSUME IInv, NEW t \in Threads, Within(t), CallKnows(t)', ReturnTrue(t)'
  PROVE  IInv'
<1>1. Item(Null, FALSE, 0) \in Items /\ ~Item(Null, FALSE, 0).bad
  BY ItemTypes
<1>2. Grown /\ Len(work) <= Len(work')
  <2>1. CASE UNCHANGED work
    BY <2>1 DEF Grown, Within, IInv, TypeOK
  <2>2. CASE work' = Append(work, Item(Null, FALSE, 0))
    BY <1>1, <2>2, AppendGrows DEF Within, IInv, TypeOK, Grown
  <2> QED
    BY <2>1, <2>2 DEF Within
<1>3. TypeOK'
  BY <1>2 DEF IInv, TypeOK, Within, Grown
<1>4. BadNeedsTexture'
  <2>1. CASE UNCHANGED work
    BY <2>1 DEF IInv, BadNeedsTexture, Within
  <2>2. CASE work' = Append(work, Item(Null, FALSE, 0))
    BY <1>1, <2>2, AppendClean DEF IInv, TypeOK, Within
  <2> QED
    BY <2>1, <2>2 DEF Within
<1>5. \A e \in Events : event'[e] <= Len(work')
  BY <1>2, <1>3 DEF IInv, TypeOK, Within
<1>6. \A u \in Threads : CallKnows(u)' /\ ReturnTrue(u)'
  BY <1>2, OthersKept DEF Within
<1> QED
  BY <1>3, <1>4, <1>5, <1>6 DEF IInv

\* Each step of a waiting call keeps the invariant.
LEMMA ContinuesKeeps ==
  ASSUME IInv, NEW t \in Threads, Continues(t)
  PROVE  IInv'
<1>0. /\ TypeOK /\ CallKnows(t) /\ ReturnTrue(t) /\ Len(work) \in Nat
      /\ call[t] \in Records /\ call[t].since \in Nat /\ call[t].mark \in Nat
      /\ call[t].since <= Len(work) /\ call[t].mark <= Len(work)
  BY DEF IInv, TypeOK, Records, CallKnows
<1> USE DEF device, errors
<1>1. ASSUME WaitFor(t) PROVE IInv'
  <2>1. /\ pc[t] = "sync" /\ Awaits(t) \subseteq done /\ Goto(t, "check")
        /\ UNCHANGED <<device, registry, errors, asked, textures>>
    BY <1>1 DEF WaitFor
  <2>2. Within(t)
    BY <1>0, <2>1, GotoShape DEF Within, Labels, TypeOK
  <2>3. /\ call[t].op \in {"stream", "device", "event", "copy"}
        /\ call[t].op # "event" => call[t].mark = call[t].since
    BY <1>0, <2>1 DEF CallKnows
  <2>4. /\ call[t].op \in {"stream", "copy"} => Ran(call[t].on, call[t].since)
        /\ call[t].op = "device" => AllRan(call[t].since)
    BY <2>1, <2>3 DEF Awaits, Ran, AllRan
  <2>5. CallKnows(t)' /\ ReturnTrue(t)'
    BY <2>1, <2>3, <2>4, GotoTrue
  <2> QED
    BY <2>2, <2>5, WithinKeeps
<1>2. ASSUME WaitFails(t) PROVE IInv'
  <2>1. Finish(t, "error") /\ UNCHANGED <<device, registry, pending, asked, textures>>
        /\ aclLast' \in [Threads -> BOOLEAN]
    BY <1>0, <1>2 DEF WaitFails, TypeOK
  <2>2. Within(t)
    BY <1>0, <2>1, FinishShape DEF Within, TypeOK
  <2>3. CallKnows(t)' /\ ReturnTrue(t)'
    BY <2>1, FinishTrue
  <2> QED
    BY <2>2, <2>3, WithinKeeps
<1>3. ASSUME CheckPending(t) PROVE IInv'
  <2>1. pc[t] = "check" /\ Checked(t) /\ UNCHANGED <<device, registry, errors, asked, textures>>
    BY <1>3 DEF CheckPending
  <2>2. /\ call[t].op \in {"stream", "device", "event", "copy", "hostcopy"}
        /\ call[t].mark >= call[t].since
        /\ call[t].op \in {"stream", "copy"} => Ran(call[t].on, call[t].since)
        /\ call[t].op = "device" => AllRan(call[t].since)
    BY <1>0, <2>1 DEF CallKnows
  <2>3. CASE RaisedFlag
    <3>1. Finish(t, "error")
      BY <1>3, <2>3 DEF CheckPending
    <3>2. Within(t)
      BY <1>0, <2>1, <3>1, FinishShape DEF Within, TypeOK
    <3>3. CallKnows(t)' /\ ReturnTrue(t)'
      BY <2>1, <3>1, FinishTrue
    <3> QED
      BY <3>2, <3>3, WithinKeeps
  <2>4. CASE ~RaisedFlag /\ call[t].op \in {"copy", "hostcopy"}
    <3>1. Goto(t, "copy")
      BY <1>3, <2>4 DEF CheckPending
    <3>2. Within(t)
      BY <1>0, <2>1, <3>1, GotoShape DEF Within, Labels, TypeOK
    <3>3. Clean(call[t].since)
      BY <2>1, <2>2, <2>4, FlagsDown
    <3>4. CallKnows(t)' /\ ReturnTrue(t)'
      BY <2>1, <2>2, <2>4, <3>1, <3>3, GotoTrue
    <3> QED
      BY <3>2, <3>4, WithinKeeps
  <2>5. CASE ~RaisedFlag /\ call[t].op \notin {"copy", "hostcopy"}
    <3>1. Finish(t, "ok")
      BY <1>3, <2>5 DEF CheckPending
    <3>2. Within(t)
      BY <1>0, <2>1, <3>1, FinishShape DEF Within, TypeOK
    <3>3. Clean(call[t].since)
      BY <2>1, <2>2, <2>5, FlagsDown
    <3>4. CallKnows(t)' /\ ReturnTrue(t)'
      BY <2>1, <2>2, <2>5, <3>1, <3>3, FinishTrue
    <3> QED
      BY <3>2, <3>4, WithinKeeps
  <2> QED
    BY <2>3, <2>4, <2>5
<1>4. ASSUME ImmediateCopy(t) PROVE IInv'
  <2>1. pc[t] = "copy" /\ Finish(t, "ok") /\ UNCHANGED <<device, registry, errors, asked, textures>>
    BY <1>4 DEF ImmediateCopy
  <2>2. Within(t)
    BY <1>0, <2>1, FinishShape DEF Within, TypeOK
  <2>3. /\ call[t].op \in {"copy", "hostcopy", "symbol"}
        /\ call[t].op # "hostcopy" => Clean(call[t].since)
    BY <1>0, <2>1 DEF CallKnows
  <2>4. CallKnows(t)' /\ ReturnTrue(t)'
    BY <2>1, <2>3, FinishTrue
  <2> QED
    BY <2>2, <2>4, WithinKeeps
<1>5. ASSUME Resolve(t) PROVE IInv'
  <2>1. pc[t] = "resolve" /\ UNCHANGED <<device, registry, errors, asked, textures>>
    BY <1>5 DEF Resolve
  <2>2. CASE Finish(t, "error")
    <3>1. Within(t)
      BY <1>0, <2>1, <2>2, FinishShape DEF Within, TypeOK
    <3>2. CallKnows(t)' /\ ReturnTrue(t)'
      BY <2>1, <2>2, FinishTrue
    <3> QED
      BY <3>1, <3>2, WithinKeeps
  <2>3. CASE pc' = [pc EXCEPT ![t] = "address"] /\ UNCHANGED <<call, ret>>
    <3>1. Within(t)
      BY <1>0, <2>1, <2>3 DEF Within, TypeOK, Labels
    <3>2. CallKnows(t)'
      BY <1>0, <2>1, <2>3 DEF CallKnows, TypeOK, Ran, AllRan, Clean, On, All
    <3>3. ReturnTrue(t)'
      BY <1>0, <2>1, <2>3, ReturnKept DEF Grown, TypeOK
    <3> QED
      BY <3>1, <3>2, <3>3, WithinKeeps
  <2> QED
    BY <1>5, <2>2, <2>3 DEF Resolve
<1>6. ASSUME LaunchAddress(t) PROVE IInv'
  <2>1. /\ pc[t] = "address" /\ pc' = [pc EXCEPT ![t] = "launched"]
        /\ work' = work \/ work' = Append(work, Item(Null, FALSE, 0))
        /\ aclLast' \in [Threads -> BOOLEAN]
        /\ UNCHANGED <<call, ret, done, streams, event, registry, pending, asked, textures>>
    BY <1>0, <1>6 DEF LaunchAddress, Submit, TypeOK
  <2>2. Grown
    <3>1. Item(Null, FALSE, 0) \in Items
      BY ItemTypes
    <3>2. CASE work' = work
      BY <1>0, <2>1, <3>2 DEF Grown, TypeOK
    <3>3. CASE work' = Append(work, Item(Null, FALSE, 0))
      BY <1>0, <2>1, <3>1, <3>3, AppendGrows DEF TypeOK
    <3> QED
      BY <2>1, <3>2, <3>3
  <2>3. Within(t)
    BY <1>0, <2>1 DEF Within, TypeOK, Labels
  <2>4. CallKnows(t)'
    BY <1>0, <2>1, <2>2 DEF CallKnows, TypeOK, Grown
  <2>5. ReturnTrue(t)'
    BY <1>0, <2>1, <2>2, ReturnKept
  <2> QED
    BY <2>3, <2>4, <2>5, WithinKeeps
<1>7. ASSUME AddressLaunched(t) PROVE IInv'
  <2>1. /\ pc[t] = "launched"
        /\ pc' = [pc EXCEPT ![t] = IF pending[t] \/ aclLast[t] THEN "free" ELSE "await"]
        /\ call' = [call EXCEPT ![t].failed = pending[t] \/ aclLast[t], ![t].mark = Len(work)]
        /\ UNCHANGED <<device, registry, ret, asked, textures>>
        /\ pending' \in [Threads -> BOOLEAN] /\ aclLast' \in [Threads -> BOOLEAN]
    BY <1>0, <1>7 DEF AddressLaunched, TypeOK
  <2>2. Within(t)
    BY <1>0, <2>1 DEF Within, TypeOK, Labels, Records
  <2>3. CallKnows(t)'
    BY <1>0, <2>1 DEF CallKnows, TypeOK, Records, Ran, AllRan, Clean, On, All
  <2>4. ReturnTrue(t)'
    BY <1>0, <2>1, ReturnKept DEF Grown, TypeOK
  <2> QED
    BY <2>2, <2>3, <2>4, WithinKeeps
<1>8. ASSUME AddressAwaited(t) PROVE IInv'
  <2>1. /\ pc[t] = "await" /\ pc' = [pc EXCEPT ![t] = "free"]
        /\ UNCHANGED <<device, registry, pending, ret, asked, textures>>
        /\ aclLast' \in [Threads -> BOOLEAN]
        /\ \/ /\ Ran(Null, call[t].mark) /\ Checked(t)
              /\ call' = [call EXCEPT ![t].failed = RaisedFlag]
           \/ call' = [call EXCEPT ![t].failed = TRUE]
    BY <1>0, <1>8 DEF AddressAwaited, TypeOK, Ran
  <2>2. RaisedFlag \in BOOLEAN
    BY <1>0 DEF RaisedFlag, TypeOK
  <2>3. PICK failed \in BOOLEAN : /\ call' = [call EXCEPT ![t].failed = failed]
                                  /\ ~failed => Ran(Null, call[t].mark) /\ Checked(t) /\ ~RaisedFlag
    BY <2>1, <2>2
  <2>9. Within(t)
    BY <1>0, <2>1, <2>3 DEF Within, TypeOK, Labels, Records
  <2>4. /\ call[t].op = "symbol" /\ call[t].on = Null /\ call[t].mark >= call[t].since
    BY <1>0, <2>1 DEF CallKnows
  <2>5. Ran(Null, call[t].mark) => Ran(Null, call[t].since)
    BY <1>0, <2>4 DEF Ran, On
  <2>6. Checked(t) /\ ~RaisedFlag => Clean(call[t].since)
    BY <2>4, FlagsDown
  <2>7. CallKnows(t)'
    BY <1>0, <2>1, <2>3, <2>4, <2>5, <2>6 DEF CallKnows, TypeOK, Records, Ran, AllRan, Clean, On, All
  <2>8. ReturnTrue(t)'
    BY <1>0, <2>1, ReturnKept DEF Grown, TypeOK
  <2> QED
    BY <2>7, <2>8, <2>9, WithinKeeps
<1>9. ASSUME AddressFree(t) PROVE IInv'
  <2>1. pc[t] = "free" /\ UNCHANGED <<device, registry, errors, asked, textures>>
    BY <1>9 DEF AddressFree
  <2>2. CASE Finish(t, "error")
    <3>1. Within(t)
      BY <1>0, <2>1, <2>2, FinishShape DEF Within, TypeOK
    <3>2. CallKnows(t)' /\ ReturnTrue(t)'
      BY <2>1, <2>2, FinishTrue
    <3> QED
      BY <3>1, <3>2, WithinKeeps
  <2>3. CASE ~call[t].failed /\ Goto(t, "copy")
    <3>1. Within(t)
      BY <1>0, <2>1, <2>3, GotoShape DEF Within, Labels, TypeOK
    <3>2. /\ call[t].op = "symbol"
          /\ Ran(call[t].on, call[t].since) /\ Clean(call[t].since)
      BY <1>0, <2>1, <2>3 DEF CallKnows
    <3>3. CallKnows(t)' /\ ReturnTrue(t)'
      BY <2>1, <2>3, <3>2, GotoTrue
    <3> QED
      BY <3>1, <3>3, WithinKeeps
  <2> QED
    BY <1>9, <2>2, <2>3 DEF AddressFree
<1> QED
  BY <1>1, <1>2, <1>3, <1>4, <1>5, <1>6, <1>7, <1>8, <1>9 DEF Continues

\* The first step of a waiting call keeps the invariant.
LEMMA StartsKeeps ==
  ASSUME IInv, NEW t \in Threads, Starts(t)
  PROVE  IInv'
<1>1. PICK op \in Operations, on \in Handles, mark \in Nat, label \in {"sync", "check", "resolve"} :
        StartsAs(t, op, on, mark, label)
  BY DEF Starts
<1>2. [op |-> op, on |-> on, since |-> Len(work), mark |-> mark, failed |-> FALSE] \in Records
      /\ Forgotten \in Returns /\ label \in Labels
  BY DEF IInv, TypeOK, Records, Forgotten, Returns, Operations, Handles, Labels
<1>3. Within(t)
  BY <1>1, <1>2 DEF StartsAs, Within, IInv, TypeOK, device, errors
<1>4. CallKnows(t)'
  <2>1. call'[t] = [op |-> op, on |-> on, since |-> Len(work), mark |-> mark, failed |-> FALSE]
        /\ pc'[t] = label /\ work' = work /\ Len(work) \in Nat /\ mark <= Len(work)
    BY <1>1 DEF StartsAs, IInv, TypeOK, device
  <2> QED
    BY <1>1, <2>1 DEF StartsAs, CallKnows
<1>5. ReturnTrue(t)'
  BY <1>1, NothingReported DEF StartsAs, IInv, TypeOK, device
<1> QED
  BY <1>3, <1>4, <1>5, WithinKeeps

\* So does a call that is over at once, whatever streams and errors it leaves.
LEMMA QuietKeeps ==
  ASSUME IInv, NEW t \in Threads, Quiet(t)
  PROVE  IInv'
<1>1. Forgotten \in Returns
  BY DEF Forgotten, Returns, Operations, Handles
<1>2. TypeOK' /\ Grown
  BY <1>1 DEF Quiet, IInv, TypeOK, Grown
<1>3. \A u \in Threads \ {t} : pc'[u] = pc[u] /\ call'[u] = call[u] /\ ret'[u] = ret[u]
  BY DEF Quiet, IInv, TypeOK
<1>4. CallKnows(t)'
  BY <1>2, CallKept DEF Quiet, IInv
<1>5. ReturnTrue(t)'
  BY <1>2, NothingReported DEF Quiet, IInv, TypeOK
<1>6. \A u \in Threads : CallKnows(u)' /\ ReturnTrue(u)'
  BY <1>2, <1>3, <1>4, <1>5, OthersKept
<1> QED
  BY <1>2, <1>6 DEF IInv, Quiet, BadNeedsTexture

\* So does a submission.
LEMMA SubmissionKeeps ==
  ASSUME IInv, NEW t \in Threads, Submission(t)
  PROVE  IInv'
<1>1. PICK item \in Items : work' = Append(work, item) /\ (item.bad => textures)
  BY DEF Submission
<1>2. Grown /\ Len(work') = Len(work) + 1
  BY <1>1, AppendGrows DEF Submission, IInv, TypeOK
<1>3. Forgotten \in Returns
  BY DEF Forgotten, Returns, Operations, Handles
<1>4. TypeOK'
  BY <1>2, <1>3 DEF Submission, IInv, TypeOK, Grown, errors
<1>5. \A u \in Threads \ {t} : pc'[u] = pc[u] /\ call'[u] = call[u] /\ ret'[u] = ret[u]
  BY DEF Submission, IInv, TypeOK
<1>6. CallKnows(t)'
  BY <1>2, CallKept DEF Submission, IInv
<1>7. ReturnTrue(t)'
  BY <1>4, NothingReported DEF Submission, IInv, TypeOK
<1>8. \A u \in Threads : CallKnows(u)' /\ ReturnTrue(u)'
  BY <1>2, <1>5, <1>6, <1>7, OthersKept
<1>9. BadNeedsTexture'
  BY <1>1, AppendClean DEF Submission, IInv, TypeOK
<1> QED
  BY <1>2, <1>4, <1>8, <1>9 DEF IInv, Submission

\* A query reports what it saw.
LEMMA QueryKeeps ==
  ASSUME IInv, NEW t \in Threads, NEW s \in {Null} \cup Named, StreamQuery(t, s)
  PROVE  IInv'
<1>1. /\ UNCHANGED <<work, done, event, streams, pending, aclLast, pc, call, textures>>
      /\ \E status \in {"ok", "notready"} :
           /\ ret' = [ret EXCEPT ![t] = [op |-> "query", on |-> s, status |-> status,
                                         since |-> Len(work)]]
           /\ status = "ok" => Ran(s, Len(work))
  BY DEF StreamQuery, Reported, Ran, device, errors
<1>2. PICK status \in {"ok", "notready"} :
        /\ ret' = [ret EXCEPT ![t] = [op |-> "query", on |-> s, status |-> status,
                                      since |-> Len(work)]]
        /\ status = "ok" => Ran(s, Len(work))
  BY <1>1
<1>3. [op |-> "query", on |-> s, status |-> status, since |-> Len(work)] \in Returns
  BY DEF Returns, Operations, Handles, IInv, TypeOK
<1>4. Within(t) /\ Grown
  BY <1>1, <1>2, <1>3 DEF Within, IInv, TypeOK, Grown
<1>5. CallKnows(t)'
  BY <1>1, <1>4, CallKept DEF IInv
<1>6. ReturnTrue(t)'
  BY <1>1, <1>2 DEF ReturnTrue, IInv, TypeOK, Ran, On
<1> QED
  BY <1>4, <1>5, <1>6, WithinKeeps

\* And so does the device running what was submitted.
LEMMA RunKeeps ==
  ASSUME IInv, NEW i \in DOMAIN work, Run(i)
  PROVE  IInv'
<1>1. /\ UNCHANGED <<work, streams, event, pending, aclLast, pc, call, ret, textures>>
      /\ done' = done \cup {i} /\ i \in Nat
  BY DEF Run, IInv, TypeOK
<1>2. TypeOK' /\ Grown
  <2>1. done' \subseteq Nat /\ done \subseteq done'
    BY <1>1 DEF IInv, TypeOK
  <2>2. TypeOK'
    BY <1>1, <2>1, Zenon DEF IInv, TypeOK
  <2>3. Grown
    BY <1>1, <2>1 DEF IInv, TypeOK, Grown
  <2> QED
    BY <2>2, <2>3
<1>3. \A u \in Threads : CallKnows(u)' /\ ReturnTrue(u)'
  BY <1>1, <1>2, CallKept, ReturnKept DEF IInv
<1> QED
  BY <1>1, <1>2, <1>3 DEF IInv, BadNeedsTexture

-----------------------------------------------------------------------------
\* Every step of every thread and of the device preserves the invariant.
LEMMA IInvNext == IInv /\ [Next]_vars => IInv'
<1> SUFFICES ASSUME IInv, [Next]_vars PROVE IInv'
  OBVIOUS
<1>1. ASSUME NEW t \in Threads, Submits(t) PROVE IInv'
  BY <1>1, SubmitShape, SubmissionKeeps
<1>2. ASSUME NEW t \in Observed, Calls(t) PROVE IInv'
  BY <1>2, CallsAssumption, CallShape, QuietKeeps, StartsKeeps, QueryKeeps
<1>3. ASSUME NEW t \in Observed, Continues(t) PROVE IInv'
  BY <1>3, CallsAssumption, ContinuesKeeps
<1>4. ASSUME NEW i \in DOMAIN work, Run(i) PROVE IInv'
  BY <1>4, RunKeeps
<1>5. ASSUME UNCHANGED <<work, done, event, streams, pending, aclLast, pc, call, ret, textures>>
      PROVE  IInv'
  <2>1. TypeOK' /\ Grown
    BY <1>5 DEF IInv, TypeOK, Grown
  <2>2. \A u \in Threads : CallKnows(u)' /\ ReturnTrue(u)'
    BY <1>5, <2>1, CallKept, ReturnKept DEF IInv
  <2> QED
    BY <1>5, <2>1, <2>2 DEF IInv, BadNeedsTexture
<1>6. ASSUME NEW k \in Tokens, Register(k) PROVE IInv'
  BY <1>5, <1>6 DEF Register, device, errors
<1>7. ASSUME NEW q \in Questions, Ask(q) PROVE IInv'
  BY <1>5, <1>7 DEF Ask, device, errors
<1>8. ASSUME UNCHANGED vars PROVE IInv'
  BY <1>5, <1>8 DEF vars
<1> QED
  BY <1>1, <1>2, <1>3, <1>4, <1>6, <1>7, <1>8 DEF Next, Over

\* Every variable of the runtime calls keeps its type.
THEOREM TypeCorrect == Spec => []TypeOK
<1>1. IInv => TypeOK
  BY DEF IInv
<1> QED
  BY <1>1, IInvInit, IInvNext, PTL DEF Spec

\* For every number of threads and any amount of work, a blocking copy, and a
\* copy to or from a device symbol, moves its bytes after the default-stream
\* work that was submitted before the call.
THEOREM CopiesFollowWork == Spec => []CopyOrdered
<1>1. IInv => CopyOrdered
  BY DEF IInv, CallKnows, CopyOrdered, Ran
<1> QED
  BY <1>1, IInvInit, IInvNext, PTL DEF Spec

\* A waiting call that returns success has waited for what it names, and no work
\* before it misused a texture handle; a query that says complete is right.
THEOREM WaitsAreHonest == Spec => []SyncHonest
<1>1. IInv => SyncHonest
  BY DEF IInv, ReturnTrue, SyncHonest, Ran, AllRan, Clean
<1> QED
  BY <1>1, IInvInit, IInvNext, PTL DEF Spec

-----------------------------------------------------------------------------
(* Launch bounds of kernels                                                *)

\* The plan speaks of kernels and calls of the source.
BoundTypeOK ==
  /\ bsource \in BoundSources /\ bnext \in Nat \ {0}
  /\ bphase \in {"match", "prove", "tokens", "audit", "published", "refused"}
  /\ DOMAIN bounded \subseteq KernelNames /\ policies \subseteq KernelNames
  /\ DOMAIN callees \subseteq DOMAIN bsource.queries
  /\ objects \subseteq DOMAIN bsource.queries /\ annotated \subseteq policies

\* Whichever kernel arrives at this call, b is its bound and its annotation is planned.
Holds(i, b) ==
  /\ b # 0
  /\ \A n \in Arriving(Query(i)) :
       /\ n \in KernelNames /\ AddKernel(n) = b
       /\ NeedsPolicy(bsource.kernels[n]) => n \in policies

\* What is written into a call holds, and occupancy calls are written only for the
\* pure target.
CalleesHold ==
  \A i \in DOMAIN callees : Holds(i, callees[i]) /\ (Occupancy(i) => Enabled)

\* A proven attribute object is only read, and its call is in the plan.
ObjectsProven ==
  \A i \in objects :
    /\ ~Occupancy(i) /\ OnlyReads(Query(i)) /\ i \in DOMAIN callees
    /\ Query(i).arg \in DOMAIN bounded

\* Past the matcher nothing is planned for another target.
PureOnly ==
  bphase \in {"prove", "tokens", "audit", "published"} /\ ~Enabled => bounded = <<>>

\* The calls behind the proof are written.
OccupanciesProven ==
  /\ bphase = "prove" => \A i \in DOMAIN bsource.queries : i < bnext /\ Occupancy(i) => i \in DOMAIN callees
  /\ bphase \in {"tokens", "audit", "published"} =>
       \A i \in DOMAIN bsource.queries : Occupancy(i) => i \in DOMAIN callees

\* What is published is annotated and observes only proven objects.
Audited ==
  /\ bphase \in {"audit", "published"} => annotated = policies
  /\ bphase = "published" =>
       \A i \in DOMAIN bsource.queries :
         ~Occupancy(i) /\ Observes(Query(i)) => i \in objects

BoundInv ==
  /\ BoundTypeOK /\ CalleesHold /\ ObjectsProven /\ PureOnly /\ OccupanciesProven /\ Audited
  /\ PublishedBoundTrue

-----------------------------------------------------------------------------
(* The operators *)

\* The calls and callers of a source are sequences of records.
LEMMA SourceFacts ==
  ASSUME bsource \in BoundSources
  PROVE  /\ bsource.queries \in Seq(BoundQueries) /\ bsource.helper.callers \in Seq(BoundCallers)
         /\ DOMAIN bsource.queries = 1 .. Len(bsource.queries) /\ Len(bsource.queries) \in Nat
         /\ DOMAIN bsource.helper.callers = 1 .. Len(bsource.helper.callers)
         /\ Len(bsource.helper.callers) \in Nat
         /\ "any" \notin KernelNames
<1>1. /\ bsource.queries \in Seq(BoundQueries) /\ bsource.helper.callers \in Seq(BoundCallers)
      /\ "any" \notin KernelNames
  BY BoundSourcesAssumption DEF KernelNames
<1> QED
  BY <1>1

\* A kernel has a bound only if its signature can be read and its annotation has an
\* owner; the bound is the literal that is written, or the converter's choice.
LEMMA AddKernelFacts ==
  ASSUME bsource \in BoundSources, NEW n \in KernelNames, AddKernel(n) # 0
  PROVE  LET k == bsource.kernels[n]
         IN  /\ k.shape \notin {"template", "redeclared", "nested", "attributed", "macro",
                                "conditional", "requalified"}
             /\ NeedsPolicy(k) <=> k.written = 0
             /\ k.written = 0 => AddKernel(n) = DefaultBound
             /\ k.written # 0 => AddKernel(n) = k.written /\ k.onTarget = k.written
             /\ AddKernel(n) > 0
<1> DEFINE k == bsource.kernels[n]
<1>1. /\ k \in BoundKernels
      /\ k.shape \notin {"expression", "macro", "conditional", "requalified"} /\ k.args = 1 =>
           k.onTarget = k.written
  BY BoundSourcesAssumption DEF KernelNames
<1>2. ProvePureSimtKernelThreadBound(k) # 0 /\ AddKernel(n) = ProvePureSimtKernelThreadBound(k)
  BY DEF AddKernel
<1> HIDE DEF k
<1>3. k.written \in Nat
  BY <1>1 DEF BoundKernels
<1>4. /\ k.shape \notin {"template", "redeclared", "nested", "attributed", "macro", "conditional",
                         "requalified"}
      /\ k.written # 0 => k.args = 1 /\ k.shape # "expression"
      /\ AddKernel(n) = IF k.written # 0 THEN k.written ELSE DefaultBound
  BY <1>2 DEF ProvePureSimtKernelThreadBound, StableSignature, TrustedQualifier
<1>5. DefaultBound \in Nat /\ DefaultBound > 0
  BY BoundAssumption
<1>6. /\ k.shape \notin {"template", "redeclared", "nested", "attributed", "macro", "conditional",
                         "requalified"}
      /\ NeedsPolicy(k) <=> k.written = 0
      /\ k.written = 0 => AddKernel(n) = DefaultBound
      /\ k.written # 0 => AddKernel(n) = k.written /\ k.onTarget = k.written
      /\ AddKernel(n) > 0
  BY <1>1, <1>3, <1>4, <1>5 DEF NeedsPolicy
<1> QED
  BY <1>6 DEF k

\* A helper with a bound is closed, and all its callers pass kernels of that bound.
LEMMA ClosedHelperFacts ==
  ASSUME bsource \in BoundSources, ClosedHelper(bsource.helper) # 0
  PROVE  LET h == bsource.helper
         IN  /\ h.text = "closed" /\ h.static /\ ~h.escapes /\ ~h.observed /\ ~h.hidden
             /\ \A c \in DOMAIN h.callers :
                  /\ h.callers[c].actual \in KernelNames
                  /\ AddKernel(h.callers[c].actual) = ClosedHelper(h)
<1> DEFINE h == bsource.helper
<1>1. DOMAIN h.callers = 1 .. Len(h.callers) /\ Len(h.callers) \in Nat
  BY SourceFacts
<1> HIDE DEF h
<1>2. ClosedHelper(h) # 0
  BY DEF h
<1>3. /\ h.text = "closed" /\ h.static /\ ~h.escapes /\ ~h.observed /\ ~h.hidden
      /\ Len(h.callers) # 0
      /\ \A c \in DOMAIN h.callers : h.callers[c].actual \in KernelNames
      /\ \A c, d \in DOMAIN h.callers :
           AddKernel(h.callers[c].actual) = AddKernel(h.callers[d].actual)
      /\ ClosedHelper(h) = AddKernel(h.callers[1].actual)
  BY <1>2 DEF ClosedHelper, ClosedInput, RawNameUses, DirectKernel
<1>4. 1 \in DOMAIN h.callers
  BY <1>1, <1>3
<1>5. \A c \in DOMAIN h.callers : AddKernel(h.callers[c].actual) = ClosedHelper(h)
  BY <1>3, <1>4
<1> QED
  BY <1>3, <1>5 DEF h

\* What arrives at an occupancy call with a bound is staged with it, and has it.
LEMMA QueryFacts ==
  ASSUME bsource \in BoundSources, NEW q, QueryBound(q) # 0
  PROVE  /\ Enabled /\ Staged(q.arg) \subseteq KernelNames
         /\ \A n \in Arriving(q) : n \in Staged(q.arg) /\ AddKernel(n) = QueryBound(q)
<1>1. CASE DirectKernel(q.arg)
  <2>1. Enabled /\ QueryBound(q) = AddKernel(q.arg)
    BY <1>1 DEF QueryBound
  <2>2. Staged(q.arg) = {q.arg} /\ Arriving(q) = {q.arg} /\ q.arg \in KernelNames
    BY <1>1 DEF Staged, Arriving, DirectKernel
  <2> QED
    BY <2>1, <2>2
<1>2. CASE ~DirectKernel(q.arg)
  <2>1. Enabled /\ q.arg = "p" /\ QueryBound(q) = ClosedHelper(bsource.helper)
    BY <1>2 DEF QueryBound
  <2> DEFINE h == bsource.helper
  <2>2. /\ h.text = "closed" /\ h.static /\ ~h.escapes /\ ~h.observed /\ ~h.hidden
        /\ \A c \in DOMAIN h.callers :
             /\ h.callers[c].actual \in KernelNames
             /\ AddKernel(h.callers[c].actual) = ClosedHelper(h)
    BY <2>1, ClosedHelperFacts
  <2>3. Staged(q.arg) = {h.callers[c].actual : c \in DOMAIN h.callers}
    BY <1>2 DEF Staged
  <2>4. Arriving(q) = {n \in KernelNames : \E c \in DOMAIN h.callers : h.callers[c].actual \in {n, "any"}}
    BY <1>2, <2>1, <2>2 DEF Arriving
  <2>5. "any" \notin KernelNames
    BY SourceFacts
  <2> QED
    BY <2>1, <2>2, <2>3, <2>4, <2>5
<1> QED
  BY <1>1, <1>2

\* What recording a call changes.
LEMMA RecordFacts ==
  ASSUME NEW i, NEW ns \in SUBSET KernelNames, NEW b, Record(i, ns, b)
  PROVE  /\ DOMAIN callees' = DOMAIN callees \cup {i} /\ callees'[i] = b
         /\ \A j \in DOMAIN callees : j # i => callees'[j] = callees[j]
         /\ DOMAIN bounded' = DOMAIN bounded \cup ns
         /\ policies' = policies \cup {n \in ns : NeedsPolicy(bsource.kernels[n])}
  BY DEF Record, Put

-----------------------------------------------------------------------------
(* The invariant *)

\* The matcher has not looked at a call yet.
LEMMA InitHolds == BoundInit => BoundInv
<1> SUFFICES ASSUME BoundInit PROVE BoundInv
  OBVIOUS
<1>1. DOMAIN bounded = {} /\ DOMAIN callees = {} /\ DOMAIN answer = {}
  BY DEF BoundInit
<1>2. BoundTypeOK
  BY <1>1 DEF BoundInit, BoundTypeOK
<1> QED
  BY <1>1, <1>2 DEF BoundInit, BoundInv, CalleesHold, ObjectsProven, PureOnly,
     OccupanciesProven, Audited, PublishedBoundTrue

\* Recording a call whose kernels have its bound keeps what is written true.
LEMMA RecordKeeps ==
  ASSUME BoundInv, bsource' = bsource,
         NEW i \in DOMAIN bsource.queries, NEW ns \in SUBSET KernelNames, NEW b, Record(i, ns, b),
         b # 0, \A n \in Arriving(Query(i)) : n \in ns /\ AddKernel(n) = b,
         Occupancy(i) => Enabled
  PROVE  /\ CalleesHold' /\ DOMAIN bounded' \subseteq KernelNames' /\ policies' \subseteq KernelNames'
         /\ DOMAIN callees' \subseteq DOMAIN bsource'.queries
         /\ policies \subseteq policies' /\ DOMAIN bounded \subseteq DOMAIN bounded'
         /\ DOMAIN callees \subseteq DOMAIN callees' /\ i \in DOMAIN callees'
         /\ ns \subseteq DOMAIN bounded'
<1>1. /\ DOMAIN callees' = DOMAIN callees \cup {i} /\ callees'[i] = b
      /\ \A j \in DOMAIN callees : j # i => callees'[j] = callees[j]
      /\ DOMAIN bounded' = DOMAIN bounded \cup ns
      /\ policies' = policies \cup {n \in ns : NeedsPolicy(bsource.kernels[n])}
  BY RecordFacts
<1>2. BoundTypeOK /\ CalleesHold
  BY DEF BoundInv
<1>3. /\ \A j : Query(j)' = Query(j) /\ Occupancy(j)' = Occupancy(j)
      /\ \A j : Arriving(Query(j))' = Arriving(Query(j))
      /\ \A n : AddKernel(n)' = AddKernel(n)
      /\ KernelNames' = KernelNames /\ Enabled' = Enabled
  BY DEF Query, Occupancy, Arriving, DirectKernel, AddKernel, KernelNames, Enabled
<1>4. ASSUME NEW j \in DOMAIN callees'
      PROVE  Holds(j, callees[j])' /\ (Occupancy(j) => Enabled)'
  <2>1. CASE j = i
    <3>1. /\ callees'[j] = b
          /\ \A n \in Arriving(Query(j)) :
               NeedsPolicy(bsource.kernels[n]) => n \in policies'
      BY <1>1, <2>1
    <3> QED
      BY <1>3, <2>1, <3>1 DEF Holds
  <2>2. CASE j # i
    <3>1. j \in DOMAIN callees /\ callees'[j] = callees[j]
      BY <1>1, <2>2
    <3>2. Holds(j, callees[j]) /\ (Occupancy(j) => Enabled)
      BY <1>2, <3>1 DEF CalleesHold
    <3> QED
      BY <1>1, <1>3, <3>1, <3>2 DEF Holds
  <2> QED
    BY <2>1, <2>2
<1>5. CalleesHold'
  BY <1>4 DEF CalleesHold
<1>6. /\ DOMAIN bounded \subseteq KernelNames /\ policies \subseteq KernelNames
      /\ DOMAIN callees \subseteq DOMAIN bsource.queries
  BY <1>2 DEF BoundTypeOK
<1> QED
  BY <1>1, <1>3, <1>5, <1>6

\* Steps that record nothing keep what is written true.
LEMMA StillHolds ==
  ASSUME CalleesHold, UNCHANGED <<bsource, callees, policies>>
  PROVE  CalleesHold'
BY DEF CalleesHold, Holds, Query, Occupancy, Arriving, DirectKernel, AddKernel, KernelNames,
   Enabled, NeedsPolicy

\* An attribute call.
LEMMA AttributeNext ==
  ASSUME BoundInv, NEW i \in DOMAIN bsource.queries, RewriteProvenKernelAttributeCall(i)
  PROVE  BoundInv'
<1>1. /\ bphase = "match" /\ bphase' = "match" /\ bnext' = bnext + 1
      /\ UNCHANGED <<bsource, annotated, answer>>
  BY DEF RewriteProvenKernelAttributeCall
<1>2. BoundTypeOK /\ CalleesHold /\ ObjectsProven /\ PublishedBoundTrue
  BY DEF BoundInv
<1>3. /\ KernelNames' = KernelNames /\ DOMAIN bsource'.queries = DOMAIN bsource.queries
      /\ \A j : Query(j)' = Query(j) /\ Occupancy(j)' = Occupancy(j)
      /\ \A j : OnlyReads(Query(j))' = OnlyReads(Query(j))
  BY <1>1 DEF KernelNames, Query, Occupancy, OnlyReads
<1>4. PureOnly' /\ OccupanciesProven' /\ Audited'
  BY <1>1 DEF PureOnly, OccupanciesProven, Audited
<1>5. PublishedBoundTrue'
  BY <1>1, <1>2 DEF PublishedBoundTrue
<1>6. bnext' \in Nat \ {0}
  BY <1>1, <1>2 DEF BoundTypeOK
<1>7. CASE UNCHANGED <<callees, bounded, policies, objects>>
  <2>1. BoundTypeOK'
    BY <1>1, <1>2, <1>3, <1>6, <1>7 DEF BoundTypeOK
  <2>2. CalleesHold'
    BY <1>1, <1>2, <1>7, StillHolds
  <2>3. ObjectsProven'
    BY <1>1, <1>2, <1>3, <1>7 DEF ObjectsProven
  <2> QED
    BY <1>4, <1>5, <2>1, <2>2, <2>3 DEF BoundInv
<1>8. CASE /\ ~Occupancy(i) /\ OnlyReads(Query(i)) /\ AttributeKernel(Query(i))
           /\ AddKernel(Query(i).arg) # 0
           /\ Record(i, {Query(i).arg}, AddKernel(Query(i).arg)) /\ objects' = objects \cup {i}
  <2> DEFINE arg == Query(i).arg
  <2>1. arg \in KernelNames /\ Arriving(Query(i)) = {arg}
    BY <1>8 DEF AttributeKernel, DirectKernel, Arriving
  <2>2. /\ CalleesHold' /\ DOMAIN bounded' \subseteq KernelNames' /\ policies' \subseteq KernelNames'
        /\ DOMAIN callees' \subseteq DOMAIN bsource'.queries
        /\ policies \subseteq policies' /\ DOMAIN bounded \subseteq DOMAIN bounded'
        /\ DOMAIN callees \subseteq DOMAIN callees' /\ i \in DOMAIN callees'
        /\ {arg} \subseteq DOMAIN bounded'
    BY <1>1, <1>8, <2>1, RecordKeeps
  <2>3. BoundTypeOK'
    BY <1>1, <1>2, <1>3, <1>6, <1>8, <2>2 DEF BoundTypeOK
  <2>4. ObjectsProven'
    BY <1>1, <1>2, <1>3, <1>8, <2>2 DEF ObjectsProven
  <2> QED
    BY <1>4, <1>5, <2>2, <2>3, <2>4 DEF BoundInv
<1> QED
  BY <1>7, <1>8 DEF RewriteProvenKernelAttributeCall

\* The occupancy proof begins.
LEMMA BeginNext == BoundInv /\ BeginProof => BoundInv'
<1> SUFFICES ASSUME BoundInv, BeginProof PROVE BoundInv'
  OBVIOUS
<1>1. /\ bnext' = 1 /\ bphase' \in {"refused", "prove"}
      /\ bphase' = "prove" => Enabled \/ bounded = <<>>
      /\ UNCHANGED <<bsource, bounded, policies, callees, objects, annotated, answer>>
  BY DEF BeginProof
<1>2. BoundTypeOK /\ CalleesHold /\ ObjectsProven /\ PublishedBoundTrue
  BY DEF BoundInv
<1>3. BoundTypeOK'
  BY <1>1, <1>2 DEF BoundTypeOK, KernelNames
<1>4. CalleesHold'
  BY <1>1, <1>2, StillHolds
<1>5. ObjectsProven' /\ PublishedBoundTrue'
  BY <1>1, <1>2 DEF ObjectsProven, PublishedBoundTrue, Occupancy, OnlyReads, Query
<1>6. PureOnly'
  BY <1>1 DEF PureOnly, Enabled
<1>7. OccupanciesProven' /\ Audited'
  <2>1. \A j \in DOMAIN bsource.queries : ~(j < bnext')
    BY <1>1, <1>2, SourceFacts DEF BoundTypeOK
  <2> QED
    BY <1>1, <2>1 DEF OccupanciesProven, Audited
<1> QED
  BY <1>3, <1>4, <1>5, <1>6, <1>7 DEF BoundInv

\* An occupancy call.
LEMMA OccupancyNext ==
  ASSUME BoundInv, NEW i \in DOMAIN bsource.queries, ProveOccupancy(i)
  PROVE  BoundInv'
<1>1. /\ bphase = "prove" /\ i = bnext /\ bnext' = bnext + 1 /\ bphase' \in {"prove", "refused"}
      /\ UNCHANGED <<bsource, objects, annotated, answer>>
  BY DEF ProveOccupancy
<1>2. /\ BoundTypeOK /\ CalleesHold /\ ObjectsProven /\ PureOnly /\ OccupanciesProven
      /\ PublishedBoundTrue
  BY DEF BoundInv
<1>3. /\ KernelNames' = KernelNames /\ DOMAIN bsource'.queries = DOMAIN bsource.queries
      /\ \A j : Query(j)' = Query(j) /\ Occupancy(j)' = Occupancy(j)
      /\ \A j : OnlyReads(Query(j))' = OnlyReads(Query(j))
      /\ Enabled' = Enabled
  BY <1>1 DEF KernelNames, Query, Occupancy, OnlyReads, Enabled
<1>4. Audited'
  BY <1>1 DEF Audited
<1>5. PublishedBoundTrue'
  BY <1>1, <1>2 DEF PublishedBoundTrue
<1>6. bnext \in Nat \ {0} /\ bnext' \in Nat \ {0}
  BY <1>1, <1>2 DEF BoundTypeOK
<1>7. \A j \in DOMAIN bsource.queries : j < bnext' => j < bnext \/ j = i
  BY <1>1, <1>2, <1>6, SourceFacts DEF BoundTypeOK
<1>8. CASE UNCHANGED <<bounded, policies, callees>> /\ (bphase' = "refused" \/ ~Occupancy(i))
  <2>1. BoundTypeOK'
    BY <1>1, <1>2, <1>3, <1>6, <1>8 DEF BoundTypeOK
  <2>2. CalleesHold'
    BY <1>1, <1>2, <1>8, StillHolds
  <2>3. ObjectsProven' /\ PureOnly'
    BY <1>1, <1>2, <1>3, <1>8 DEF ObjectsProven, PureOnly
  <2>4. OccupanciesProven'
    BY <1>1, <1>2, <1>3, <1>7, <1>8 DEF OccupanciesProven
  <2> QED
    BY <1>4, <1>5, <2>1, <2>2, <2>3, <2>4 DEF BoundInv
<1>9. CASE /\ QueryBound(Query(i)) # 0
           /\ Record(i, Staged(Query(i).arg), QueryBound(Query(i))) /\ UNCHANGED bphase
  <2>0. bsource \in BoundSources
    BY <1>2 DEF BoundTypeOK
  <2>1. /\ Enabled /\ Staged(Query(i).arg) \subseteq KernelNames
        /\ \A n \in Arriving(Query(i)) :
             n \in Staged(Query(i).arg) /\ AddKernel(n) = QueryBound(Query(i))
    BY <1>9, <2>0, QueryFacts
  <2>2. /\ CalleesHold' /\ DOMAIN bounded' \subseteq KernelNames' /\ policies' \subseteq KernelNames'
        /\ DOMAIN callees' \subseteq DOMAIN bsource'.queries
        /\ policies \subseteq policies' /\ DOMAIN bounded \subseteq DOMAIN bounded'
        /\ DOMAIN callees \subseteq DOMAIN callees' /\ i \in DOMAIN callees'
    BY <1>1, <1>9, <2>1, RecordKeeps
  <2>3. BoundTypeOK'
    BY <1>1, <1>2, <1>3, <1>6, <2>2 DEF BoundTypeOK
  <2>4. ObjectsProven' /\ PureOnly'
    BY <1>1, <1>2, <1>3, <2>1, <2>2 DEF ObjectsProven, PureOnly
  <2>5. OccupanciesProven'
    BY <1>1, <1>2, <1>3, <1>7, <1>9, <2>2 DEF OccupanciesProven
  <2> QED
    BY <1>4, <1>5, <2>2, <2>3, <2>4, <2>5 DEF BoundInv
<1> QED
  BY <1>1, <1>8, <1>9 DEF ProveOccupancy

\* The steps between the proof and publication.
LEMMA FinishNext ==
  ASSUME BoundInv, ProveReferences \/ RewriteTokens \/ AuditKernelAttributeObservations
  PROVE  BoundInv'
<1>1. /\ bphase \in {"prove", "tokens", "audit"}
      /\ bphase' \in {"refused", "tokens", "audit", "published"}
      /\ UNCHANGED <<bsource, bnext, bounded, policies, callees, objects, answer>>
  BY DEF ProveReferences, RewriteTokens, AuditKernelAttributeObservations
<1>2. /\ BoundTypeOK /\ CalleesHold /\ ObjectsProven /\ PureOnly /\ OccupanciesProven /\ Audited
      /\ PublishedBoundTrue
  BY DEF BoundInv
<1>3. /\ KernelNames' = KernelNames /\ DOMAIN bsource'.queries = DOMAIN bsource.queries
      /\ \A j : Query(j)' = Query(j) /\ Occupancy(j)' = Occupancy(j)
      /\ \A j : OnlyReads(Query(j))' = OnlyReads(Query(j))
      /\ \A j : Observes(Query(j))' = Observes(Query(j))
      /\ Enabled' = Enabled
  BY <1>1 DEF KernelNames, Query, Occupancy, OnlyReads, Enabled, Observes
<1>4. annotated' = annotated \/ annotated' = policies
  BY DEF ProveReferences, RewriteTokens, AuditKernelAttributeObservations
<1>5. BoundTypeOK'
  BY <1>1, <1>2, <1>3, <1>4 DEF BoundTypeOK
<1>6. CalleesHold'
  BY <1>1, <1>2, StillHolds
<1>7. ObjectsProven' /\ PureOnly' /\ PublishedBoundTrue'
  BY <1>1, <1>2, <1>3 DEF ObjectsProven, PureOnly, PublishedBoundTrue
<1>8. OccupanciesProven'
  <2>1. bphase = "prove" =>
          \A j \in DOMAIN bsource.queries : j < bnext
    <3>1. bphase = "prove" => bnext > Len(bsource.queries)
      BY DEF ProveReferences, RewriteTokens, AuditKernelAttributeObservations
    <3> QED
      BY <1>2, <3>1, SourceFacts DEF BoundTypeOK
  <2>2. \A j \in DOMAIN bsource.queries : Occupancy(j) => j \in DOMAIN callees
    BY <1>1, <1>2, <2>1 DEF OccupanciesProven
  <2> QED
    BY <1>1, <1>3, <2>2 DEF OccupanciesProven
<1>9. Audited'
  <2>1. bphase' \in {"audit", "published"} => annotated' = policies
    BY <1>2 DEF Audited, ProveReferences, RewriteTokens, AuditKernelAttributeObservations
  <2>2. bphase' = "published" =>
          \A j \in DOMAIN bsource.queries : ~Occupancy(j) /\ Observes(Query(j)) => j \in objects
    BY DEF ProveReferences, RewriteTokens, AuditKernelAttributeObservations
  <2> QED
    BY <1>1, <1>3, <2>1, <2>2 DEF Audited
<1> QED
  BY <1>5, <1>6, <1>7, <1>8, <1>9 DEF BoundInv

\* The translated program asks.
LEMMA AskNext ==
  ASSUME BoundInv, NEW i \in DOMAIN bsource.queries, NEW n \in KernelNames, AskBound(i, n)
  PROVE  BoundInv'
<1>1. /\ bphase = "published" /\ n \in Arriving(Query(i))
      /\ Occupancy(i) \/ Observes(Query(i))
      /\ UNCHANGED <<bsource, bphase, bnext, bounded, policies, callees, objects, annotated>>
  BY DEF AskBound
<1>2. /\ BoundTypeOK /\ CalleesHold /\ ObjectsProven /\ PureOnly /\ OccupanciesProven /\ Audited
      /\ PublishedBoundTrue
  BY DEF BoundInv
<1>3. i \in DOMAIN callees /\ (Occupancy(i) \/ i \in objects) /\ annotated = policies
  BY <1>1, <1>2 DEF OccupanciesProven, Audited, ObjectsProven
<1>4. callees[i] # 0 /\ AddKernel(n) = callees[i]
      /\ (NeedsPolicy(bsource.kernels[n]) => n \in annotated)
  BY <1>1, <1>2, <1>3 DEF CalleesHold, Holds
<1>5. Enabled
  <2>1. CASE Occupancy(i)
    BY <1>2, <1>3, <2>1 DEF CalleesHold
  <2>2. CASE i \in objects
    <3>1. Query(i).arg \in DOMAIN bounded
      BY <1>2, <2>2 DEF ObjectsProven
    <3>2. bounded # <<>>
      BY <3>1
    <3> QED
      BY <1>1, <1>2, <3>2 DEF PureOnly
  <2> QED
    BY <1>3, <2>1, <2>2
<1>6. Occupancy(i) \/ OnlyReads(Query(i))
  BY <1>2, <1>3 DEF ObjectsProven
<1>7. TargetBounds(n) = {AddKernel(n)} /\ AddKernel(n) > 0
  <2> DEFINE k == bsource.kernels[n]
  <2>0. bsource \in BoundSources
    BY <1>2 DEF BoundTypeOK
  <2>1. /\ k.shape \notin {"template", "redeclared", "nested", "attributed", "macro",
                           "conditional", "requalified"}
        /\ NeedsPolicy(k) <=> k.written = 0
        /\ k.written = 0 => AddKernel(n) = DefaultBound
        /\ k.written # 0 => AddKernel(n) = k.written /\ k.onTarget = k.written
        /\ AddKernel(n) > 0
    BY <1>4, <2>0, AddKernelFacts
  <2>2. bsource.target = "simt" /\ (NeedsPolicy(k) => n \in annotated)
    BY <1>4, <1>5 DEF Enabled
  <2>3. TargetBounds(n) = IF k.written # 0 THEN {k.onTarget}
                          ELSE IF n \in annotated THEN {DefaultBound} ELSE {0}
    BY <2>1, <2>2 DEF TargetBounds
  <2> HIDE DEF k
  <2> QED
    BY <2>1, <2>2, <2>3
<1>8. \E b \in TargetBounds(n) : answer' = <<[bound |-> callees[i], compiled |-> b]>>
  BY <1>3, <1>6 DEF AskBound
<1>9. answer' = <<[bound |-> AddKernel(n), compiled |-> AddKernel(n)]>>
  BY <1>4, <1>7, <1>8
<1>10. PublishedBoundTrue'
  <2>1. DOMAIN answer' = {1} /\ answer'[1] = [bound |-> AddKernel(n), compiled |-> AddKernel(n)]
    BY <1>9
  <2> QED
    BY <1>7, <2>1 DEF PublishedBoundTrue
<1>11. /\ KernelNames' = KernelNames /\ DOMAIN bsource'.queries = DOMAIN bsource.queries
       /\ \A j : Query(j)' = Query(j) /\ Occupancy(j)' = Occupancy(j)
       /\ \A j : OnlyReads(Query(j))' = OnlyReads(Query(j))
       /\ \A j : Observes(Query(j))' = Observes(Query(j))
       /\ Enabled' = Enabled
  BY <1>1 DEF KernelNames, Query, Occupancy, OnlyReads, Enabled, Observes
<1>12. BoundTypeOK' /\ ObjectsProven' /\ PureOnly'
  BY <1>1, <1>2, <1>11 DEF BoundTypeOK, ObjectsProven, PureOnly
<1>13. CalleesHold'
  BY <1>1, <1>2, StillHolds
<1>14. OccupanciesProven' /\ Audited'
  BY <1>1, <1>2, <1>11 DEF OccupanciesProven, Audited
<1> QED
  BY <1>10, <1>12, <1>13, <1>14 DEF BoundInv

\* Every step keeps the invariant.
LEMMA StepHolds == BoundInv /\ [BoundNext]_boundVars => BoundInv'
<1> SUFFICES ASSUME BoundInv, [BoundNext]_boundVars PROVE BoundInv'
  OBVIOUS
<1>1. CASE \E i \in DOMAIN bsource.queries :
             RewriteProvenKernelAttributeCall(i) \/ ProveOccupancy(i) \/ \E n \in KernelNames : AskBound(i, n)
  BY <1>1, AttributeNext, OccupancyNext, AskNext
<1>2. CASE BeginProof
  BY <1>2, BeginNext
<1>3. CASE ProveReferences \/ RewriteTokens \/ AuditKernelAttributeObservations
  BY <1>3, FinishNext
<1>4. CASE UNCHANGED boundVars
  <2>1. UNCHANGED <<bsource, bphase, bnext, bounded, policies, callees, objects, annotated, answer>>
    BY <1>4 DEF boundVars
  <2>2. CalleesHold'
    BY <2>1, StillHolds DEF BoundInv
  <2> QED
    BY <2>1, <2>2 DEF BoundInv, BoundTypeOK, ObjectsProven, PureOnly, OccupanciesProven, Audited,
       PublishedBoundTrue, KernelNames, Query, Occupancy, OnlyReads, Enabled, Observes
<1> QED
  BY <1>1, <1>2, <1>3, <1>4 DEF BoundNext

\* Whatever kernel a published program asks about, over attribute and occupancy calls
\* and the callers of a helper, the bound written into the call is the one the kernel
\* is compiled with (OccupancyProof::prove, rewriteProvenKernelAttributeCall,
\* auditKernelAttributeObservations).
THEOREM BoundsAreTrue == BoundSpec => []PublishedBoundTrue
<1>1. BoundInv => PublishedBoundTrue
  BY DEF BoundInv
<1> QED
  BY <1>1, InitHolds, StepHolds, PTL DEF BoundSpec

-----------------------------------------------------------------------------
(* Questions about the device                                              *)

\* Induction over the numbers 0 .. N, on the set of those that have a property.
LEMMA Induction ==
    ASSUME NEW N \in Nat, NEW S, 0 \in S,
           \A k \in 1 .. N : k - 1 \in S => k \in S
    PROVE  \A k \in 0 .. N : k \in S
<1> DEFINE R == {ss \in Nat \X Nat : ss[1] < ss[2]}
           T == {k \in 0 .. N : k \notin S}
<1>1. IsWellFoundedOn(R, Nat)
    BY NatLessThanWellFounded DEF OpToRel
<1>2. SUFFICES ASSUME T # {} PROVE FALSE
    OBVIOUS
<1>3. T \subseteq Nat
    OBVIOUS
<1> HIDE DEF R, T
<1>4. PICK m \in T : \A k \in T : ~(<<k, m>> \in R)
    BY <1>1, <1>2, <1>3, WFMin
<1>5. m \in 1 .. N /\ m \notin S
    BY DEF T
<1>6. m - 1 \notin T
    <2>1. <<m - 1, m>> \in R
        BY <1>5 DEF R
    <2> QED
        BY <2>1, <1>4
<1> QED
    BY <1>5, <1>6 DEF T

\* The greatest and the least of a set of integers.
LEMMA MaxIs ==
    ASSUME NEW S \in SUBSET Int, NEW m \in S, \A y \in S : y <= m
    PROVE  Max(S) = m
<1>1. \A y \in S : m >= y
    OBVIOUS
<1> DEFINE x == Max(S)
<1>2. x \in S /\ \A y \in S : x >= y
    BY <1>1 DEF Max
<1> HIDE DEF x
<1>3. x >= m /\ m >= x /\ x \in Int /\ m \in Int
    BY <1>1, <1>2
<1>4. x = m
    BY <1>3
<1> QED
    BY <1>4 DEF x

LEMMA MinIs ==
    ASSUME NEW S \in SUBSET Int, NEW m \in S, \A y \in S : m <= y
    PROVE  Min(S) = m
<1> DEFINE x == Min(S)
<1>1. x \in S /\ \A y \in S : x <= y
    BY DEF Min
<1> HIDE DEF x
<1>2. x <= m /\ m <= x /\ x \in Int /\ m \in Int
    BY <1>1
<1>3. x = m
    BY <1>2
<1> QED
    BY <1>3 DEF x

\* The smaller and the larger of two numbers.
LEMMA OfTwo ==
    ASSUME NEW a \in Int, NEW b \in Int
    PROVE  /\ Min({a, b}) = IF a <= b THEN a ELSE b
           /\ Max({a, b}) = IF a <= b THEN b ELSE a
<1>1. CASE a <= b
    BY <1>1, MinIs, MaxIs
<1>2. CASE ~(a <= b)
    BY <1>2, MinIs, MaxIs
<1> QED
    BY <1>1, <1>2

\* A value clamped at zero.
LEMMA FromZero ==
    ASSUME NEW v \in Int
    PROVE  Max({0, v}) = IF 0 <= v THEN v ELSE 0
    BY OfTwo

\* k copies of b fit into a exactly when k is at most the quotient.
LEMMA Fitting ==
    ASSUME NEW a \in Int, NEW b \in Nat \ {0}, NEW k \in Int
    PROVE  a \div b \in Int /\ (k * b <= a <=> k <= a \div b)
<1> DEFINE q == a \div b
<1>1. q \in Int /\ q * b <= a /\ a < (q + 1) * b
    OBVIOUS
<1> HIDE DEF q
<1>2. CASE k <= q
  <2>1. k * b <= q * b
      BY <1>1, <1>2
  <2> QED
      BY <1>1, <1>2, <2>1
<1>3. CASE k >= q + 1
  <2>1. k * b >= (q + 1) * b
      BY <1>1, <1>3
  <2> QED
      BY <1>1, <1>3, <2>1
<1> QED
    BY <1>1, <1>2, <1>3 DEF q

\* A device as the occupancy questions accept it.
Usable(dev) ==
    /\ dev \in [Attributes \cup Properties -> Int]
    /\ Positive(dev, Attributes \ {"ub"}) /\ dev.ub >= 0

\* Its values lie within INT_MAX.
LEMMA UsableDevice ==
    ASSUME NEW dev, Usable(dev)
    PROVE  /\ dev.warp \in 1 .. IntMax /\ dev.perCore \in 1 .. IntMax /\ dev.perBlock \in 1 .. IntMax
           /\ dev.cores \in 1 .. IntMax /\ dev.perGrid \in 1 .. IntMax /\ dev.ub \in Nat
    BY IntMaxAssumption DEF Usable, Positive, Attributes

\* Does a block of n threads fit the buffer?
Fits(dev, model, n) == UbOf(model, n) = 0 \/ (dev.ub > 0 /\ UbOf(model, n) <= dev.ub)

\* The dynamic UB is never negative.
LEMMA UbIsNat ==
    ASSUME NEW model \in [base : Nat, slope : Int], NEW n \in Int
    PROVE  UbOf(model, n) \in Nat
<1> DEFINE x == model.base + model.slope * n
<1>1. x \in Int
    OBVIOUS
<1>2. UbOf(model, n) = Max({0, x})
    BY DEF UbOf
<1> HIDE DEF x
<1>3. Max({0, x}) = IF 0 <= x THEN x ELSE 0
    BY <1>1, OfTwo
<1> QED
    BY <1>1, <1>2, <1>3

\* The candidate with k steps left, and one round of the search.
Candidate(dev, from, k) == from - (MaxSteps - k) * dev.warp
Round(dev, model, from, k, found) ==
    IF k = 0 \/ Candidate(dev, from, k) < dev.warp THEN 0
    ELSE IF Fits(dev, model, Candidate(dev, from, k)) THEN Candidate(dev, from, k)
    ELSE found
Searched(dev, model, from, f) ==
    f = [k \in 0 .. MaxSteps |-> Round(dev, model, from, k, f[k - 1])]

\* The search is that recursive function: a function with these values exists, by
\* induction on the number of steps left.
LEMMA SearchIs ==
    ASSUME NEW dev, Usable(dev), NEW model \in [base : Nat, slope : Int], NEW from \in Nat
    PROVE  \E f : Searched(dev, model, from, f) /\ Search(dev, model, from) = f[MaxSteps]
<1>0. MaxSteps \in Nat
    BY IntMaxAssumption
<1> DEFINE good(f, n) == \A k \in 0 .. n : f[k] = Round(dev, model, from, k, f[k - 1])
           S == {n \in 0 .. MaxSteps : \E f \in [0 .. MaxSteps -> Int] : good(f, n)}
<1>1. 0 \in S
  <2> DEFINE f == [k \in 0 .. MaxSteps |-> 0]
  <2>1. f \in [0 .. MaxSteps -> Int] /\ good(f, 0)
      BY <1>0 DEF Round
  <2> HIDE DEF f, good
  <2> QED
      BY <1>0, <2>1
<1>2. ASSUME NEW n \in 1 .. MaxSteps, n - 1 \in S
      PROVE  n \in S
  <2>1. PICK f \in [0 .. MaxSteps -> Int] : good(f, n - 1)
      BY <1>2
  <2> DEFINE x == Round(dev, model, from, n, f[n - 1])
             g == [f EXCEPT ![n] = x]
  <2>2. x \in Int
    <3>1. Candidate(dev, from, n) \in Int
        BY <1>0, UsableDevice DEF Candidate
    <3>2. f[n - 1] \in Int
        BY <1>0
    <3> QED
        BY <3>1, <3>2 DEF Round
  <2> HIDE DEF x
  <2>3. g \in [0 .. MaxSteps -> Int] /\ g[n] = x /\ \A k \in 0 .. n - 1 : g[k] = f[k]
      BY <1>0, <2>2
  <2>4. \A k \in 0 .. n - 1 : k = 0 \/ g[k - 1] = f[k - 1]
      BY <1>0, <2>3
  <2>5. \A k \in 0 .. n : g[k] = Round(dev, model, from, k, g[k - 1])
    <3> TAKE k \in 0 .. n
    <3>1. CASE k = n
        BY <1>0, <2>3, <3>1 DEF x
    <3>2. CASE k = 0
      <4>1. f[0] = 0 /\ g[0] = f[0]
          BY <1>0, <2>1, <2>3 DEF Round
      <4> QED
          BY <3>2, <4>1 DEF Round
    <3>3. CASE k \in 1 .. n - 1
        BY <1>0, <2>1, <2>3, <2>4, <3>3
    <3> QED
        BY <3>1, <3>2, <3>3
  <2>6. good(g, n)
      BY <2>5
  <2> HIDE DEF g, good
  <2> QED
      BY <2>3, <2>6
<1>3. MaxSteps \in S
  <2> HIDE DEF S
  <2> QED
      BY <1>0, <1>1, <1>2, Induction
<1>4. PICK f \in [0 .. MaxSteps -> Int] : good(f, MaxSteps)
    BY <1>3
<1>5. Searched(dev, model, from, f)
    BY <1>4 DEF Searched
<1> DEFINE s == CHOOSE h : Searched(dev, model, from, h)
<1>6. Searched(dev, model, from, s)
    BY <1>5
<1>7. Search(dev, model, from) = s[MaxSteps]
    BY DEF Search, Searched, Round, Candidate, Fits
<1> QED
    BY <1>6, <1>7

\* A search that starts at J warps finds the largest number of warps that fits, if it
\* finds one; and it finds one unless it gives up before it reached the last.
LEMMA SearchFinds ==
    ASSUME NEW dev, Usable(dev), NEW model \in [base : Nat, slope : Int], NEW J \in Nat
    PROVE  /\ Search(dev, model, J * dev.warp) # 0 =>
                \E i \in 1 .. J : /\ Search(dev, model, J * dev.warp) = i * dev.warp
                                  /\ Fits(dev, model, i * dev.warp)
                                  /\ \A m \in i + 1 .. J : ~Fits(dev, model, m * dev.warp)
           /\ Search(dev, model, J * dev.warp) = 0 /\ J <= MaxSteps =>
                \A m \in 1 .. J : ~Fits(dev, model, m * dev.warp)
<1> DEFINE w == dev.warp
           from == J * w
           N == MaxSteps
           fit(m) == Fits(dev, model, m * w)
<1>0. N \in Nat /\ w \in Nat \ {0} /\ from \in Nat
    BY IntMaxAssumption, UsableDevice
<1>1. PICK f : Searched(dev, model, from, f) /\ Search(dev, model, from) = f[N]
  <2> HIDE DEF from
  <2> QED
      BY <1>0, SearchIs
<1>2. \A k \in 0 .. N : Candidate(dev, from, k) = (J - N + k) * w
  <2> TAKE k \in 0 .. N
  <2>1. Candidate(dev, from, k) = J * w - (N - k) * w
      BY DEF Candidate
  <2> HIDE DEF w, N
  <2>2. J * w - (N - k) * w = (J - N + k) * w
      BY <1>0
  <2> QED
      BY <2>1, <2>2
<1> DEFINE FoundBy(k) ==
             /\ f[k] # 0 => \E i \in 1 .. J - N + k : /\ f[k] = i * w /\ fit(i)
                                                     /\ \A m \in i + 1 .. J - N + k : ~fit(m)
             /\ f[k] = 0 /\ J <= N => \A m \in 1 .. J - N + k : ~fit(m)
           S == {k \in 0 .. N : FoundBy(k)}
<1>3. \A k \in 0 .. N : f[k] = IF k = 0 \/ (J - N + k) * w < w THEN 0
                               ELSE IF fit(J - N + k) THEN (J - N + k) * w ELSE f[k - 1]
  <2> TAKE k \in 0 .. N
  <2>1. f[k] = Round(dev, model, from, k, f[k - 1])
      BY <1>1 DEF Searched
  <2> QED
      BY <1>2, <2>1 DEF Round
<1> HIDE DEF w, from, N, fit
<1>4. 0 \in S
    BY <1>0, <1>3
<1>5. ASSUME NEW k \in 1 .. N, k - 1 \in S
      PROVE  k \in S
  <2> DEFINE j == J - N + k
  <2>1. j \in Int /\ j - 1 = J - N + (k - 1)
      BY <1>0
  <2>2. f[k] = IF j * w < w THEN 0 ELSE IF fit(j) THEN j * w ELSE f[k - 1]
      BY <1>0, <1>3
  <2>3. /\ f[k - 1] # 0 => \E i \in 1 .. j - 1 : /\ f[k - 1] = i * w /\ fit(i)
                                                 /\ \A m \in i + 1 .. j - 1 : ~fit(m)
        /\ f[k - 1] = 0 /\ J <= N => \A m \in 1 .. j - 1 : ~fit(m)
      BY <1>5, <2>1
  <2> SUFFICES /\ f[k] # 0 => \E i \in 1 .. j : /\ f[k] = i * w /\ fit(i)
                                                 /\ \A m \in i + 1 .. j : ~fit(m)
               /\ f[k] = 0 /\ J <= N => \A m \in 1 .. j : ~fit(m)
      BY <1>0
  <2> HIDE DEF j
  <2>4. CASE j < 1
    <3>1. j * w < w
        BY <1>0, <2>1, <2>4
    <3> QED
        BY <2>1, <2>2, <2>4, <3>1
  <2>5. CASE j >= 1
    <3>1. ~(j * w < w) /\ j * w # 0
        BY <1>0, <2>1, <2>5
    <3>2. CASE fit(j)
        BY <2>1, <2>2, <2>5, <3>1, <3>2
    <3>3. CASE ~fit(j)
      <4>1. f[k] = f[k - 1]
          BY <2>2, <3>1, <3>3
      <4>2. ASSUME f[k] # 0
            PROVE  \E i \in 1 .. j : f[k] = i * w /\ fit(i) /\ \A m \in i + 1 .. j : ~fit(m)
        <5>1. PICK i \in 1 .. j - 1 : /\ f[k - 1] = i * w /\ fit(i)
                                      /\ \A m \in i + 1 .. j - 1 : ~fit(m)
            BY <2>3, <4>1, <4>2
        <5>2. \A m \in i + 1 .. j : ~fit(m)
            BY <2>1, <3>3, <5>1
        <5> QED
            BY <2>1, <4>1, <5>1, <5>2
      <4>3. ASSUME f[k] = 0, J <= N
            PROVE  \A m \in 1 .. j : ~fit(m)
          BY <2>1, <2>3, <3>3, <4>1, <4>3
      <4> QED
          BY <4>2, <4>3
    <3> QED
        BY <3>2, <3>3
  <2> QED
      BY <2>1, <2>4, <2>5
<1>6. N \in S
  <2> HIDE DEF S
  <2> QED
      BY <1>0, <1>4, <1>5, Induction
<1>7. J - N + N = J
    BY <1>0
<1>8. FoundBy(N)
    BY <1>6
<1> QED
    BY <1>1, <1>7, <1>8 DEF w, from, N, fit

\* The test of the search is the test of the reference definition.
LEMMA FitsUb ==
    ASSUME NEW dev, Usable(dev), NEW model \in [base : Nat, slope : Int], NEW n \in Int
    PROVE  Fits(dev, model, n) <=> UbOf(model, n) = 0 \/ UbOf(model, n) <= dev.ub
    BY UbIsNat, UsableDevice DEF Fits

\* Whole warps, within the limits.
Capped(limit, dev) == Min({dev.perBlock, dev.perCore} \cup IF limit > 0 THEN {limit} ELSE {})

\* The cap is the conjunction of the limits.
LEMMA CappedIs ==
    ASSUME NEW dev, Usable(dev), NEW limit \in Nat
    PROVE  /\ Capped(limit, dev) \in 1 .. IntMax
           /\ \A n \in Int : n <= Capped(limit, dev) <=>
                 n <= dev.perBlock /\ n <= dev.perCore /\ (limit > 0 => n <= limit)
<1> DEFINE S == {dev.perBlock, dev.perCore} \cup IF limit > 0 THEN {limit} ELSE {}
           b == dev.perBlock
           c == dev.perCore
           m == IF b <= c THEN b ELSE c
           x == IF limit > 0 /\ limit < m THEN limit ELSE m
<1>1. b \in 1 .. IntMax /\ c \in 1 .. IntMax /\ IntMax \in Nat
    BY UsableDevice, IntMaxAssumption
<1>2. S = {b, c} \cup IF limit > 0 THEN {limit} ELSE {}
    OBVIOUS
<1>3. Capped(limit, dev) = Min(S)
    BY DEF Capped
<1> HIDE DEF S, b, c
<1>4. S \in SUBSET Int /\ x \in S /\ \A y \in S : x <= y
    BY <1>1, <1>2
<1>5. Min(S) = x
  <2> HIDE DEF x
  <2> QED
      BY <1>4, MinIs
<1>6. /\ x \in 1 .. IntMax
      /\ \A n \in Int : n <= x <=> n <= b /\ n <= c /\ (limit > 0 => n <= limit)
    BY <1>1
<1> QED
    BY <1>3, <1>5, <1>6 DEF b, c

\* Sizes of whole warps are the multiples of the warp.
LEMMA WholeWarps ==
    ASSUME NEW w \in Nat \ {0}
    PROVE  /\ \A i \in Nat : (i * w) % w = 0
           /\ \A n \in Nat \ {0} : n % w = 0 => \E i \in Nat \ {0} : n = i * w
<1>1. ASSUME NEW i \in Nat PROVE (i * w) % w = 0
    OBVIOUS
<1>2. ASSUME NEW n \in Nat \ {0}, n % w = 0 PROVE \E i \in Nat \ {0} : n = i * w
  <2>1. n \div w \in Nat /\ n = w * (n \div w) + (n % w)
      OBVIOUS
  <2> DEFINE i == n \div w
  <2>2. i \in Nat /\ n = w * i
      BY <1>2, <2>1
  <2> HIDE DEF i
  <2>3. i # 0 /\ n = i * w
      BY <2>2
  <2> QED
      BY <2>2, <2>3
<1> QED
    BY <1>1, <1>2

\* The largest block a launch may have is what the search finds.
LEMMA BlockIs ==
    ASSUME NEW dev, Usable(dev), NEW model \in [base : Nat, slope : Int], NEW limit \in Nat,
           NEW block, block = Search(dev, model, (Capped(limit, dev) \div dev.warp) * dev.warp)
    PROVE  /\ block # 0 => /\ block \in LaunchSizes(limit, model, dev)
                           /\ Max(LaunchSizes(limit, model, dev)) = block
                           /\ block \in 1 .. dev.perCore
           /\ block = 0 /\ dev.perCore <= MaxSteps * dev.warp => LaunchSizes(limit, model, dev) = {}
<1> DEFINE w == dev.warp
           C == Capped(limit, dev)
           J == C \div w
           L == LaunchSizes(limit, model, dev)
<1>0. /\ w \in Nat \ {0} /\ C \in Nat /\ MaxSteps \in Nat /\ IntMax \in Nat
      /\ C <= IntMax /\ dev.perCore \in 1 .. IntMax /\ C <= dev.perCore
      /\ dev.perBlock \in 1 .. IntMax
    BY IntMaxAssumption, UsableDevice, CappedIs
<1>1. J \in Nat
    BY <1>0
<1>2. \A i \in Int : i * w <= C <=> i <= J
    BY <1>0, Fitting
<1>3. ASSUME NEW n
      PROVE  n \in L <=> \E i \in 1 .. J : n = i * w /\ Fits(dev, model, i * w)
  <2>1. ASSUME n \in L
        PROVE  \E i \in 1 .. J : n = i * w /\ Fits(dev, model, i * w)
    <3>1. /\ n \in 1 .. IntMax /\ n % w = 0 /\ n <= dev.perBlock /\ n <= dev.perCore
          /\ limit > 0 => n <= limit
          /\ UbOf(model, n) = 0 \/ UbOf(model, n) <= dev.ub
        BY <2>1 DEF LaunchSizes
    <3>2. n <= C
        BY <1>0, <3>1, CappedIs
    <3>3. Fits(dev, model, n)
        BY <1>0, <3>1, FitsUb
    <3> HIDE DEF w, C, J, L
    <3>a. n \in Nat \ {0}
        BY <1>0, <3>1
    <3>4. PICK i \in Nat \ {0} : n = i * w
        BY <1>0, <3>1, <3>a, WholeWarps
    <3>5. i <= J
        BY <1>2, <3>2, <3>4
    <3> QED
        BY <1>1, <3>3, <3>4, <3>5
  <2>2. ASSUME NEW i \in 1 .. J, n = i * w, Fits(dev, model, i * w)
        PROVE  n \in L
    <3>1. n \in Int /\ n >= 1 /\ n <= C
      <4> HIDE DEF w, C, J
      <4> QED
          BY <1>0, <1>1, <1>2, <2>2
    <3>2. n % w = 0
      <4> HIDE DEF w, J
      <4>1. i \in Nat
          BY <1>1
      <4>2. (i * w) % w = 0
          BY <1>0, <4>1, WholeWarps
      <4> QED
          BY <2>2, <4>2, Zenon
    <3>3. n <= dev.perBlock /\ n <= dev.perCore /\ (limit > 0 => n <= limit)
        BY <3>1, CappedIs
    <3>4. UbOf(model, n) = 0 \/ UbOf(model, n) <= dev.ub
        BY <2>2, <3>1, FitsUb
    <3> QED
        BY <1>0, <3>1, <3>2, <3>3, <3>4 DEF LaunchSizes
  <2> HIDE DEF w, J, L
  <2> QED
      BY <2>1, <2>2
<1>4. /\ block # 0 => \E i \in 1 .. J : /\ block = i * w /\ Fits(dev, model, i * w)
                                        /\ \A m \in i + 1 .. J : ~Fits(dev, model, m * w)
      /\ block = 0 /\ J <= MaxSteps => \A m \in 1 .. J : ~Fits(dev, model, m * w)
  <2>1. block = Search(dev, model, J * dev.warp)
      OBVIOUS
  <2> HIDE DEF J
  <2> QED
      BY <1>1, <2>1, SearchFinds
<1>5. L \in SUBSET Int
    BY DEF LaunchSizes
<1> HIDE DEF w, C, J, L
<1>6. ASSUME block # 0
      PROVE  block \in L /\ Max(L) = block /\ block \in 1 .. dev.perCore
  <2>1. PICK i \in 1 .. J : /\ block = i * w /\ Fits(dev, model, i * w)
                            /\ \A m \in i + 1 .. J : ~Fits(dev, model, m * w)
      BY <1>4, <1>6
  <2>2. block \in L
      BY <1>3, <2>1
  <2>3. ASSUME NEW y \in L PROVE y <= block
    <3>1. PICK k \in 1 .. J : y = k * w /\ Fits(dev, model, k * w)
        BY <1>3
    <3>2. k <= i
        BY <1>1, <2>1, <3>1
    <3>3. k * w <= i * w
        BY <1>0, <1>1, <3>2
    <3> QED
        BY <2>1, <3>1, <3>3
  <2>4. Max(L) = block
      BY <1>5, <2>2, <2>3, MaxIs
  <2>5. block <= C /\ block \in Int /\ block >= 1
      BY <1>0, <1>1, <1>2, <2>1
  <2> QED
      BY <1>0, <2>2, <2>4, <2>5
<1>7. ASSUME block = 0, dev.perCore <= MaxSteps * dev.warp
      PROVE  L = {}
  <2>1. C <= MaxSteps * w
      BY <1>0, <1>7 DEF w
  <2>2. J <= MaxSteps
    <3>1. SUFFICES ASSUME J >= MaxSteps + 1 PROVE FALSE
        BY <1>0, <1>1
    <3>2. J * w >= (MaxSteps + 1) * w
        BY <1>0, <1>1, <3>1
    <3>3. J * w <= C
        BY <1>1, <1>2
    <3> QED
        BY <1>0, <1>1, <2>1, <3>2, <3>3
  <2> QED
      BY <1>3, <1>4, <1>7, <2>2
<1> QED
    BY <1>6, <1>7 DEF L

\* The grid that occupies every thread.
LEMMA GridIs ==
    ASSUME NEW dev, Usable(dev), NEW block \in 1 .. dev.perCore,
           NEW waves, waves = (dev.perCore + block - 1) \div block
    PROVE  Max({1, Min({dev.perGrid, waves * dev.cores})}) = FewestBlocks(block, dev)
<1> DEFINE c == dev.perCore
           n == dev.cores
           g == dev.perGrid
           S == {k \in 1 .. IntMax : k * block >= c}
<1>0. c \in 1 .. IntMax /\ n \in 1 .. IntMax /\ g \in 1 .. IntMax /\ IntMax \in Nat /\ block \in 1 .. c
    BY UsableDevice, IntMaxAssumption
<1>1. FewestBlocks(block, dev) = Min({g, n * Min(S)})
    BY DEF FewestBlocks
<1>2. waves = (c + block - 1) \div block
    OBVIOUS
<1> HIDE DEF c, n, g
<1>3. waves \in Int /\ \A k \in Int : k * block <= c + block - 1 <=> k <= waves
    BY <1>0, <1>2, Fitting
<1>4. waves >= 1
    BY <1>0, <1>3
<1>5. waves * block >= c
  <2>1. (waves + 1) * block > c + block - 1
      BY <1>0, <1>3
  <2>2. (waves + 1) * block = waves * block + block
      BY <1>0, <1>3
  <2> QED
      BY <1>0, <1>3, <2>1, <2>2
<1>6. \A k \in Int : k * block >= c => waves <= k
  <2> SUFFICES ASSUME NEW k \in Int, k * block >= c, k <= waves - 1 PROVE FALSE
      BY <1>3
  <2>a. k + 1 \in Int /\ k + 1 <= waves
      BY <1>3
  <2>1. (k + 1) * block <= c + block - 1
      BY <1>3, <2>a
  <2>2. (k + 1) * block = k * block + block
      BY <1>0
  <2> QED
      BY <1>0, <2>1, <2>2
<1>7. waves <= c
  <2>1. c * block >= c
      BY <1>0
  <2> QED
      BY <1>0, <1>6, <2>1
<1>8. Min(S) = waves
  <2>1. waves \in S /\ S \in SUBSET Int /\ \A y \in S : waves <= y
      BY <1>0, <1>3, <1>4, <1>5, <1>6, <1>7
  <2> HIDE DEF S
  <2> QED
      BY <2>1, MinIs
<1>9. n * waves = waves * n /\ n * waves \in Int /\ n * waves >= 1
    BY <1>0, <1>3, <1>4
<1> DEFINE x == n * waves
           y == Min({g, x})
<1> HIDE DEF S, x
<1>10. y \in Int /\ y >= 1
    BY <1>0, <1>9, OfTwo DEF x
<1> HIDE DEF y
<1>11. Max({1, y}) = y
  <2>1. \A z \in {1, y} : z <= y
      BY <1>10
  <2>2. {1, y} \in SUBSET Int /\ y \in {1, y}
      BY <1>10
  <2> QED
      BY <2>1, <2>2, MaxIs
<1> QED
    BY <1>1, <1>8, <1>9, <1>11 DEF x, y, n, g

\* How many blocks fit.
LEMMA FitIs ==
    ASSUME NEW dev \in [Attributes \cup Properties -> Int], NEW size \in Nat \ {0}, NEW ub \in Nat
    PROVE  LET threads == dev.perCore \div size IN
           /\ ub = 0 => FitBlocks(size, ub, dev) = Min({IntMax, Max({0, threads})})
           /\ ub # 0 /\ dev.ub > 0 =>
                 FitBlocks(size, ub, dev) = Min({IntMax, Max({0, Min({threads, dev.ub \div ub})})})
           /\ ub # 0 /\ dev.ub <= 0 =>
                 FitBlocks(size, ub, dev) = 0 /\ Min({IntMax, Max({0, Min({threads, 0})})}) = 0
<1> DEFINE threads == dev.perCore \div size
           c == dev.perCore
           u == dev.ub
           b == u \div ub
           S == {0} \cup {k \in 0 .. IntMax : k * size <= c /\ (ub # 0 => k * ub <= u)}
<1>0. c \in Int /\ u \in Int /\ IntMax \in Nat
    BY IntMaxAssumption DEF Attributes
<1>1. FitBlocks(size, ub, dev) = Max(S)
    BY DEF FitBlocks
<1>2. threads = c \div size
    OBVIOUS
<1> HIDE DEF threads, c, u
<1>3. threads \in Int /\ \A k \in Int : k * size <= c <=> k <= threads
    BY <1>0, <1>2, Fitting
<1>4. ub # 0 => b \in Int /\ \A k \in Int : k * ub <= u <=> k <= b
    BY <1>0, Fitting
<1> HIDE DEF b
<1>5. ASSUME NEW v \in Int, \A k \in 0 .. IntMax : k \in S <=> k = 0 \/ k <= v
      PROVE  Max(S) = Min({IntMax, Max({0, v})})
  <2> DEFINE p == IF 0 <= v THEN v ELSE 0
             m == IF IntMax <= p THEN IntMax ELSE p
  <2>0. v \in Int
      BY <1>5
  <2>1. Max({0, v}) = p
      BY <2>0, FromZero
  <2>2. p \in Int
      BY <1>5
  <2>3. Min({IntMax, p}) = m
    <3> HIDE DEF p
    <3> QED
        BY <1>0, <2>2, OfTwo
  <2>4. m \in 0 .. IntMax /\ (m = 0 \/ m <= v)
      BY <1>0, <1>5
  <2>5. m \in S
    <3> HIDE DEF m, S
    <3> QED
        BY <1>5, <2>4
  <2>6. S \subseteq 0 .. IntMax
      BY <1>0
  <2>7. ASSUME NEW y \in S PROVE y <= m
    <3>1. y \in 0 .. IntMax /\ (y = 0 \/ y <= v)
      <4> HIDE DEF S
      <4> QED
          BY <1>5, <2>6
    <3> QED
        BY <1>0, <1>5, <3>1
  <2>8. S \in SUBSET Int
      BY <1>0, <2>6
  <2>9. Max(S) = m
    <3> HIDE DEF S, m
    <3> QED
        BY <2>5, <2>7, <2>8, MaxIs
  <2> HIDE DEF S, m, p
  <2> QED
      BY <2>1, <2>3, <2>9
<1>6. ASSUME ub = 0
      PROVE  Max(S) = Min({IntMax, Max({0, threads})})
  <2>1. \A k \in 0 .. IntMax : k \in S <=> k = 0 \/ k <= threads
      BY <1>0, <1>3, <1>6
  <2> HIDE DEF S
  <2> QED
      BY <1>3, <1>5, <2>1
<1>7. ASSUME ub # 0, u > 0
      PROVE  Max(S) = Min({IntMax, Max({0, Min({threads, b})})})
  <2> DEFINE v == IF threads <= b THEN threads ELSE b
  <2>1. Min({threads, b}) = v /\ v \in Int
      BY <1>3, <1>4, <1>7, OfTwo
  <2>2. \A k \in 0 .. IntMax : k \in S <=> k = 0 \/ k <= v
      BY <1>0, <1>3, <1>4, <1>7
  <2> HIDE DEF S, v
  <2>3. Max(S) = Min({IntMax, Max({0, v})})
      BY <1>5, <2>1, <2>2
  <2> QED
      BY <2>1, <2>3
<1>8. ASSUME ub # 0, u <= 0
      PROVE  Max(S) = 0 /\ Min({IntMax, Max({0, Min({threads, 0})})}) = 0
  <2> DEFINE v == IF threads <= 0 THEN threads ELSE 0
  <2>1. Min({threads, 0}) = v /\ v \in Int /\ v <= 0
      BY <1>3, OfTwo
  <2>2. \A k \in 1 .. IntMax : ~(k * ub <= u)
    <3> TAKE k \in 1 .. IntMax
    <3>1. k * ub >= 1
        BY <1>0, <1>8
    <3> QED
        BY <1>0, <1>8, <3>1
  <2>3. S = {0}
      BY <1>0, <1>8, <2>2
  <2>4. Max(S) = 0
    <3>1. S \in SUBSET Int /\ 0 \in S /\ \A y \in S : y <= 0
        BY <2>3
    <3> HIDE DEF S
    <3> QED
        BY <3>1, MaxIs
  <2> HIDE DEF v
  <2>a. v \in Int /\ v <= 0
      BY <2>1
  <2>5. Max({0, v}) = 0
      BY <2>a, FromZero
  <2>6. Min({IntMax, 0}) = 0
    <3>1. {IntMax, 0} \in SUBSET Int /\ 0 \in {IntMax, 0} /\ \A y \in {IntMax, 0} : 0 <= y
        BY <1>0
    <3> QED
        BY <3>1, MinIs
  <2> QED
      BY <2>1, <2>4, <2>5, <2>6
<1> HIDE DEF S
<1> QED
    BY <1>0, <1>1, <1>6, <1>7, <1>8 DEF threads, u, b

\* A failed call leaves the storage alone; an answer stores one value.
LEMMA Answers ==
    /\ \A s : Failed(s).status = s /\ Failed(s).out = <<>>
    /\ \A v : Answer(v).status = "ok" /\ Answer(v).out = <<v>> /\ Answer(v).out[1] = v
    BY DEF Failed, Answer

Counted(a, size, ub, dev) ==
    /\ a.status # "ok" => a.out = <<>>
    /\ a.status = "ok" => a.out[1] = FitBlocks(size, ub, dev)

\* The quotients are the number of blocks that fit.
LEMMA ActiveIs ==
    ASSUME NEW dev \in [Attributes \cup Properties -> Int], NEW size \in Int, NEW ub \in Nat, NEW failing,
           NEW a, a = MaxActiveBlocks(size, ub, dev, failing)
    PROVE  Counted(a, size, ub, dev)
<1> USE DEF Counted
<1>1. CASE size <= 0
  <2>1. a = Failed("invalid")
      BY <1>1 DEF MaxActiveBlocks
  <2> QED
      BY <2>1, Answers
<1>2. CASE size > 0 /\ ~Reads(failing, {"perCore"} \cup IF ub # 0 THEN {"ub"} ELSE {})
  <2>1. a = Failed("runtime")
      BY <1>2 DEF MaxActiveBlocks
  <2> QED
      BY <2>1, Answers
<1>3. CASE size > 0 /\ Reads(failing, {"perCore"} \cup IF ub # 0 THEN {"ub"} ELSE {})
  <2> DEFINE threads == dev.perCore \div size
             buffers == IF dev.ub > 0 THEN dev.ub \div ub ELSE 0
             x == Min({IntMax, Max({0, IF ub # 0 THEN Min({threads, buffers}) ELSE threads})})
  <2>1. a = Answer(x)
      BY <1>3 DEF MaxActiveBlocks
  <2>2. dev.ub \in Int /\ size \in Nat \ {0}
      BY <1>3 DEF Attributes
  <2>3. x = FitBlocks(size, ub, dev)
    <3>1. CASE ub = 0
        BY <2>2, <3>1, FitIs
    <3>2. CASE ub # 0 /\ dev.ub > 0
        BY <2>2, <3>2, FitIs
    <3>3. CASE ub # 0 /\ dev.ub <= 0
        BY <2>2, <3>3, FitIs
    <3> QED
        BY <2>2, <3>1, <3>2, <3>3
  <2> HIDE DEF x
  <2> QED
      BY <2>1, <2>3, Answers
<1> QED
    BY <1>1, <1>2, <1>3

CountedWithin(a, size, ub, bound, dev) ==
    Counted(a, size, ub, dev) /\ (a.status = "ok" => size <= bound)

\* They are within INT_MAX once the block size is within the device's limits.
LEMMA ActiveBoundIs ==
    ASSUME NEW dev \in [Attributes \cup Properties -> Int], NEW size \in Int, NEW ub \in Nat, NEW failing,
           NEW bound \in Int, NEW a, a = MaxActiveBlocksMaxThreads(size, ub, bound, dev, failing)
    PROVE  CountedWithin(a, size, ub, bound, dev)
<1> USE DEF Counted, CountedWithin
<1> DEFINE threads == dev.perCore \div size
           refused(s) == a = Failed(s)
<1>1. \/ \E s \in {"invalid", "unsupported", "runtime"} : a = Failed(s)
      \/ /\ size > 0 /\ size <= bound /\ size <= dev.perCore
         /\ Positive(dev, {"perBlock", "perCore"})
         /\ \/ ub = 0 /\ a = Answer(threads)
            \/ ub # 0 /\ dev.ub > 0 /\ a = Answer(Min({threads, dev.ub \div ub}))
    BY DEF MaxActiveBlocksMaxThreads, Attributes
<1>2. CASE \E s \in {"invalid", "unsupported", "runtime"} : a = Failed(s)
    BY <1>2, Answers
<1>3. ASSUME size > 0, size <= bound, size <= dev.perCore, Positive(dev, {"perBlock", "perCore"}),
             \/ ub = 0 /\ a = Answer(threads)
             \/ ub # 0 /\ dev.ub > 0 /\ a = Answer(Min({threads, dev.ub \div ub}))
      PROVE  a.status = "ok" /\ a.out[1] = FitBlocks(size, ub, dev)
  <2>0. /\ dev.perCore \in 1 .. IntMax /\ dev.ub \in Int /\ IntMax \in Nat
        /\ size \in Nat \ {0} /\ size <= dev.perCore
      BY <1>3, IntMaxAssumption DEF Positive, Attributes
  <2>1. threads \in 0 .. IntMax
    <3> DEFINE c == dev.perCore
    <3>1. /\ c \in 1 .. IntMax /\ IntMax \in Nat /\ c \in Int
          /\ threads = c \div size /\ size \in Nat \ {0} /\ size <= c
        BY <2>0
    <3> HIDE DEF c, threads
    <3>2. threads \in Int /\ \A k \in Int : k * size <= c <=> k <= threads
        BY <3>1, Fitting
    <3>3. threads >= 0
        BY <3>1, <3>2
    <3>4. threads <= c
      <4>1. threads * size <= c
          BY <3>2
      <4>2. threads * size >= threads
          BY <2>0, <3>2, <3>3
      <4> QED
          BY <3>1, <3>2, <4>1, <4>2
    <3> QED
        BY <3>1, <3>2, <3>3, <3>4
  <2>2. ASSUME NEW v \in 0 .. IntMax PROVE Min({IntMax, Max({0, v})}) = v
    <3>1. {0, v} \in SUBSET Int /\ v \in {0, v} /\ \A y \in {0, v} : y <= v
        BY <2>0
    <3>2. Max({0, v}) = v
        BY <3>1, MaxIs
    <3>3. {IntMax, v} \in SUBSET Int /\ v \in {IntMax, v} /\ \A y \in {IntMax, v} : v <= y
        BY <2>0
    <3> QED
        BY <3>2, <3>3, MinIs
  <2>3. CASE ub = 0 /\ a = Answer(threads)
    <3>1. FitBlocks(size, ub, dev) = Min({IntMax, Max({0, threads})})
        BY <2>0, <2>3, FitIs
    <3> HIDE DEF threads
    <3>2. FitBlocks(size, ub, dev) = threads
        BY <2>1, <2>2, <3>1
    <3> QED
        BY <2>3, <3>2, Answers
  <2>4. CASE ub # 0 /\ dev.ub > 0 /\ a = Answer(Min({threads, dev.ub \div ub}))
    <3> DEFINE b == dev.ub \div ub
               v == Min({threads, b})
    <3>1. FitBlocks(size, ub, dev) = Min({IntMax, Max({0, v})})
        BY <2>0, <2>4, FitIs
    <3>2. b \in Int /\ b >= 0
      <4>1. ub \in Nat \ {0} /\ dev.ub \in Int /\ 0 * ub <= dev.ub
          BY <2>0, <2>4
      <4> QED
          BY <4>1, Fitting
    <3> HIDE DEF threads, b
    <3>3. v = IF threads <= b THEN threads ELSE b
        BY <2>1, <3>2, OfTwo
    <3>4. v \in 0 .. IntMax
        BY <2>0, <2>1, <3>2, <3>3
    <3>5. a = Answer(v)
        BY <2>4 DEF b
    <3> HIDE DEF v
    <3>6. FitBlocks(size, ub, dev) = v
        BY <2>2, <3>1, <3>4
    <3> QED
        BY <3>5, <3>6, Answers
  <2> QED
      BY <1>3, <2>3, <2>4
<1> HIDE DEF threads
<1> QED
    BY <1>1, <1>2, <1>3

\* The answer to a question about the block size, when the sizes that fit are known.
Estimated(a, fits, dev, failing) ==
    /\ a.status # "ok" => a.out = <<>>
    /\ a.status = "ok" => /\ failing \cap Attributes = {} /\ fits # {}
                          /\ a.out[1].block = Max(fits)
                          /\ a.out[1].grid = FewestBlocks(Max(fits), dev)
    /\ a.status = "unsupported" /\ Usable(dev) /\ dev.perCore <= MaxSteps * dev.warp => fits = {}

\* The search and the grid computed from it answer the question.
LEMMA EstimateIs ==
    ASSUME NEW dev \in [Attributes \cup Properties -> Int],
           NEW model \in [base : Nat, slope : Int], NEW limit \in Int, NEW failing,
           NEW a, a = PotentialBlockSizeEstimate(limit, model, dev, failing)
    PROVE  Estimated(a, LaunchSizes(limit, model, dev), dev, failing)
<1> DEFINE block == Search(dev, model, (Capped(limit, dev) \div dev.warp) * dev.warp)
           waves == (dev.perCore + block - 1) \div block
           grid == Max({1, Min({dev.perGrid, waves * dev.cores})})
<1>1. a = IF limit < 0 THEN Failed("invalid")
          ELSE IF ~Reads(failing, Attributes) THEN Failed("runtime")
          ELSE IF ~Positive(dev, Attributes \ {"ub"}) \/ dev.ub < 0 THEN Failed("unsupported")
          ELSE IF block = 0 THEN Failed("unsupported")
          ELSE Answer([block |-> block, grid |-> grid])
  BY Zenon DEF PotentialBlockSizeEstimate, Capped
<1>2. dev.ub \in Int
  BY DEF Attributes
<1>3. Usable(dev) <=> Positive(dev, Attributes \ {"ub"}) /\ ~(dev.ub < 0)
  BY <1>2 DEF Usable
<1> HIDE DEF block, grid
<1>4. CASE limit < 0
  <2>1. a = Failed("invalid")
    BY <1>1, <1>4
  <2> QED
    BY <2>1, Answers DEF Estimated
<1>5. CASE ~(limit < 0) /\ ~Reads(failing, Attributes)
  <2>1. a = Failed("runtime")
    BY <1>1, <1>5
  <2> QED
    BY <2>1, Answers DEF Estimated
<1>6. CASE ~(limit < 0) /\ Reads(failing, Attributes) /\ ~Usable(dev)
  <2>1. a = Failed("unsupported")
    BY <1>1, <1>3, <1>6
  <2> QED
    BY <1>6, <2>1, Answers DEF Estimated
<1>7. CASE ~(limit < 0) /\ Reads(failing, Attributes) /\ Usable(dev)
  <2>1. a = IF block = 0 THEN Failed("unsupported")
            ELSE Answer([block |-> block, grid |-> grid])
    BY <1>1, <1>3, <1>7
  <2>2. /\ block # 0 => /\ LaunchSizes(limit, model, dev) # {}
                        /\ Max(LaunchSizes(limit, model, dev)) = block
                        /\ block \in 1 .. dev.perCore
        /\ block = 0 /\ dev.perCore <= MaxSteps * dev.warp => LaunchSizes(limit, model, dev) = {}
    BY <1>7, BlockIs DEF block
  <2>3. CASE block = 0
    <3>1. a = Failed("unsupported")
      BY <2>1, <2>3
    <3> QED
      BY <2>2, <2>3, <3>1, Answers DEF Estimated
  <2>4. CASE block # 0
    <3>1. a.status = "ok" /\ a.out[1] = [block |-> block, grid |-> grid]
      BY <2>1, <2>4, Answers
    <3>2. grid = FewestBlocks(block, dev)
      BY <1>7, <2>2, <2>4, GridIs DEF grid
    <3>3. failing \cap Attributes = {}
      BY <1>7 DEF Reads
    <3> QED
      BY <2>2, <2>4, <3>1, <3>2, <3>3 DEF Estimated
  <2> QED
    BY <2>3, <2>4
<1> QED
  BY <1>4, <1>5, <1>6, <1>7

\* The plain overload asks with a model that does not depend on the block.
LEMMA PlainIs ==
    ASSUME NEW model \in [base : Nat, slope : Int]
    PROVE  /\ [model EXCEPT !.slope = 0] = [base |-> model.base, slope |-> 0]
           /\ [base |-> model.base, slope |-> 0] \in [base : Nat, slope : Int]
    OBVIOUS

Bounded(a, bound, dev) ==
    /\ a.status # "ok" => a.out = <<>>
    /\ a.status = "ok" => a.out[1] <= bound /\ a.out[1] <= dev.perBlock

\* A kernel has no more threads than its bound and the device allow.
LEMMA AttributesAre ==
    ASSUME NEW dev \in [Attributes \cup Properties -> Int], NEW bound \in Int, NEW beta, NEW failing,
           NEW a, a = FuncGetAttributesMaxThreads(bound, beta, dev, failing)
    PROVE  Bounded(a, bound, dev)
<1> USE DEF Bounded
<1>1. \/ \E s \in {"runtime", "unsupported"} : a = Failed(s)
      \/ a = Answer(Min({dev.perBlock, bound}))
  BY DEF FuncGetAttributesMaxThreads
<1>2. dev.perBlock \in Int
  BY DEF Attributes
<1>3. Min({dev.perBlock, bound}) <= bound /\ Min({dev.perBlock, bound}) <= dev.perBlock
  BY <1>2, OfTwo
<1> QED
  BY <1>1, <1>3, Answers

Described(a, failing) ==
    /\ a.status # "ok" => a.out = <<>>
    /\ a.status = "ok" => failing \cap Properties = {} /\ \A p \in Properties : a.out[1][p] > 0

\* Properties are stored when every read succeeded and every value is positive.
LEMMA PropertiesAre ==
    ASSUME NEW dev \in [Attributes \cup Properties -> Int], NEW id \in Int, NEW named, NEW failing,
           NEW a, a = GetDeviceProperties(id, named, dev, failing)
    PROVE  Described(a, failing)
<1> USE DEF Described
<1>1. \/ \E s \in {"runtime", "unsupported", "invalid"} : a = Failed(s)
      \/ /\ Reads(failing, Properties) /\ Positive(dev, Properties \ {"memory"}) /\ ~(dev.memory <= 0)
         /\ a = Answer([p \in Properties |-> dev[p]])
  BY DEF GetDeviceProperties
<1>2. CASE \E s \in {"runtime", "unsupported", "invalid"} : a = Failed(s)
  BY <1>2, Answers
<1>3. CASE /\ Reads(failing, Properties) /\ Positive(dev, Properties \ {"memory"}) /\ ~(dev.memory <= 0)
           /\ a = Answer([p \in Properties |-> dev[p]])
  <2>1. a.status = "ok" /\ a.out[1] = [p \in Properties |-> dev[p]]
    BY <1>3, Answers
  <2>2. dev.memory > 0
    BY <1>3 DEF Properties
  <2>3. \A p \in Properties : dev[p] > 0
    BY <1>3, <2>2 DEF Positive, Properties
  <2> QED
    BY <1>3, <2>1, <2>3 DEF Reads
<1> QED
  BY <1>1, <1>2, <1>3

\* The sample goes on only with one device and at most one selector.
LEMMA DeviceFound ==
    ASSUME NEW args \in Seq({"other", "zero", "device"}), NEW counted, NEW devices, NEW binds,
           NEW a, a = FindCudaDevice(args, counted, devices, binds)
    PROVE  /\ a.status # "ok" => a.out = <<>>
           /\ a.status = "ok" => devices = 1 /\ Cardinality(Selectors(args)) <= 1
<1>1. \/ a = Failed("exit")
      \/ /\ a = Answer(0) /\ devices = 1
         /\ \A i, j \in Selectors(args) : ~(j < i)
  BY DEF FindCudaDevice
<1>2. CASE a = Failed("exit")
  BY <1>2, Answers
<1>3. CASE /\ a = Answer(0) /\ devices = 1
           /\ \A i, j \in Selectors(args) : ~(j < i)
  <2>1. Selectors(args) \subseteq 1 .. Len(args) /\ Len(args) \in Nat
    BY DEF Selectors
  <2>2. \A i, j \in Selectors(args) : i = j
    BY <1>3, <2>1
  <2>3. Cardinality(Selectors(args)) <= 1
    <3>1. CASE Selectors(args) = {}
      BY <3>1, FS_EmptySet
    <3>2. CASE Selectors(args) # {}
      <4>1. PICK i : Selectors(args) = {i}
        BY <2>2, <3>2
      <4>2. Cardinality({i}) = 1
        BY FS_Singleton, Zenon
      <4> QED
        BY <4>1, <4>2
    <3> QED
      BY <3>1, <3>2
  <2> QED
    BY <1>3, <2>3, Answers
<1> QED
  BY <1>1, <1>2, <1>3

\* Nothing was asked yet, or the last answer is the one to the last question.
AskedInv == asked = <<>> \/ \E q \in Questions : asked = <<q, Asks(q)>>

\* Only a question changes the answer.
LEMMA AskedNext == AskedInv /\ [Next]_vars => AskedInv'
<1> SUFFICES ASSUME AskedInv, [Next]_vars PROVE AskedInv'
  OBVIOUS
<1>1. ASSUME UNCHANGED asked PROVE AskedInv'
  BY <1>1 DEF AskedInv
<1>2. ASSUME NEW t \in Threads, Submits(t) PROVE UNCHANGED asked
  BY <1>2 DEF Submits, MemcpyAsync, LaunchHostFunc, Launch, EventRecord, StreamWaitEvent, Immediate
<1>3. ASSUME NEW t \in Observed, Calls(t) PROVE UNCHANGED asked
  BY <1>3 DEF Calls, NotReady, Refuse, DeviceCall, HostMemory, GetLastError, PeekAtLastError,
     StreamSynchronize, StreamDestroy, StreamQuery, StreamCreate, StreamCreateWithPriority,
     EventSynchronize, EventQuery, DeviceSynchronize, Memset, Memcpy, SymbolCopy, SymbolNative,
     Immediate, Begin
<1>4. ASSUME NEW t \in Observed, Continues(t) PROVE UNCHANGED asked
  BY <1>4 DEF Continues, WaitFor, WaitFails, CheckPending, ImmediateCopy, Resolve, LaunchAddress,
     AddressLaunched, AddressAwaited, AddressFree
<1>5. ASSUME NEW i \in DOMAIN work, Run(i) PROVE UNCHANGED asked
  BY <1>5 DEF Run
<1>6. ASSUME NEW k \in Tokens, Register(k) PROVE UNCHANGED asked
  BY <1>6 DEF Register
<1>7. ASSUME NEW q \in Questions, Ask(q) PROVE AskedInv'
  BY <1>7 DEF Ask, AskedInv
<1>8. ASSUME UNCHANGED vars PROVE UNCHANGED asked
  BY <1>8 DEF vars
<1> QED
  BY <1>1, <1>2, <1>3, <1>4, <1>5, <1>6, <1>7, <1>8 DEF Next, Over

\* The right answer to every question.
LEMMA AnswersExact == AskedInv => QueryExact
<1> SUFFICES ASSUME NEW q \in Questions, asked = <<q, Asks(q)>> PROVE QueryExact
  BY DEF AskedInv, QueryExact
<1> DEFINE size == q.size
           bound == q.bound
           ub == q.model.base
           dev == q.dev
           failing == q.failing
           args == q.args
           a == Asks(q)
           limit == IF q.what = "size" THEN size
                    ELSE IF size > 0 /\ size < bound THEN size ELSE bound
           model == IF q.what = "size" THEN [q.model EXCEPT !.slope = 0] ELSE q.model
           fits == LaunchSizes(limit, model, dev)
<1>1. /\ q.what \in {"active", "activeBound", "size", "sizeBound", "attributes", "properties", "find"}
      /\ size \in Int /\ bound \in Int
      /\ q.model \in [base : Nat, slope : Int] /\ ub \in Nat
      /\ dev \in [Attributes \cup Properties -> Int]
      /\ args \in Seq({"other", "zero", "device"})
  BY QuestionsAssumption
<1> DEFINE right ==
       CASE q.what \in {"active", "activeBound"} ->
              /\ a.out[1] = FitBlocks(size, ub, dev)
              /\ q.what = "activeBound" => size <= bound
         [] q.what \in {"size", "sizeBound"} ->
              /\ failing \cap Attributes = {} /\ fits # {} /\ a.out[1].block = Max(fits)
              /\ a.out[1].grid = FewestBlocks(Max(fits), dev)
         [] q.what = "properties" ->
              failing \cap Properties = {} /\ \A p \in Properties : a.out[1][p] > 0
         [] q.what = "attributes" -> a.out[1] <= bound /\ a.out[1] <= dev.perBlock
         [] OTHER -> size = 1 /\ Cardinality(Selectors(args)) <= 1
       exact ==
         /\ a.status # "ok" => a.out = <<>>
         /\ a.status = "ok" => right
         /\ q.what \in {"size", "sizeBound"} /\ a.status = "unsupported"
              /\ Positive(dev, Attributes \ {"ub"}) /\ dev.ub >= 0
              /\ dev.perCore <= MaxSteps * dev.warp => fits = {}
<1>0. exact => QueryExact
  BY Zenon DEF QueryExact
<1>2. CASE q.what = "active"
  <2>1. a = MaxActiveBlocks(size, ub, dev, failing)
    BY <1>2 DEF Asks
  <2> HIDE DEF a, size, bound, ub, dev, failing, args
  <2>2. Counted(a, size, ub, dev)
    <3>1. size \in Int /\ bound \in Int /\ ub \in Nat /\ dev \in [Attributes \cup Properties -> Int]
      BY <1>1
    <3> QED
      BY <2>1, <3>1, ActiveIs, Zenon
  <2> QED
    BY <1>0, <1>2, <2>2 DEF Counted
<1>3. CASE q.what = "activeBound"
  <2>1. a = MaxActiveBlocksMaxThreads(size, ub, bound, dev, failing)
    BY <1>3 DEF Asks
  <2> HIDE DEF a, size, bound, ub, dev, failing, args
  <2>2. CountedWithin(a, size, ub, bound, dev)
    <3>1. size \in Int /\ bound \in Int /\ ub \in Nat /\ dev \in [Attributes \cup Properties -> Int]
      BY <1>1
    <3> QED
      BY <2>1, <3>1, ActiveBoundIs, Zenon
  <2> QED
    BY <1>0, <1>3, <2>2 DEF Counted, CountedWithin
<1>4. CASE q.what \in {"size", "sizeBound"}
  <2>0. limit \in Int /\ model \in [base : Nat, slope : Int]
    BY <1>1, PlainIs
  <2>1. \/ a = PotentialBlockSizeEstimate(limit, model, dev, failing)
        \/ a = Failed("invalid")
    <3>1. CASE q.what = "size"
      <4>1. a = MaxPotentialBlockSize(size, ub, dev, failing)
        BY <3>1 DEF Asks
      <4>2. model = [base |-> ub, slope |-> 0]
        BY <1>1, <3>1, PlainIs
      <4> QED
        BY <3>1, <4>1, <4>2 DEF MaxPotentialBlockSize
    <3>2. CASE q.what = "sizeBound"
      <4>1. a = MaxPotentialBlockSizeMaxThreads(size, q.model, bound, dev, failing)
        BY <3>2 DEF Asks
      <4> QED
        BY <3>2, <4>1 DEF MaxPotentialBlockSizeMaxThreads
    <3> QED
      BY <1>4, <3>1, <3>2
  <2> HIDE DEF a, limit, model, size, bound, ub, dev, failing, args
  <2>2. Estimated(a, fits, dev, failing)
    <3>1. CASE a = Failed("invalid")
      BY <3>1, Answers DEF Estimated
    <3>2. CASE a = PotentialBlockSizeEstimate(limit, model, dev, failing)
      <4>1. limit \in Int /\ model \in [base : Nat, slope : Int]
            /\ dev \in [Attributes \cup Properties -> Int]
        BY <1>1, <2>0
      <4> QED
        BY <3>2, <4>1, EstimateIs, Zenon
    <3> QED
      BY <2>1, <3>1, <3>2
  <2>3. Positive(dev, Attributes \ {"ub"}) /\ dev.ub >= 0 => Usable(dev)
    BY <1>1 DEF Usable
  <2> HIDE DEF fits
  <2> QED
    BY <1>0, <1>4, <2>2, <2>3 DEF Estimated
<1>5. CASE q.what = "attributes"
  <2>1. a = FuncGetAttributesMaxThreads(bound, Beta, dev, failing)
    BY <1>5 DEF Asks
  <2> HIDE DEF a, size, bound, ub, dev, failing, args
  <2>2. Bounded(a, bound, dev)
    BY <1>1, <2>1, AttributesAre
  <2> QED
    BY <1>0, <1>5, <2>2 DEF Bounded
<1>6. CASE q.what = "properties"
  <2>1. a = GetDeviceProperties(size, bound > 0, dev, failing)
    BY <1>6 DEF Asks
  <2> HIDE DEF a, size, bound, ub, dev, failing, args
  <2>2. Described(a, failing)
    <3>1. size \in Int /\ bound \in Int /\ ub \in Nat /\ dev \in [Attributes \cup Properties -> Int]
      BY <1>1
    <3> QED
      BY <2>1, <3>1, PropertiesAre, Zenon
  <2> QED
    BY <1>0, <1>6, <2>2 DEF Described
<1>7. CASE q.what = "find"
  <2>1. a = FindCudaDevice(args, "cores" \notin failing, size, bound > 0)
    BY <1>7 DEF Asks
  <2> HIDE DEF a, size, bound, ub, dev, failing, args
  <2>2. /\ a.status # "ok" => a.out = <<>>
        /\ a.status = "ok" => size = 1 /\ Cardinality(Selectors(args)) <= 1
    BY <1>1, <2>1, DeviceFound
  <2> QED
    BY <1>0, <1>7, <2>2
<1> QED
  BY <1>1, <1>2, <1>3, <1>4, <1>5, <1>6, <1>7

\* For every device, block size, kernel bound, model of dynamic UB and set of failing
\* reads: an occupancy answer is the best launch the limits admit, the search finds
\* a block size when one fits within its steps, device properties and attributes
\* come from reads that succeeded, and a refused question stores nothing.
THEOREM AnswersAreExact == Spec => []QueryExact
<1>1. Init => AskedInv
  BY DEF Init, AskedInv
<1> QED
  BY <1>1, AskedNext, AnswersExact, PTL DEF Spec

-----------------------------------------------------------------------------
(* Definitions by recursion over 0 .. N.                                    *)

\* u is a at 0 and at each later number k takes the step of k.
Steps(u, N, K, a, step) ==
  u \in [0 .. N -> K] /\ u[0] = a /\ \A k \in 1 .. N : u[k] = step[k][u[k - 1]]

\* A definition by recursion defines a function into the values of its steps.
LEMMA Recursion ==
  ASSUME NEW N \in Nat, NEW K, NEW a \in K, NEW step \in [1 .. N -> [K -> K]]
  PROVE  \E u : Steps(u, N, K, a, step)
<1> DEFINE Good(u, n) == u[0] = a /\ \A k \in 1 .. n : u[k] = step[k][u[k - 1]]
           S == {n \in 0 .. N : \E u \in [0 .. N -> K] : Good(u, n)}
<1>1. 0 \in S
  <2> DEFINE u == [k \in 0 .. N |-> a]
  <2>1. u \in [0 .. N -> K] /\ Good(u, 0)
    OBVIOUS
  <2> HIDE DEF u, Good
  <2> QED
    BY <2>1
<1>2. ASSUME NEW n \in 1 .. N, n - 1 \in S
      PROVE  n \in S
  <2>1. PICK u \in [0 .. N -> K] : Good(u, n - 1)
    BY <1>2
  <2> DEFINE y == step[n][u[n - 1]]
             g == [k \in 0 .. N |-> IF k = n THEN y ELSE u[k]]
  <2>2. y \in K
    OBVIOUS
  <2> HIDE DEF y
  <2>3. g \in [0 .. N -> K]
    BY <2>2
  <2>4. g[n] = y /\ \A k \in 0 .. n - 1 : g[k] = u[k]
    OBVIOUS
  <2> HIDE DEF g
  <2>5. g[0] = a
    BY <2>1, <2>4
  <2>6. ASSUME NEW k \in 1 .. n
        PROVE  g[k] = step[k][g[k - 1]]
    <3>1. g[k - 1] = u[k - 1]
      BY <2>4
    <3>2. CASE k = n
      BY <2>4, <3>1, <3>2 DEF y
    <3>3. CASE k \in 1 .. n - 1
      BY <2>1, <2>4, <3>1, <3>3
    <3> QED
      BY <3>2, <3>3
  <2>7. Good(g, n)
    BY <2>5, <2>6
  <2> HIDE DEF Good
  <2> QED
    BY <2>3, <2>7
<1>3. N \in S
  <2> HIDE DEF S
  <2>1. \A k \in 1 .. N : k - 1 \in S => k \in S
    BY <1>2
  <2>2. \A k \in 0 .. N : k \in S
    BY <1>1, <2>1, Induction
  <2> QED
    BY <2>2
<1> QED
  BY <1>3 DEF Steps

-----------------------------------------------------------------------------
(* Powers of two and the registers.                                         *)

LEMMA TwoToIs ==
  /\ TwoTo[0] = 1
  /\ \A k \in 1 .. Width + IntBits : TwoTo[k] = 2 * TwoTo[k - 1]
  /\ \A k \in 0 .. Width + IntBits : TwoTo[k] \in Nat /\ TwoTo[k] > k
<1> DEFINE N == Width + IntBits
           step == [k \in 1 .. N |-> [x \in Nat |-> 2 * x]]
           Made(u) == [k \in 0 .. N |-> IF k = 0 THEN 1 ELSE 2 * u[k - 1]]
<1>1. TwoTo = CHOOSE u : u = Made(u)
  BY DEF TwoTo
<1>2. N \in Nat
  BY GroupsAssumption
<1> HIDE DEF N
<1>3. step \in [1 .. N -> [Nat -> Nat]]
  OBVIOUS
<1>4. PICK u \in [0 .. N -> Nat] : u[0] = 1 /\ \A k \in 1 .. N : u[k] = step[k][u[k - 1]]
  <2> HIDE DEF step
  <2>1. \E u : Steps(u, N, Nat, 1, step)
    BY <1>2, <1>3, Recursion
  <2> QED
    BY <2>1 DEF Steps
<1> HIDE DEF step
<1>5. u = Made(u)
  <2>1. ASSUME NEW n \in 0 .. N
        PROVE  u[n] = Made(u)[n]
    <3>1. CASE n = 0
      BY <1>4, <3>1
    <3>2. CASE n \in 1 .. N
      <4>1. u[n] = step[n][u[n - 1]] /\ u[n - 1] \in Nat /\ n # 0
        BY <1>2, <1>4, <3>2
      <4> QED
        BY <4>1, <3>2 DEF step
    <3> QED
      BY <1>2, <3>1, <3>2
  <2> QED
    BY <2>1
<1>6. TwoTo = Made(TwoTo)
  BY <1>1, <1>5
<1>7. TwoTo[0] = 1 /\ \A k \in 1 .. N : TwoTo[k] = 2 * TwoTo[k - 1]
  BY <1>2, <1>6
<1> DEFINE S == {k \in 0 .. N : TwoTo[k] \in Nat /\ TwoTo[k] > k}
<1>8. \A k \in 0 .. N : k \in S
  <2>1. 0 \in S
    BY <1>2, <1>7
  <2>2. ASSUME NEW k \in 1 .. N, k - 1 \in S
        PROVE  k \in S
    <3>1. TwoTo[k] = 2 * TwoTo[k - 1] /\ TwoTo[k - 1] \in Nat /\ TwoTo[k - 1] > k - 1
      BY <1>7, <2>2
    <3> QED
      BY <1>2, <3>1
  <2> HIDE DEF S
  <2> QED
    BY <1>2, <2>1, <2>2, Induction
<1> QED
  BY <1>7, <1>8 DEF N

\* Half the registers' values are negative.
Half == TwoTo[IntBits - 1]
Registered == -Half .. Half - 1

LEMMA HalfIs == Half \in Nat \ {0} /\ TwoTo[IntBits] = 2 * Half
<1>1. IntBits \in 1 .. Width + IntBits /\ IntBits - 1 \in 0 .. Width + IntBits
  BY GroupsAssumption
<1> QED
  BY <1>1, TwoToIs DEF Half

LEMMA WidthIs == Width \in Nat /\ Width >= 2 /\ \E k \in 1 .. Width : Width = TwoTo[k]
<1>1. PICK k \in 1 .. Width : Width = TwoTo[k]
  BY GroupsAssumption
<1>2. Width \in Nat /\ k \in 1 .. Width + IntBits /\ k \in 0 .. Width + IntBits /\ k >= 1
  BY <1>1, GroupsAssumption
<1>3. TwoTo[k] > k
  BY <1>2, TwoToIs
<1> QED
  BY <1>1, <1>2, <1>3

LEMMA Division ==
  ASSUME NEW a \in Int, NEW k \in Nat \ {0}
  PROVE  /\ a \div k \in Int /\ a % k \in 0 .. k - 1
         /\ a = k * (a \div k) + (a % k)
OBVIOUS

\* Wrapping takes away a multiple of the modulus.
LEMMA WrapIs ==
  ASSUME NEW n \in Int
  PROVE  /\ Wrap(n) \in Registered
         /\ \E q \in Int : n = Wrap(n) + q * (2 * Half)
<1> DEFINE M == 2 * Half
<1>1. Half \in Nat \ {0} /\ M \in Nat \ {0} /\ TwoTo[IntBits] = M
  BY HalfIs
<1>2. n % M \in 0 .. M - 1 /\ n \div M \in Int /\ n = (M * (n \div M)) + (n % M)
  <2> HIDE DEF M
  <2> QED
    BY <1>1, Division
<1>3. CASE n % M >= Half
  <2>1. Wrap(n) = (n % M) - M
    BY <1>1, <1>3 DEF Wrap, Half
  <2>2. Wrap(n) \in Registered
    BY <1>1, <1>2, <1>3, <2>1 DEF Registered
  <2>3. n = Wrap(n) + ((n \div M) + 1) * M
    BY <1>1, <1>2, <2>1
  <2> QED
    BY <1>2, <2>2, <2>3
<1>4. CASE ~(n % M >= Half)
  <2>1. Wrap(n) = n % M
    BY <1>1, <1>4 DEF Wrap, Half
  <2>2. Wrap(n) \in Registered
    BY <1>1, <1>2, <1>4, <2>1 DEF Registered
  <2>3. n = Wrap(n) + (n \div M) * M
    BY <1>1, <1>2, <2>1
  <2> QED
    BY <1>2, <2>2, <2>3
<1> QED
  BY <1>3, <1>4

\* Two values of the registers that differ by a multiple of the modulus are one.
LEMMA OneResidue ==
  ASSUME NEW x \in Registered, NEW y \in Registered, NEW q \in Int, x = y + q * (2 * Half)
  PROVE  x = y
<1>1. Half \in Nat \ {0}
  BY HalfIs
<1>2. x \in Int /\ y \in Int /\ x - y < 2 * Half /\ y - x < 2 * Half
  BY <1>1 DEF Registered
<1>3. CASE q >= 1
  <2>1. q * (2 * Half) >= 2 * Half
    BY <1>1, <1>3
  <2> QED
    BY <1>1, <1>2, <2>1
<1>4. CASE q <= -1
  <2>1. q * (2 * Half) <= -(2 * Half)
    BY <1>1, <1>4
  <2> QED
    BY <1>1, <1>2, <2>1
<1>5. CASE q = 0
  BY <1>1, <1>2, <1>5
<1> QED
  BY <1>3, <1>4, <1>5

LEMMA WrapKeeps ==
  ASSUME NEW x \in Registered
  PROVE  Wrap(x) = x
<1>1. x \in Int
  BY HalfIs DEF Registered
<1>2. PICK q \in Int : x = Wrap(x) + q * (2 * Half)
  BY <1>1, WrapIs
<1>3. Wrap(x) \in Registered
  BY <1>1, WrapIs
<1> QED
  BY <1>2, <1>3, OneResidue

LEMMA WrapSum ==
  ASSUME NEW a \in Int, NEW b \in Int
  PROVE  Wrap(Wrap(a) + Wrap(b)) = Wrap(a + b)
<1> DEFINE M == 2 * Half
           x == Wrap(Wrap(a) + Wrap(b))
           y == Wrap(a + b)
<1>1. M \in Nat
  BY HalfIs
<1>2. Wrap(a) \in Int /\ Wrap(b) \in Int
  BY WrapIs, HalfIs DEF Registered
<1>3. PICK p \in Int : a = Wrap(a) + p * M
  BY WrapIs
<1>4. PICK q \in Int : b = Wrap(b) + q * M
  BY WrapIs
<1>5. PICK r \in Int : Wrap(a) + Wrap(b) = x + r * M
  BY <1>2, WrapIs
<1>6. PICK t \in Int : a + b = y + t * M
  BY WrapIs
<1>7. x \in Registered /\ y \in Registered
  BY <1>2, WrapIs
<1>8. x \in Int /\ y \in Int
  BY <1>7, HalfIs DEF Registered
<1> HIDE DEF M, x, y
<1>9. x = y + (t - p - q - r) * M
  <2>1. a + b = (x + r * M) + p * M + q * M
    BY <1>1, <1>2, <1>3, <1>4, <1>5, <1>8
  <2>2. x = y + t * M - r * M - p * M - q * M
    <3>1. r * M \in Int /\ p * M \in Int /\ q * M \in Int /\ t * M \in Int
      BY <1>1
    <3> DEFINE rM == r * M
               pM == p * M
               qM == q * M
               tM == t * M
    <3>2. rM \in Int /\ pM \in Int /\ qM \in Int /\ tM \in Int
      BY <3>1
    <3>3. a + b = (x + rM) + pM + qM /\ a + b = y + tM
      BY <1>6, <2>1
    <3> HIDE DEF rM, pM, qM, tM
    <3>4. x = y + tM - rM - pM - qM
      BY <1>8, <3>2, <3>3
    <3> QED
      BY <3>4 DEF rM, pM, qM, tM
  <2> QED
    BY <1>1, <1>8, <2>2
<1> QED
  BY <1>7, <1>9, OneResidue DEF M, x, y

-----------------------------------------------------------------------------
(* What a set of lanes reduces to.                                          *)

RegisterFiles == [Warp -> Registered]

\* The sum of the operands of the lanes of g below k.
Partial(in, g) ==
  LET s[k \in 0..Width] ==
          IF k = 0 THEN 0 ELSE s[k - 1] + (IF k - 1 \in g THEN in[k - 1] ELSE 0)
  IN  s

LEMMA PartialIs ==
  ASSUME NEW in \in [Warp -> Int], NEW g
  PROVE  /\ Partial(in, g)[0] = 0
         /\ \A k \in 0 .. Width - 1 : Partial(in, g)[k + 1] =
               Partial(in, g)[k] + (IF k \in g THEN in[k] ELSE 0)
         /\ \A k \in 0 .. Width : Partial(in, g)[k] \in Int
         /\ SumOver(in, g) = Partial(in, g)[Width]
<1> DEFINE N == Width
           add == [k \in 1 .. N |-> IF k - 1 \in g THEN in[k - 1] ELSE 0]
           step == [k \in 1 .. N |-> [x \in Int |-> x + add[k]]]
           Made(u) == [k \in 0 .. N |-> IF k = 0 THEN 0 ELSE u[k - 1] + (IF k - 1 \in g THEN in[k - 1] ELSE 0)]
<1>1. Partial(in, g) = CHOOSE u : u = Made(u)
  BY DEF Partial
<1>2. N \in Nat
  BY GroupsAssumption
<1>3. add \in [1 .. N -> Int]
  <2>1. ASSUME NEW k \in 1 .. N PROVE (IF k - 1 \in g THEN in[k - 1] ELSE 0) \in Int
    BY <1>2 DEF Warp
  <2> QED
    BY <2>1
<1>4. SumOver(in, g) = Partial(in, g)[Width]
  BY DEF SumOver, Partial
<1> HIDE DEF N
<1>5. step \in [1 .. N -> [Int -> Int]]
  <2> HIDE DEF add
  <2>1. ASSUME NEW k \in 1 .. N PROVE [x \in Int |-> x + add[k]] \in [Int -> Int]
    BY <1>3
  <2> QED
    BY <2>1
<1> HIDE DEF step, add
<1>6. PICK u \in [0 .. N -> Int] : u[0] = 0 /\ \A k \in 1 .. N : u[k] = step[k][u[k - 1]]
  <2> DEFINE V == Int
  <2>1. 0 \in V /\ step \in [1 .. N -> [V -> V]]
    BY <1>5
  <2> HIDE DEF V
  <2>2. \E u : Steps(u, N, V, 0, step)
    BY <1>2, <2>1, Recursion
  <2> QED
    BY <2>2 DEF Steps, V
<1>7. u = Made(u)
  <2>1. ASSUME NEW n \in 0 .. N
        PROVE  u[n] = Made(u)[n]
    <3>1. CASE n = 0
      BY <1>6, <3>1
    <3>2. CASE n \in 1 .. N
      <4>1. u[n] = step[n][u[n - 1]] /\ u[n - 1] \in Int /\ n # 0
        BY <1>2, <1>6, <3>2
      <4>2. u[n] = u[n - 1] + add[n]
        BY <4>1, <3>2 DEF step
      <4> QED
        BY <4>1, <4>2, <3>2 DEF add
    <3> QED
      BY <1>2, <3>1, <3>2
  <2> QED
    BY <2>1
<1> DEFINE w == Partial(in, g)
<1>8. w = Made(w)
  BY <1>1, <1>7
<1> HIDE DEF w
<1>9. w[0] = 0 /\ \A k \in 1 .. N : w[k] = w[k - 1] + (IF k - 1 \in g THEN in[k - 1] ELSE 0)
  BY <1>2, <1>8
<1> DEFINE S == {k \in 0 .. N : w[k] \in Int}
<1>10. \A k \in 0 .. N : k \in S
  <2>1. 0 \in S
    BY <1>2, <1>9
  <2>2. ASSUME NEW k \in 1 .. N, k - 1 \in S
        PROVE  k \in S
    <3>1. w[k] = w[k - 1] + add[k]
      BY <1>9, <2>2 DEF add
    <3>2. w[k - 1] \in Int /\ add[k] \in Int
      BY <1>3, <2>2
    <3> QED
      BY <1>2, <3>1, <3>2
  <2> HIDE DEF S
  <2> QED
    BY <1>2, <2>1, <2>2, Induction
<1>11. ASSUME NEW k \in 0 .. N - 1
       PROVE  w[k + 1] = w[k] + (IF k \in g THEN in[k] ELSE 0)
  <2>1. k + 1 \in 1 .. N /\ (k + 1) - 1 = k
    BY <1>2
  <2> QED
    BY <1>9, <2>1
<1> QED
  BY <1>4, <1>9, <1>10, <1>11 DEF w, N

LEMMA SumOne ==
  ASSUME NEW in \in [Warp -> Int], NEW l \in Warp
  PROVE  SumOver(in, {l}) = in[l]
<1> DEFINE N == Width
           u == Partial(in, {l})
           S == {n \in 0 .. N : u[n] = IF n > l THEN in[l] ELSE 0}
<1>1. N \in Nat /\ l \in 0 .. N - 1 /\ in[l] \in Int
  BY GroupsAssumption DEF Warp
<1>2. /\ u[0] = 0
      /\ \A n \in 0 .. N - 1 : u[n + 1] = u[n] + (IF n \in {l} THEN in[n] ELSE 0)
      /\ SumOver(in, {l}) = u[N]
  BY PartialIs
<1> HIDE DEF N, u
<1>3. 0 \in S
  BY <1>1, <1>2
<1>4. ASSUME NEW k \in 1 .. N, k - 1 \in S
      PROVE  k \in S
  <2>1. k - 1 \in 0 .. N - 1 /\ (k - 1) + 1 = k
    BY <1>1
  <2>2. u[k] = u[k - 1] + (IF k - 1 \in {l} THEN in[k - 1] ELSE 0)
    BY <1>2, <2>1
  <2>3. u[k - 1] = IF k - 1 > l THEN in[l] ELSE 0
    BY <1>4
  <2>4. CASE k - 1 = l
    BY <1>1, <2>2, <2>3, <2>4
  <2>5. CASE k - 1 # l
    <3>1. (k > l) <=> (k - 1 > l)
      BY <1>1, <2>5
    <3>2. u[k - 1] \in Int
      BY <1>1, <2>3
    <3>3. u[k] = u[k - 1]
      BY <2>2, <2>5, <3>2
    <3> QED
      BY <1>1, <2>3, <3>1, <3>3
  <2> QED
    BY <2>4, <2>5
<1>5. N \in S
  <2> HIDE DEF S
  <2>1. \A n \in 0 .. N : n \in S
    BY <1>1, <1>3, <1>4, Induction
  <2> QED
    BY <1>1, <2>1
<1> QED
  BY <1>1, <1>2, <1>5

LEMMA SumJoin ==
  ASSUME NEW in \in [Warp -> Int], NEW A, NEW B, A \cap B = {}
  PROVE  /\ SumOver(in, A \cup B) = SumOver(in, A) + SumOver(in, B)
         /\ SumOver(in, A) \in Int /\ SumOver(in, B) \in Int
<1> DEFINE N == Width
           u == Partial(in, A \cup B)
           a == Partial(in, A)
           b == Partial(in, B)
           S == {n \in 0 .. N : u[n] = a[n] + b[n]}
<1>1. N \in Nat /\ \A n \in 0 .. N - 1 : in[n] \in Int
  BY GroupsAssumption DEF Warp
<1>2. u[0] = 0 /\ SumOver(in, A \cup B) = u[N]
      /\ \A n \in 0 .. N - 1 : u[n + 1] = u[n] + (IF n \in A \cup B THEN in[n] ELSE 0)
  BY PartialIs
<1>3. /\ a[0] = 0 /\ SumOver(in, A) = a[N] /\ \A n \in 0 .. N : a[n] \in Int
      /\ \A n \in 0 .. N - 1 : a[n + 1] = a[n] + (IF n \in A THEN in[n] ELSE 0)
  BY PartialIs
<1>4. /\ b[0] = 0 /\ SumOver(in, B) = b[N] /\ \A n \in 0 .. N : b[n] \in Int
      /\ \A n \in 0 .. N - 1 : b[n + 1] = b[n] + (IF n \in B THEN in[n] ELSE 0)
  BY PartialIs
<1> HIDE DEF N, u, a, b
<1>5. 0 \in S
  BY <1>1, <1>2, <1>3, <1>4
<1>6. ASSUME NEW k \in 1 .. N, k - 1 \in S
      PROVE  k \in S
  <2> DEFINE n == k - 1
  <2>1. n \in 0 .. N - 1 /\ n + 1 = k /\ in[n] \in Int /\ n \in 0 .. N
    BY <1>1
  <2>2. u[n] = a[n] + b[n]
    BY <1>6
  <2> HIDE DEF n
  <2>3. /\ u[k] = u[n] + (IF n \in A \cup B THEN in[n] ELSE 0)
        /\ a[k] = a[n] + (IF n \in A THEN in[n] ELSE 0)
        /\ b[k] = b[n] + (IF n \in B THEN in[n] ELSE 0)
        /\ a[n] \in Int /\ b[n] \in Int
    BY <1>2, <1>3, <1>4, <2>1
  <2>4. u[k] = a[k] + b[k]
    BY <2>1, <2>2, <2>3
  <2> QED
    BY <2>4
<1>7. N \in S
  <2> HIDE DEF S
  <2>1. \A n \in 0 .. N : n \in S
    BY <1>1, <1>5, <1>6, Induction
  <2> QED
    BY <1>1, <2>1
<1>8. N \in 0 .. N
  BY <1>1
<1> QED
  BY <1>2, <1>3, <1>4, <1>7, <1>8

\* v is what the operands of the lanes in S reduce to.
Reduced(op, in, S, v) ==
  /\ v \in Registered
  /\ op = "plus" => v = Wrap(SumOver(in, S))
  /\ op = "greater" => (\E x \in S : v = in[x]) /\ \A x \in S : in[x] <= v

LEMMA ReducedOne ==
  ASSUME NEW in \in RegisterFiles, NEW l \in Warp, NEW op
  PROVE  Reduced(op, in, {l}, in[l])
<1>1. in \in [Warp -> Int] /\ in[l] \in Registered /\ in[l] \in Int
  BY HalfIs DEF RegisterFiles, Registered
<1> QED
  BY <1>1, SumOne, WrapKeeps DEF Reduced

LEMMA ReducedJoin ==
  ASSUME NEW op \in {"plus", "greater"}, NEW in \in RegisterFiles, NEW A \in SUBSET Warp, NEW B \in SUBSET Warp, A \cap B = {},
         NEW a, NEW b, Reduced(op, in, A, a), Reduced(op, in, B, b)
  PROVE  Reduced(op, in, A \cup B, Operation(op, a, b))
<1>1. in \in [Warp -> Int] /\ a \in Int /\ b \in Int
  BY HalfIs DEF RegisterFiles, Registered, Reduced
<1>2. CASE op = "plus"
  <2>1. Operation(op, a, b) = Wrap(a + b) /\ a = Wrap(SumOver(in, A)) /\ b = Wrap(SumOver(in, B))
    BY <1>2 DEF Operation, sum_int32, Reduced
  <2>2. SumOver(in, A \cup B) = SumOver(in, A) + SumOver(in, B) /\ SumOver(in, A) \in Int /\ SumOver(in, B) \in Int
    BY <1>1, SumJoin
  <2>3. Operation(op, a, b) = Wrap(SumOver(in, A \cup B))
    BY <2>1, <2>2, WrapSum
  <2>4. Wrap(a + b) \in Registered
    BY <1>1, WrapIs
  <2> QED
    BY <1>2, <2>1, <2>3, <2>4 DEF Reduced
<1>3. CASE op = "greater"
  <2>1. Operation(op, a, b) = IF a > b THEN a ELSE b
    BY <1>3 DEF Operation, greater
  <2>2. \A x \in A \cup B : in[x] \in Int
    BY <1>1
  <2> QED
    BY <1>1, <1>3, <2>1, <2>2 DEF Reduced
<1> QED
  BY <1>2, <1>3

-----------------------------------------------------------------------------
(* Lanes of a set and their ranks.                                          *)

LEMMA LaneSets ==
  ASSUME NEW S \in SUBSET Warp
  PROVE  /\ IsFiniteSet(S) /\ Cardinality(S) \in Nat /\ Cardinality(S) <= Width
         /\ S = {} <=> Cardinality(S) = 0
         /\ \A x \in S : x \in Nat
<1>1. Width \in Nat
  BY GroupsAssumption
<1>2. IsFiniteSet(Warp) /\ Cardinality(Warp) = Width
  <2>1. 0 \in Int /\ Width - 1 \in Int
    BY <1>1
  <2>2. IsFiniteSet(0 .. Width - 1) /\ Cardinality(0 .. Width - 1) = IF 0 > Width - 1 THEN 0 ELSE (Width - 1) - 0 + 1
    BY <2>1, FS_Interval
  <2> QED
    BY <1>1, <2>2 DEF Warp
<1>3. IsFiniteSet(S) /\ Cardinality(S) <= Cardinality(Warp)
  BY <1>2, FS_Subset
<1>4. Cardinality(S) \in Nat
  BY <1>3, FS_CardinalityType
<1>5. S = {} <=> Cardinality(S) = 0
  BY <1>3, FS_EmptySet
<1> QED
  BY <1>1, <1>2, <1>3, <1>4, <1>5 DEF Warp

LEMMA BelowIs ==
  ASSUME NEW S \in SUBSET Warp, NEW b \in S
  PROVE  /\ Below(S, b) \in SUBSET Warp
         /\ count(Below(S, b)) \in 0 .. count(S) - 1
<1>1. Below(S, b) \subseteq S /\ b \notin Below(S, b)
  BY LaneSets DEF Below
<1>2. IsFiniteSet(S) /\ Cardinality(S) \in Nat /\ Cardinality(Below(S, b)) \in Nat
  BY <1>1, LaneSets
<1>3. Cardinality(Below(S, b)) <= Cardinality(S) /\ (Cardinality(S) = Cardinality(Below(S, b)) => S = Below(S, b))
  BY <1>1, <1>2, FS_Subset
<1> QED
  BY <1>1, <1>2, <1>3 DEF count

LEMMA BelowGrows ==
  ASSUME NEW S \in SUBSET Warp, NEW a \in S, NEW b \in S, a < b
  PROVE  count(Below(S, a)) < count(Below(S, b))
<1>1. Below(S, a) \subseteq Below(S, b) /\ a \in Below(S, b) /\ a \notin Below(S, a)
  BY LaneSets DEF Below
<1>2. IsFiniteSet(Below(S, b)) /\ Cardinality(Below(S, a)) \in Nat /\ Cardinality(Below(S, b)) \in Nat
  BY BelowIs, LaneSets
<1>3. Cardinality(Below(S, a)) <= Cardinality(Below(S, b))
      /\ (Cardinality(Below(S, b)) = Cardinality(Below(S, a)) => Below(S, b) = Below(S, a))
  BY <1>1, <1>2, FS_Subset
<1> QED
  BY <1>1, <1>2, <1>3 DEF count

LEMMA RankOrder ==
  ASSUME NEW S \in SUBSET Warp, NEW a \in S, NEW b \in S
  PROVE  /\ a < b <=> count(Below(S, a)) < count(Below(S, b))
         /\ a = b <=> count(Below(S, a)) = count(Below(S, b))
<1>1. a \in Nat /\ b \in Nat /\ count(Below(S, a)) \in Int /\ count(Below(S, b)) \in Int
  BY LaneSets, BelowIs
<1>2. a < b => count(Below(S, a)) < count(Below(S, b))
  BY BelowGrows
<1>3. b < a => count(Below(S, b)) < count(Below(S, a))
  BY BelowGrows
<1> QED
  BY <1>1, <1>2, <1>3

LEMMA RankTaken ==
  ASSUME NEW S \in SUBSET Warp, NEW r \in 0 .. count(S) - 1
  PROVE  \E b \in S : count(Below(S, b)) = r
<1> DEFINE n == count(S)
           T == 0 .. n - 1
           f == [b \in S |-> count(Below(S, b))]
<1>1. n \in Nat /\ n = Cardinality(S)
  BY LaneSets DEF count
<1>2. IsFiniteSet(T) /\ Cardinality(T) = n
  <2>1. 0 \in Int /\ n - 1 \in Int
    BY <1>1
  <2> HIDE DEF n
  <2>2. IsFiniteSet(0 .. n - 1) /\ Cardinality(0 .. n - 1) = IF 0 > n - 1 THEN 0 ELSE (n - 1) - 0 + 1
    BY <2>1, FS_Interval
  <2> QED
    BY <1>1, <2>2
<1>3. f \in [S -> T]
  BY BelowIs
<1>4. \A a, b \in S : f[a] = f[b] => a = b
  BY RankOrder
<1> HIDE DEF f, T, n
<1>5. f \in Injection(S, T)
  BY <1>3, <1>4 DEF Injection, IsInjective
<1>6. f \in Surjection(S, T)
  BY <1>1, <1>2, <1>5, FS_Injection
<1>7. \E b \in S : f[b] = r
  BY <1>6 DEF Surjection, T, n
<1> QED
  BY <1>7 DEF f

\* The member of a rank is the one lane of that rank.
LEMMA MemberIs ==
  ASSUME NEW S \in SUBSET Warp, NEW r \in 0 .. count(S) - 1
  PROVE  /\ member(S, r) \in S /\ count(Below(S, member(S, r))) = r
         /\ \A b \in S : count(Below(S, b)) = r => b = member(S, r)
<1>1. member(S, r) \in S /\ count(Below(S, member(S, r))) = r
  BY RankTaken DEF member
<1>2. ASSUME NEW b \in S, count(Below(S, b)) = r
      PROVE  b = member(S, r)
  BY <1>1, <1>2, RankOrder
<1> QED
  BY <1>1, <1>2

LEMMA MemberOfRank ==
  ASSUME NEW S \in SUBSET Warp, NEW b \in S
  PROVE  member(S, count(Below(S, b))) = b
BY BelowIs, MemberIs

\* The member of rank 0 is the least.
LEMMA FirstIs ==
  ASSUME NEW S \in SUBSET Warp, S # {}
  PROVE  /\ member(S, 0) = Min(S) /\ Min(S) \in S
         /\ \A x \in S : Min(S) <= x
         /\ \A m \in S : (\A x \in S : m <= x) => m = Min(S)
<1> DEFINE f == member(S, 0)
<1>1. 0 \in 0 .. count(S) - 1
  BY LaneSets DEF count
<1>2. f \in S /\ count(Below(S, f)) = 0
  BY <1>1, MemberIs
<1>3. \A x \in S : x \in Nat
  BY LaneSets
<1>4. ASSUME NEW x \in S
      PROVE  f <= x
  <2>1. ~(x < f)
    <3>1. count(Below(S, x)) \in Nat
      BY BelowIs, LaneSets
    <3> HIDE DEF f
    <3> QED
      BY <1>2, <3>1, RankOrder
  <2> HIDE DEF f
  <2> QED
    BY <1>2, <1>3, <2>1
<1> HIDE DEF f
<1>5. \A m \in S : (\A x \in S : m <= x) => m = f
  BY <1>2, <1>3, <1>4
<1>6. Min(S) = f
  BY <1>2, <1>4, <1>5 DEF Min
<1> QED
  BY <1>2, <1>4, <1>5, <1>6 DEF f

-----------------------------------------------------------------------------
(* The tree of reduce_int: pass k leaves in every lane whose rank is a      *)
(* multiple of 2^k what the next 2^k ranks of its group reduce to.          *)

\* The lanes of g with the s ranks from r.
Block(g, r, s) == {x \in g : r <= count(Below(g, x)) /\ count(Below(g, x)) < r + s}

LEMMA SegmentOne ==
  ASSUME NEW g \in SUBSET Warp, NEW x \in g
  PROVE  Block(g, count(Below(g, x)), 1) = {x}
<1>1. \A y \in g : count(Below(g, y)) \in Nat
  BY BelowIs, LaneSets
<1>2. \A y \in g : y = x <=> count(Below(g, y)) = count(Below(g, x))
  BY RankOrder
<1> QED
  BY <1>1, <1>2 DEF Block

LEMMA SegmentJoin ==
  ASSUME NEW g \in SUBSET Warp, NEW r \in Nat, NEW s \in Nat
  PROVE  /\ Block(g, r, 2 * s) = Block(g, r, s) \cup Block(g, r + s, s)
         /\ Block(g, r, s) \cap Block(g, r + s, s) = {}
         /\ Block(g, r, s) \in SUBSET Warp /\ Block(g, r + s, s) \in SUBSET Warp
         /\ r + s >= count(g) => Block(g, r + s, s) = {}
         /\ s >= count(g) => Block(g, 0, s) = g
<1>1. \A y \in g : count(Below(g, y)) \in Nat /\ count(Below(g, y)) < count(g)
  BY BelowIs, LaneSets DEF count
<1>2. count(g) \in Nat
  BY LaneSets DEF count
<1> QED
  BY <1>1, <1>2 DEF Block

LEMMA Multiple ==
  ASSUME NEW q \in Nat, NEW k \in Nat \ {0}
  PROVE  (q * k) % k = 0
<1> DEFINE a == q * k
           p == a \div k
           r == a % k
<1>1. a \in Nat
  OBVIOUS
<1>2. p \in Int /\ r \in 0 .. k - 1 /\ a = k * p + r
  <2> HIDE DEF a
  <2> QED
    BY <1>1, Division
<1>3. r = (q - p) * k
  <2>1. k * p = p * k /\ p * k \in Int
    BY <1>2
  <2> HIDE DEF p, r
  <2>2. (q - p) * k = q * k - p * k
    BY <1>2
  <2> QED
    BY <1>2, <2>1, <2>2
<1> HIDE DEF p, r
<1>4. CASE q - p >= 1
  <2>1. (q - p) * k >= k
    BY <1>2, <1>4
  <2> QED
    BY <1>2, <1>3, <2>1
<1>5. CASE q - p <= -1
  <2>1. (q - p) * k <= -k
    BY <1>2, <1>5
  <2> QED
    BY <1>2, <1>3, <2>1
<1>6. CASE q - p = 0
  BY <1>3, <1>6 DEF r, a
<1> QED
  BY <1>2, <1>4, <1>5, <1>6

-----------------------------------------------------------------------------
\* Every active lane is in a group of active lanes that all name the same group.
GroupsMeet(d) ==
  /\ active \in SUBSET Warp
  /\ \A l \in active :
       LET g == Parent(d, l).mask
       IN l \in g /\ g \subseteq active /\ \A m \in g : Parent(d, m).mask = g

RankOf(d, l) == count(Below(Parent(d, l).mask, l))

\* The registers of the lanes at the instruction, or of all.
Files == [Warp -> Registered] \cup [active -> Registered]

LEMMA OperationIs ==
  ASSUME NEW op \in {"plus", "greater"}, NEW a \in Registered, NEW b \in Registered
  PROVE  Operation(op, a, b) \in Registered
<1>1. a \in Int /\ b \in Int
  BY HalfIs DEF Registered
<1>2. Wrap(a + b) \in Registered
  BY <1>1, WrapIs
<1> QED
  BY <1>1, <1>2 DEF Operation, sum_int32, greater

\* What a pass does to a lane.
LEMMA LevelIs ==
  ASSUME NEW d, GroupsMeet(d), NEW op \in {"plus", "greater"}, NEW v \in Files, NEW s \in Nat \ {0}, NEW l \in active
  PROVE  LET g == Parent(d, l).mask
             r == RankOf(d, l)
             w == TreeLevel(d, op, v, s)
         IN  /\ w \in [active -> Registered]
             /\ r \in 0 .. count(g) - 1
             /\ r + s >= count(g) => w[l] = v[l]
             /\ r + s < count(g) /\ r % (s * 2) = 0 =>
                  \E m \in g : RankOf(d, m) = r + s /\ w[l] = Operation(op, v[l], v[m])
<1> DEFINE G(x) == Parent(d, x).mask
           w == TreeLevel(d, op, v, s)
           comb(x) == RankOf(d, x) % (s * 2) = 0 /\ RankOf(d, x) + s < count(G(x))
           peer(x) == v[member(G(x), IF comb(x) THEN RankOf(d, x) + s ELSE RankOf(d, x))]
<1>1. \A x \in active : x \in G(x) /\ G(x) \subseteq active /\ G(x) \in SUBSET Warp /\ \A m \in G(x) : G(m) = G(x)
  BY DEF GroupsMeet
<1>2. \A x \in active : v[x] \in Registered
  BY DEF Files, GroupsMeet
<1>3. w = [x \in active |-> IF s < count(G(x)) /\ comb(x) THEN Operation(op, v[x], peer(x)) ELSE v[x]]
  BY DEF TreeLevel, RankOf, thread_rank, shfl
<1>4. ASSUME NEW x \in active
      PROVE  /\ RankOf(d, x) \in 0 .. count(G(x)) - 1 /\ count(G(x)) \in Nat
             /\ RankOf(d, x) + s < count(G(x)) =>
                  LET m == member(G(x), RankOf(d, x) + s)
                  IN m \in G(x) /\ RankOf(d, m) = RankOf(d, x) + s
  <2>1. RankOf(d, x) \in 0 .. count(G(x)) - 1 /\ count(G(x)) \in Nat
    BY <1>1, BelowIs, LaneSets DEF RankOf, count
  <2>2. ASSUME RankOf(d, x) + s < count(G(x))
        PROVE  LET m == member(G(x), RankOf(d, x) + s)
               IN m \in G(x) /\ RankOf(d, m) = RankOf(d, x) + s
    <3>1. RankOf(d, x) + s \in 0 .. count(G(x)) - 1
      BY <2>1, <2>2
    <3>2. G(x) \in SUBSET Warp
      BY <1>1
    <3> DEFINE m == member(G(x), RankOf(d, x) + s)
    <3>3. m \in G(x) /\ count(Below(G(x), m)) = RankOf(d, x) + s
      BY <3>1, <3>2, MemberIs
    <3>4. G(m) = G(x)
      BY <1>1, <3>3
    <3> QED
      BY <3>3, <3>4 DEF RankOf
  <2> QED
    BY <2>1, <2>2
<1> HIDE DEF w
<1>5. ASSUME NEW x \in active
      PROVE  w[x] \in Registered
  <2>1. CASE s < count(G(x)) /\ comb(x)
    <3>1. peer(x) \in Registered
      BY <1>1, <1>2, <1>4, <2>1
    <3>2. w[x] = Operation(op, v[x], peer(x))
      BY <1>3, <2>1
    <3> QED
      BY <1>2, <3>1, <3>2, OperationIs
  <2>2. CASE ~(s < count(G(x)) /\ comb(x))
    <3>1. w[x] = v[x]
      BY <1>3, <2>2
    <3> QED
      BY <1>2, <3>1
  <2> QED
    BY <2>1, <2>2
<1>6. w \in [active -> Registered]
  BY <1>3, <1>5
<1>7. ASSUME RankOf(d, l) + s >= count(G(l))
      PROVE  w[l] = v[l]
  <2>1. ~ comb(l)
    BY <1>4, <1>7
  <2> QED
    BY <1>3, <2>1
<1>8. ASSUME RankOf(d, l) + s < count(G(l)), RankOf(d, l) % (s * 2) = 0
      PROVE  \E m \in G(l) : RankOf(d, m) = RankOf(d, l) + s /\ w[l] = Operation(op, v[l], v[m])
  <2>1. comb(l)
    BY <1>8
  <2>2. s < count(G(l))
    BY <1>4, <1>8
  <2>3. w[l] = Operation(op, v[l], v[member(G(l), RankOf(d, l) + s)])
    BY <1>3, <2>1, <2>2
  <2> QED
    BY <1>4, <1>8, <2>3
<1> QED
  BY <1>4, <1>6, <1>7, <1>8 DEF w

\* The passes are those of the loop.
LEMMA PassesAre ==
  ASSUME NEW d, GroupsMeet(d), NEW op \in {"plus", "greater"}, NEW reg \in RegisterFiles
  PROVE  /\ Passes(d, op, reg)[0] = reg
         /\ \A k \in 1 .. Width : Passes(d, op, reg)[k] = TreeLevel(d, op, Passes(d, op, reg)[k - 1], TwoTo[k - 1])
         /\ \A k \in 0 .. Width : Passes(d, op, reg)[k] \in Files
<1> DEFINE N == Width
           K == Files
           step == [k \in 1 .. N |-> [v \in K |-> TreeLevel(d, op, v, TwoTo[k - 1])]]
           Made(u) == [k \in 0 .. N |-> IF k = 0 THEN reg ELSE TreeLevel(d, op, u[k - 1], TwoTo[k - 1])]
<1>1. Passes(d, op, reg) = CHOOSE u : u = Made(u)
  BY DEF Passes
<1>2. N \in Nat /\ \A k \in 1 .. N : TwoTo[k - 1] \in Nat \ {0}
  <2>1. Width \in Nat /\ IntBits \in Nat
    BY GroupsAssumption
  <2>2. \A k \in 1 .. N : k - 1 \in 0 .. Width + IntBits
    BY <2>1
  <2>3. \A k \in 1 .. N : TwoTo[k - 1] \in Nat /\ TwoTo[k - 1] > k - 1
    BY <2>2, TwoToIs
  <2> QED
    BY <2>1, <2>3
<1> HIDE DEF N
<1>3. reg \in K
  BY DEF Files, RegisterFiles
<1>4. ASSUME NEW v \in K, NEW k \in 1 .. N
      PROVE  TreeLevel(d, op, v, TwoTo[k - 1]) \in K
  <2>1. CASE active = {}
    BY <2>1 DEF TreeLevel, Files
  <2>2. CASE active # {}
    <3>1. PICK l \in active : TRUE
      BY <2>2
    <3>2. TreeLevel(d, op, v, TwoTo[k - 1]) \in [active -> Registered]
      BY <1>2, <3>1, LevelIs
    <3> QED
      BY <3>2 DEF Files
  <2> QED
    BY <2>1, <2>2
<1> HIDE DEF K
<1>5. step \in [1 .. N -> [K -> K]]
  BY <1>4
<1> HIDE DEF step
<1>6. PICK u \in [0 .. N -> K] : u[0] = reg /\ \A k \in 1 .. N : u[k] = step[k][u[k - 1]]
  <2>1. \E u : Steps(u, N, K, reg, step)
    BY <1>2, <1>3, <1>5, Recursion
  <2> QED
    BY <2>1 DEF Steps
<1>7. u = Made(u)
  <2>1. ASSUME NEW n \in 0 .. N
        PROVE  u[n] = Made(u)[n]
    <3>1. CASE n = 0
      BY <1>6, <3>1
    <3>2. CASE n \in 1 .. N
      <4>1. u[n] = step[n][u[n - 1]] /\ u[n - 1] \in K /\ n # 0
        BY <1>2, <1>6, <3>2
      <4>2. u[n] = TreeLevel(d, op, u[n - 1], TwoTo[n - 1])
        BY <4>1, <3>2 DEF step
      <4> QED
        BY <4>1, <4>2
    <3> QED
      BY <1>2, <3>1, <3>2
  <2> QED
    BY <2>1
<1> DEFINE w == Passes(d, op, reg)
<1>8. w = Made(w)
  BY <1>1, <1>7
<1> HIDE DEF w
<1>9. w[0] = reg /\ \A k \in 1 .. N : w[k] = TreeLevel(d, op, w[k - 1], TwoTo[k - 1])
  BY <1>2, <1>8
<1> HIDE DEF Made
<1> DEFINE S == {k \in 0 .. N : w[k] \in K}
<1>10. \A k \in 0 .. N : k \in S
  <2>1. 0 \in S
    BY <1>2, <1>3, <1>9
  <2>2. ASSUME NEW k \in 1 .. N, k - 1 \in S
        PROVE  k \in S
    <3>1. w[k] \in K
      BY <1>4, <1>9, <2>2
    <3> QED
      BY <1>2, <3>1
  <2> HIDE DEF S
  <2> QED
    BY <1>2, <2>1, <2>2, Induction
<1> QED
  BY <1>9, <1>10 DEF w, K, N

\* Pass by pass a lane holds twice as many ranks.
PassHolds(d, op, reg, k) ==
  \A l \in active, q \in Nat :
    RankOf(d, l) = q * TwoTo[k] =>
      Reduced(op, reg, Block(Parent(d, l).mask, RankOf(d, l), TwoTo[k]), Passes(d, op, reg)[k][l])

LEMMA PassHoldsNext ==
  ASSUME NEW d, GroupsMeet(d), NEW op \in {"plus", "greater"}, NEW reg \in RegisterFiles,
         NEW k \in 1 .. Width, PassHolds(d, op, reg, k - 1)
  PROVE  PassHolds(d, op, reg, k)
<1> DEFINE s == TwoTo[k - 1]
           v == Passes(d, op, reg)[k - 1]
           w == Passes(d, op, reg)[k]
<1>1. s \in Nat \ {0} /\ TwoTo[k] = 2 * s /\ TwoTo[k] = s * 2
  <2>1. Width \in Nat /\ IntBits \in Nat
    BY GroupsAssumption
  <2>2. k - 1 \in 0 .. Width + IntBits /\ k \in 1 .. Width + IntBits
    BY <2>1
  <2>3. s \in Nat /\ s > k - 1 /\ TwoTo[k] = 2 * s
    BY <2>2, TwoToIs
  <2> QED
    BY <2>1, <2>3
<1>2. w = TreeLevel(d, op, v, s) /\ v \in Files
  <2>1. k - 1 \in 0 .. Width
    BY GroupsAssumption
  <2> QED
    BY <2>1, PassesAre
<1> SUFFICES ASSUME NEW l \in active, NEW q \in Nat, RankOf(d, l) = q * TwoTo[k]
             PROVE  Reduced(op, reg, Block(Parent(d, l).mask, RankOf(d, l), TwoTo[k]), w[l])
  BY DEF PassHolds
<1> DEFINE g == Parent(d, l).mask
           r == RankOf(d, l)
<1>3. g \in SUBSET Warp /\ \A m \in g : m \in active /\ Parent(d, m).mask = g
  BY DEF GroupsMeet
<1>4. /\ r \in Nat /\ count(g) \in Nat
      /\ r + s >= count(g) => w[l] = v[l]
      /\ r + s < count(g) /\ r % (s * 2) = 0 =>
           \E m \in g : RankOf(d, m) = r + s /\ w[l] = Operation(op, v[l], v[m])
  <2>1. count(g) \in Nat
    BY <1>3, LaneSets DEF count
  <2> HIDE DEF s, v, w
  <2> HIDE DEF r, g
  <2>2. r = RankOf(d, l) /\ g = Parent(d, l).mask
    BY DEF r, g
  <2>3. s \in Nat \ {0} /\ v \in Files
    BY <1>1, <1>2
  <2>4. LET x == TreeLevel(d, op, v, s)
        IN  /\ RankOf(d, l) \in 0 .. count(Parent(d, l).mask) - 1
            /\ RankOf(d, l) + s >= count(Parent(d, l).mask) => x[l] = v[l]
            /\ RankOf(d, l) + s < count(Parent(d, l).mask) /\ RankOf(d, l) % (s * 2) = 0 =>
                 \E m \in Parent(d, l).mask : RankOf(d, m) = RankOf(d, l) + s /\ x[l] = Operation(op, v[l], v[m])
    BY <2>3, LevelIs
  <2> QED
    BY <1>2, <2>1, <2>2, <2>4
<1>5. r = (2 * q) * s /\ 2 * q \in Nat /\ r + s = (2 * q + 1) * s /\ 2 * q + 1 \in Nat
  <2>1. r = q * (2 * s)
    BY <1>1
  <2> HIDE DEF r, s
  <2> QED
    BY <1>1, <2>1
<1>6. r % (s * 2) = 0
  <2> DEFINE z == s * 2
  <2>1. z \in Nat \ {0} /\ r = q * z
    BY <1>1
  <2> HIDE DEF z
  <2>2. (q * z) % z = 0
    BY <2>1, Multiple
  <2> HIDE DEF r, s
  <2> QED
    BY <2>1, <2>2 DEF z
<1>7. \A m \in active, p \in Nat : RankOf(d, m) = p * s =>
         Reduced(op, reg, Block(Parent(d, m).mask, RankOf(d, m), s), v[m])
  BY DEF PassHolds
<1> HIDE DEF s, v, w, r, g
<1>8. Reduced(op, reg, Block(g, r, s), v[l])
  BY <1>5, <1>7 DEF r, g
<1>9. /\ Block(g, r, 2 * s) = Block(g, r, s) \cup Block(g, r + s, s)
      /\ Block(g, r, s) \cap Block(g, r + s, s) = {}
      /\ Block(g, r, s) \in SUBSET Warp /\ Block(g, r + s, s) \in SUBSET Warp
      /\ r + s >= count(g) => Block(g, r + s, s) = {}
  BY <1>1, <1>3, <1>4, SegmentJoin
<1>10. CASE r + s >= count(g)
  <2>1. w[l] = v[l] /\ Block(g, r, 2 * s) = Block(g, r, s)
    BY <1>4, <1>9, <1>10
  <2> QED
    BY <1>1, <1>8, <2>1 DEF g, r
<1>11. CASE r + s < count(g)
  <2>1. PICK m \in g : RankOf(d, m) = r + s /\ w[l] = Operation(op, v[l], v[m])
    BY <1>4, <1>6, <1>11
  <2>2. Reduced(op, reg, Block(g, r + s, s), v[m])
    BY <1>3, <1>5, <1>7, <2>1
  <2>3. Reduced(op, reg, Block(g, r, 2 * s), w[l])
    BY <1>8, <1>9, <2>1, <2>2, ReducedJoin
  <2> QED
    BY <1>1, <2>3 DEF g, r
<1> QED
  BY <1>1, <1>4, <1>10, <1>11

LEMMA GroupReduces ==
  ASSUME NEW d, GroupsMeet(d), NEW op \in {"plus", "greater"}, NEW reg \in RegisterFiles, NEW l \in active
  PROVE  Reduced(op, reg, Parent(d, l).mask, shfl(Parent(d, l), Passes(d, op, reg)[Width], 0))
<1> DEFINE S == {k \in 0 .. Width : PassHolds(d, op, reg, k)}
           g == Parent(d, l).mask
<1>1. Width \in Nat
  BY GroupsAssumption
<1>2. active \in SUBSET Warp /\ \A x \in active : Parent(d, x).mask \in SUBSET Warp /\ x \in Parent(d, x).mask
  BY DEF GroupsMeet
<1>3. PassHolds(d, op, reg, 0)
  <2> SUFFICES ASSUME NEW x \in active
               PROVE  Reduced(op, reg, Block(Parent(d, x).mask, RankOf(d, x), 1), Passes(d, op, reg)[0][x])
    BY TwoToIs DEF PassHolds
  <2>1. Block(Parent(d, x).mask, RankOf(d, x), 1) = {x}
    BY <1>2, SegmentOne DEF RankOf
  <2>2. Passes(d, op, reg)[0] = reg
    BY PassesAre
  <2>3. Reduced(op, reg, {x}, reg[x])
    BY <1>2, ReducedOne
  <2> QED
    BY <2>1, <2>2, <2>3
<1>4. PassHolds(d, op, reg, Width)
  <2>1. 0 \in S
    BY <1>1, <1>3
  <2>2. ASSUME NEW k \in 1 .. Width, k - 1 \in S
        PROVE  k \in S
    BY <1>1, <2>2, PassHoldsNext
  <2> HIDE DEF S
  <2>3. \A k \in 0 .. Width : k \in S
    BY <1>1, <2>1, <2>2, Induction
  <2>4. Width \in S
    BY <1>1, <2>3
  <2> QED
    BY <2>4 DEF S
<1>5. g \in SUBSET Warp /\ l \in g /\ \A m \in g : m \in active /\ Parent(d, m).mask = g
  BY DEF GroupsMeet
<1> DEFINE f == member(g, 0)
<1>6. f \in g /\ count(Below(g, f)) = 0 /\ count(g) \in Nat /\ count(g) <= Width
  <2>1. count(g) \in Nat /\ count(g) <= Width /\ count(g) # 0
    BY <1>5, LaneSets DEF count
  <2>2. 0 \in 0 .. count(g) - 1
    BY <2>1
  <2> QED
    BY <1>5, <2>1, <2>2, MemberIs
<1> HIDE DEF f
<1>7. f \in active /\ Parent(d, f).mask = g /\ RankOf(d, f) = 0
  BY <1>5, <1>6 DEF RankOf
<1>8. TwoTo[Width] \in Nat /\ TwoTo[Width] > Width
  <2>1. Width \in 0 .. Width + IntBits
    BY GroupsAssumption
  <2> QED
    BY <2>1, TwoToIs
<1>9. 0 = 0 * TwoTo[Width]
  BY <1>8
<1>10. Block(g, 0, TwoTo[Width]) = g
  BY <1>1, <1>5, <1>6, <1>8, SegmentJoin
<1>11. Reduced(op, reg, Block(Parent(d, f).mask, 0, TwoTo[Width]), Passes(d, op, reg)[Width][f])
  BY <1>4, <1>7, <1>9 DEF PassHolds
<1> QED
  BY <1>7, <1>10, <1>11 DEF f, shfl

-----------------------------------------------------------------------------
(* The tile of the whole warp: offsets from Width / 2 down to 1, after which *)
(* lane 0 holds all.                                                        *)

\* A quotient is determined by the interval its number lies in.
LEMMA Quotient ==
  ASSUME NEW q \in Int, NEW p \in Int, NEW k \in Nat \ {0}, NEW r \in 0 .. k - 1, NEW s \in 0 .. k - 1,
         k * q + r = k * p + s
  PROVE  q = p
<1>1. k * (q - p) = s - r
  OBVIOUS
<1>2. CASE q - p >= 1
  <2>1. k * (q - p) >= k
    BY <1>2
  <2> QED
    BY <1>1, <2>1
<1>3. CASE q - p <= -1
  <2>1. k * (q - p) <= -k
    BY <1>3
  <2> QED
    BY <1>1, <2>1
<1> QED
  BY <1>2, <1>3

LEMMA QuotientIs ==
  ASSUME NEW q \in Int, NEW k \in Nat \ {0}, NEW r \in 0 .. k - 1, NEW a \in Int, a = k * q + r
  PROVE  a \div k = q
<1> DEFINE p == a \div k
           s == a % k
<1>1. p \in Int /\ s \in 0 .. k - 1 /\ a = k * p + s
  BY Division
<1> HIDE DEF p, s
<1>2. p = q
  BY <1>1, Quotient
<1> QED
  BY <1>2 DEF p

\* The lanes a multiple of m from t.
Class(m, t) == {x \in Warp : \E j \in Int : x = t + m * j}

LEMMA ClassTop ==
  ASSUME NEW t \in Warp
  PROVE  Class(Width, t) = {t}
<1> DEFINE M == Width
<1>1. M \in Nat \ {0} /\ Warp = 0 .. M - 1
  BY WidthIs DEF Warp
<1> HIDE DEF M
<1>2. ASSUME NEW x \in Warp, NEW j \in Int, x = t + M * j
      PROVE  x = t
  <2>1. x \in 0 .. M - 1 /\ t \in 0 .. M - 1 /\ M * 0 + x = M * j + t
    BY <1>1, <1>2
  <2>2. j = 0
    BY <1>1, <2>1, Quotient
  <2> QED
    BY <1>1, <1>2, <2>2
<1>3. t = t + M * 0 /\ 0 \in Int
  BY <1>1
<1> QED
  BY <1>2, <1>3 DEF Class, M

LEMMA ClassOne == Class(1, 0) = Warp
<1>1. \A x \in Warp : x \in Int /\ x = 0 + 1 * x
  BY WidthIs DEF Warp
<1> QED
  BY <1>1 DEF Class

\* A class of 2 h and the next one, h further, make up the class of h.
LEMMA ClassSplit ==
  ASSUME NEW h \in Nat \ {0}, NEW t \in Int
  PROVE  /\ Class(2 * h, t) \cup Class(2 * h, t + h) = Class(h, t)
         /\ Class(2 * h, t) \cap Class(2 * h, t + h) = {}
<1>1. ASSUME NEW j \in Int
      PROVE  /\ t + (2 * h) * j = t + h * (2 * j)
             /\ (t + h) + (2 * h) * j = t + h * (2 * j + 1)
             /\ 2 * j \in Int /\ 2 * j + 1 \in Int
  OBVIOUS
<1>2. ASSUME NEW j \in Int
      PROVE  \/ \E k \in Int : j = 2 * k
             \/ \E k \in Int : j = 2 * k + 1
  <2>1. j \div 2 \in Int /\ (j = 2 * (j \div 2) \/ j = 2 * (j \div 2) + 1)
    OBVIOUS
  <2> QED
    BY <2>1
<1>3. ASSUME NEW x \in Warp, NEW j \in Int, x = t + h * j
      PROVE  x \in Class(2 * h, t) \cup Class(2 * h, t + h)
  <2>1. CASE \E k \in Int : j = 2 * k
    <3>1. PICK k \in Int : j = 2 * k
      BY <2>1
    <3>2. x = t + (2 * h) * k
      BY <1>1, <1>3, <3>1
    <3> QED
      BY <1>3, <3>2 DEF Class
  <2>2. CASE \E k \in Int : j = 2 * k + 1
    <3>1. PICK k \in Int : j = 2 * k + 1
      BY <2>2
    <3>2. x = (t + h) + (2 * h) * k
      BY <1>1, <1>3, <3>1
    <3> QED
      BY <1>3, <3>2 DEF Class
  <2> QED
    BY <1>2, <2>1, <2>2
<1>4. Class(2 * h, t) \subseteq Class(h, t)
  BY <1>1 DEF Class
<1>5. Class(2 * h, t + h) \subseteq Class(h, t)
  BY <1>1 DEF Class
<1>6. ASSUME NEW x \in Class(2 * h, t), x \in Class(2 * h, t + h)
      PROVE  FALSE
  <2>1. PICK j \in Int : x = t + h * (2 * j)
    BY <1>1 DEF Class
  <2>2. PICK k \in Int : x = t + h * (2 * k + 1)
    BY <1>1, <1>6 DEF Class
  <2> DEFINE p == 2 * j
             q == 2 * k + 1
  <2>3. p \in Int /\ q \in Int /\ p # q
    OBVIOUS
  <2>4. x = t + h * p /\ x = t + h * q
    BY <2>1, <2>2
  <2> HIDE DEF p, q
  <2>5. h * p + 0 = h * q + 0
    BY <2>3, <2>4
  <2>6. p = q
    BY <2>3, <2>5, Quotient
  <2> QED
    BY <2>3, <2>6
<1>7. Class(h, t) \subseteq Class(2 * h, t) \cup Class(2 * h, t + h)
  BY <1>3 DEF Class
<1> QED
  BY <1>4, <1>5, <1>6, <1>7

-----------------------------------------------------------------------------
LEMMA OffsetsAre ==
  ASSUME NEW K \in 1 .. Width, Width = TwoTo[K]
  PROVE  \A k \in 1 .. Width : TileOffset[k - 1] = IF k <= K THEN TwoTo[K - k] ELSE 0
<1> DEFINE N == Width
           a == N \div 2
           step == [k \in 1 .. N |-> [v \in Int |-> v \div 2]]
           Made(u) == [k \in 0 .. N |-> IF k = 0 THEN a ELSE u[k - 1] \div 2]
<1>1. TileOffset = CHOOSE u : u = Made(u)
  BY DEF TileOffset
<1>2. N \in Nat /\ a \in Int
  BY WidthIs
<1>3. /\ a = TwoTo[K - 1]
      /\ \A j \in 1 .. K : TwoTo[j] \div 2 = TwoTo[j - 1]
      /\ TwoTo[0] \div 2 = 0 /\ 0 \div 2 = 0
  <2>1. ASSUME NEW j \in 1 .. K
        PROVE  TwoTo[j] \div 2 = TwoTo[j - 1]
    <3>1. j \in 1 .. Width + IntBits /\ j - 1 \in 0 .. Width + IntBits
      BY GroupsAssumption
    <3>2. TwoTo[j] = 2 * TwoTo[j - 1] /\ TwoTo[j - 1] \in Nat
      BY <3>1, TwoToIs
    <3> QED
      BY <3>2
  <2>2. TwoTo[0] = 1
    BY TwoToIs
  <2> QED
    BY <2>1, <2>2
<1> HIDE DEF N, a
<1>4. step \in [1 .. N -> [Int -> Int]]
  OBVIOUS
<1> HIDE DEF step
<1>5. PICK u \in [0 .. N -> Int] : u[0] = a /\ \A k \in 1 .. N : u[k] = step[k][u[k - 1]]
  <2>1. \E u : Steps(u, N, Int, a, step)
    BY <1>2, <1>4, Recursion
  <2> QED
    BY <2>1 DEF Steps
<1>6. u = Made(u)
  <2>1. ASSUME NEW n \in 0 .. N
        PROVE  u[n] = Made(u)[n]
    <3>1. CASE n = 0
      BY <1>5, <3>1
    <3>2. CASE n \in 1 .. N
      <4>1. u[n] = step[n][u[n - 1]] /\ u[n - 1] \in Int /\ n # 0
        BY <1>2, <1>5, <3>2
      <4>2. u[n] = u[n - 1] \div 2
        BY <4>1, <3>2 DEF step
      <4> QED
        BY <4>1, <4>2
    <3> QED
      BY <1>2, <3>1, <3>2
  <2> QED
    BY <2>1
<1>7. TileOffset = Made(TileOffset)
  BY <1>1, <1>6
<1>8. TileOffset[0] = a /\ \A k \in 1 .. N : TileOffset[k] = TileOffset[k - 1] \div 2
  BY <1>2, <1>7
<1> HIDE DEF Made
<1> DEFINE Good(n) == TileOffset[n] = IF n < K THEN TwoTo[K - 1 - n] ELSE 0
           S == {n \in 0 .. N : Good(n)}
<1>9. \A n \in 0 .. N : n \in S
  <2>1. 0 \in S
    <3>1. Good(0)
      BY <1>3, <1>8
    <3> QED
      BY <1>2, <3>1
  <2>2. ASSUME NEW n \in 1 .. N, n - 1 \in S
        PROVE  n \in S
    <3>1. TileOffset[n] = TileOffset[n - 1] \div 2 /\ n \in 0 .. N
      BY <1>2, <1>8
    <3>2. CASE n < K
      <4>1. TileOffset[n - 1] = TwoTo[K - 1 - (n - 1)]
        BY <2>2, <3>2
      <4>2. K - 1 - (n - 1) = K - n /\ K - n \in 1 .. K /\ K - n - 1 = K - 1 - n
        BY <3>2
      <4> QED
        BY <1>3, <3>1, <3>2, <4>1, <4>2
    <3>3. CASE n = K
      <4>1. TileOffset[n - 1] = TwoTo[K - 1 - (n - 1)] /\ K - 1 - (n - 1) = 0
        BY <2>2, <3>3
      <4> QED
        BY <1>3, <3>1, <3>3, <4>1
    <3>4. CASE n > K
      <4>1. TileOffset[n - 1] = 0
        BY <2>2, <3>4
      <4> QED
        BY <1>3, <3>1, <3>4, <4>1
    <3> QED
      BY <3>2, <3>3, <3>4
  <2> HIDE DEF S
  <2> QED
    BY <1>2, <2>1, <2>2, Induction
<1> SUFFICES ASSUME NEW k \in 1 .. Width
             PROVE  TileOffset[k - 1] = IF k <= K THEN TwoTo[K - k] ELSE 0
  OBVIOUS
<1>10. k - 1 \in 0 .. N
  BY <1>2 DEF N
<1>11. Good(k - 1)
  BY <1>9, <1>10
<1>12. k - 1 < K <=> k <= K
  OBVIOUS
<1>13. K - 1 - (k - 1) = K - k
  OBVIOUS
<1> QED
  BY <1>11, <1>12, <1>13

LEMMA TileLevelIs ==
  ASSUME active = Warp, NEW v \in RegisterFiles, NEW o \in Nat, o < Width
  PROVE  /\ TileLevel(v, o) \in RegisterFiles
         /\ \A l \in Warp : l + o < Width => TileLevel(v, o)[l] = Operation("plus", v[l], v[l + o])
<1>1. Width \in Nat \ {0} /\ Warp = 0 .. Width - 1
  BY WidthIs DEF Warp
<1>2. \A l \in Warp : v[l] \in Registered /\ v[l] \in Int
  BY HalfIs DEF RegisterFiles, Registered
<1>3. ASSUME NEW l \in Warp
      PROVE  Segment(l, Width) = 0
  <2>1. l \in 0 .. Width - 1 /\ l \in Int /\ l = Width * 0 + l
    BY <1>1
  <2>2. l \div Width = 0
    BY <1>1, <2>1, QuotientIs
  <2> QED
    BY <1>1, <2>2 DEF Segment
<1>4. ASSUME NEW l \in Warp
      PROVE  asc_shfl_down(v, l, o, Width) = IF l + o < Width THEN v[l + o] ELSE v[l]
  <2>1. CASE l + o < Width
    <3>1. l + o \in Warp
      BY <1>1, <2>1
    <3>2. ~(l + o >= Segment(l, Width) + Width) /\ ~(o >= Width)
      BY <1>1, <1>3, <2>1
    <3>3. Read(v, l + o) = v[l + o]
      BY <3>1 DEF Read
    <3> QED
      BY <2>1, <3>2, <3>3 DEF asc_shfl_down
  <2>2. CASE ~(l + o < Width)
    <3>1. l + o >= Segment(l, Width) + Width /\ ~(o >= Width)
      BY <1>1, <1>3, <2>2
    <3> QED
      BY <2>2, <3>1 DEF asc_shfl_down
  <2> QED
    BY <2>1, <2>2
<1>5. TileLevel(v, o) = [l \in Warp |-> sum_int32(v[l], asc_shfl_down(v, l, o, Width))]
  BY DEF TileLevel
<1>6. ASSUME NEW l \in Warp
      PROVE  sum_int32(v[l], asc_shfl_down(v, l, o, Width)) \in Registered
  <2>1. l + o < Width => l + o \in Warp
    BY <1>1
  <2>2. asc_shfl_down(v, l, o, Width) \in Int
    BY <1>2, <1>4, <2>1
  <2>3. v[l] + asc_shfl_down(v, l, o, Width) \in Int
    BY <1>2, <2>2
  <2> QED
    BY <2>3, WrapIs DEF sum_int32
<1>7. TileLevel(v, o) \in RegisterFiles
  BY <1>5, <1>6 DEF RegisterFiles
<1> QED
  BY <1>4, <1>5, <1>7 DEF Operation

LEMMA TilePassesAre ==
  ASSUME active = Warp, NEW reg \in RegisterFiles, \A k \in 1 .. Width : TileOffset[k - 1] \in Nat /\ TileOffset[k - 1] < Width
  PROVE  /\ TilePasses(reg)[0] = reg
         /\ \A k \in 1 .. Width :
              TilePasses(reg)[k] = IF TileOffset[k - 1] = 0 THEN TilePasses(reg)[k - 1]
                                   ELSE TileLevel(TilePasses(reg)[k - 1], TileOffset[k - 1])
         /\ \A k \in 0 .. Width : TilePasses(reg)[k] \in RegisterFiles
<1> DEFINE N == Width
           K == RegisterFiles
           Next1(v, k) == IF TileOffset[k - 1] = 0 THEN v ELSE TileLevel(v, TileOffset[k - 1])
           step == [k \in 1 .. N |-> [v \in K |-> Next1(v, k)]]
           Made(u) == [k \in 0 .. N |-> IF k = 0 THEN reg ELSE Next1(u[k - 1], k)]
<1>1. TilePasses(reg) = CHOOSE u : u = Made(u)
  BY DEF TilePasses
<1>2. N \in Nat
  BY WidthIs
<1>3. ASSUME NEW v \in K, NEW k \in 1 .. N
      PROVE  Next1(v, k) \in K
  BY TileLevelIs
<1> HIDE DEF N, K, Next1
<1>4. step \in [1 .. N -> [K -> K]]
  BY <1>3
<1> HIDE DEF step
<1>5. PICK u \in [0 .. N -> K] : u[0] = reg /\ \A k \in 1 .. N : u[k] = step[k][u[k - 1]]
  <2>1. reg \in K
    BY DEF K
  <2>2. \E u : Steps(u, N, K, reg, step)
    BY <1>2, <1>4, <2>1, Recursion
  <2> QED
    BY <2>2 DEF Steps
<1>6. u = Made(u)
  <2>1. ASSUME NEW n \in 0 .. N
        PROVE  u[n] = Made(u)[n]
    <3>1. CASE n = 0
      BY <1>5, <3>1
    <3>2. CASE n \in 1 .. N
      <4>1. u[n] = step[n][u[n - 1]] /\ u[n - 1] \in K /\ n # 0
        BY <1>2, <1>5, <3>2
      <4>2. u[n] = Next1(u[n - 1], n)
        BY <4>1, <3>2 DEF step
      <4> QED
        BY <4>1, <4>2
    <3> QED
      BY <1>2, <3>1, <3>2
  <2> QED
    BY <2>1
<1> DEFINE w == TilePasses(reg)
<1>7. w = Made(w)
  BY <1>1, <1>6
<1> HIDE DEF w
<1>8. w[0] = reg /\ \A k \in 1 .. N : w[k] = Next1(w[k - 1], k)
  BY <1>2, <1>7
<1> HIDE DEF Made
<1> DEFINE S == {k \in 0 .. N : w[k] \in K}
<1>9. \A k \in 0 .. N : k \in S
  <2>1. 0 \in S
    BY <1>2, <1>8 DEF K
  <2>2. ASSUME NEW k \in 1 .. N, k - 1 \in S
        PROVE  k \in S
    <3>1. w[k] \in K
      BY <1>3, <1>8, <2>2
    <3> QED
      BY <1>2, <3>1
  <2> HIDE DEF S
  <2> QED
    BY <1>2, <2>1, <2>2, Induction
<1> QED
  BY <1>8, <1>9 DEF w, K, N, Next1

\* Pass by pass the lanes below the offset hold their classes.
TileHolds(reg, m, v) == \A l \in Warp : l < m => Reduced("plus", reg, Class(m, l), v[l])

LEMMA TileReduces ==
  ASSUME active = Warp, NEW reg \in RegisterFiles
  PROVE  Reduced("plus", reg, Warp, TilePasses(reg)[Width][0])
<1>1. PICK K \in 1 .. Width : Width = TwoTo[K]
  BY WidthIs
<1> DEFINE u == TilePasses(reg)
           Size(k) == IF k <= K THEN TwoTo[K - k] ELSE 1
           S == {k \in 0 .. Width : TileHolds(reg, Size(k), u[k])}
<1>2. Width \in Nat \ {0} /\ Warp = 0 .. Width - 1
  BY WidthIs DEF Warp
<1>3. ASSUME NEW k \in 1 .. Width
      PROVE  k <= K => Size(k) \in Nat \ {0} /\ Size(k - 1) = 2 * Size(k) /\ Size(k - 1) <= Width
  <2> SUFFICES ASSUME k <= K PROVE Size(k) \in Nat \ {0} /\ Size(k - 1) = 2 * Size(k) /\ Size(k - 1) <= Width
    OBVIOUS
  <2>1. k - 1 <= K /\ K - (k - 1) = (K - k) + 1 /\ K - k \in 0 .. Width + IntBits /\ (K - k) + 1 \in 1 .. Width + IntBits
    BY GroupsAssumption
  <2>2. TwoTo[(K - k) + 1] = 2 * TwoTo[((K - k) + 1) - 1] /\ TwoTo[K - k] \in Nat /\ TwoTo[K - k] > K - k
    BY <2>1, TwoToIs
  <2>3. ((K - k) + 1) - 1 = K - k
    OBVIOUS
  <2>4. TwoTo[(K - k) + 1] <= TwoTo[K]
    <3> DEFINE T == {j \in 0 .. K : \A i \in 0 .. j : TwoTo[i] <= TwoTo[j]}
    <3>1. K \in Nat /\ \A j \in 0 .. K : j \in 0 .. Width + IntBits
      BY <1>2, GroupsAssumption
    <3>2. \A j \in 0 .. K : TwoTo[j] \in Nat
      BY <3>1, TwoToIs
    <3>3. 0 \in T
      BY <3>1, <3>2
    <3>4. ASSUME NEW j \in 1 .. K, j - 1 \in T
          PROVE  j \in T
      <4>1. TwoTo[j] = 2 * TwoTo[j - 1]
        BY <3>1, TwoToIs, GroupsAssumption
      <4>2. \A i \in 0 .. j - 1 : TwoTo[i] <= TwoTo[j - 1]
        BY <3>4
      <4>3. j - 1 \in 0 .. K /\ j \in 0 .. K
        BY <3>1
      <4>4. ASSUME NEW i \in 0 .. j
            PROVE  TwoTo[i] <= TwoTo[j]
        <5>1. CASE i = j
          BY <3>2, <4>3, <5>1
        <5>2. CASE i # j
          <6>1. i \in 0 .. j - 1 /\ i \in 0 .. K
            BY <4>3, <5>2
          <6>2. TwoTo[i] <= TwoTo[j - 1] /\ TwoTo[j - 1] \in Nat /\ TwoTo[i] \in Nat
            BY <3>2, <4>2, <4>3, <6>1
          <6> QED
            BY <4>1, <6>2
        <5> QED
          BY <5>1, <5>2
      <4> QED
        BY <4>3, <4>4
    <3> HIDE DEF T
    <3>5. \A j \in 0 .. K : j \in T
      BY <3>1, <3>3, <3>4, Induction
    <3>6. K \in T
      BY <3>1, <3>5
    <3>7. (K - k) + 1 \in 0 .. K
      OBVIOUS
    <3> QED
      BY <3>6, <3>7 DEF T
  <2> QED
    BY <1>1, <2>1, <2>2, <2>3, <2>4
<1>4. \A k \in 1 .. Width : TileOffset[k - 1] = IF k <= K THEN Size(k) ELSE 0
  BY <1>1, OffsetsAre
<1>5. \A k \in 1 .. Width : TileOffset[k - 1] \in Nat /\ TileOffset[k - 1] < Width
  <2> SUFFICES ASSUME NEW k \in 1 .. Width PROVE TileOffset[k - 1] \in Nat /\ TileOffset[k - 1] < Width
    OBVIOUS
  <2> HIDE DEF Size
  <2>1. CASE k <= K
    <3>1. Size(k) \in Nat \ {0} /\ 2 * Size(k) <= Width
      BY <1>3, <2>1
    <3> QED
      BY <1>2, <1>4, <2>1, <3>1
  <2>2. CASE ~(k <= K)
    <3>1. TileOffset[k - 1] = 0
      BY <1>4, <2>2
    <3>2. 0 \in Nat /\ 0 < Width
      BY <1>2
    <3> QED
      BY <3>1, <3>2
  <2> QED
    BY <2>1, <2>2
<1>6. /\ u[0] = reg
      /\ \A k \in 1 .. Width : u[k] = IF TileOffset[k - 1] = 0 THEN u[k - 1] ELSE TileLevel(u[k - 1], TileOffset[k - 1])
      /\ \A k \in 0 .. Width : u[k] \in RegisterFiles
  BY <1>5, TilePassesAre
<1> HIDE DEF u
<1>7. 0 \in S
  <2>1. Size(0) = Width /\ 0 \in 0 .. Width
    BY <1>1, <1>2
  <2>2. TileHolds(reg, Width, reg)
    BY ClassTop, ReducedOne DEF TileHolds
  <2> QED
    BY <1>6, <2>1, <2>2
<1>8. ASSUME NEW k \in 1 .. Width, k - 1 \in S
      PROVE  k \in S
  <2>1. k \in 0 .. Width /\ k - 1 \in 0 .. Width /\ TileHolds(reg, Size(k - 1), u[k - 1])
    BY <1>8
  <2>2. CASE k <= K
    <3> DEFINE h == Size(k)
               v == u[k - 1]
    <3>1. h \in Nat \ {0} /\ Size(k - 1) = 2 * h /\ 2 * h <= Width
      BY <1>3, <2>2
    <3>2. u[k] = TileLevel(v, h) /\ v \in RegisterFiles
      BY <1>4, <1>6, <2>1, <2>2, <3>1
    <3>3. \A l \in Warp : l < 2 * h => Reduced("plus", reg, Class(2 * h, l), v[l])
      BY <2>1, <3>1 DEF TileHolds
    <3> HIDE DEF h, v
    <3>4. ASSUME NEW l \in Warp, l < h
          PROVE  Reduced("plus", reg, Class(h, l), u[k][l])
      <4>1. l + h \in Warp /\ l + h < 2 * h /\ l < 2 * h /\ l + h < Width /\ h < Width /\ l \in Int
        BY <1>2, <3>1, <3>4
      <4>2. u[k][l] = Operation("plus", v[l], v[l + h])
        BY <3>1, <3>2, <4>1, TileLevelIs
      <4>3. Reduced("plus", reg, Class(2 * h, l), v[l]) /\ Reduced("plus", reg, Class(2 * h, l + h), v[l + h])
        BY <3>3, <4>1
      <4>4. /\ Class(2 * h, l) \cup Class(2 * h, l + h) = Class(h, l)
            /\ Class(2 * h, l) \cap Class(2 * h, l + h) = {}
        BY <3>1, <4>1, ClassSplit
      <4>5. Class(2 * h, l) \in SUBSET Warp /\ Class(2 * h, l + h) \in SUBSET Warp
        BY DEF Class
      <4> QED
        BY <4>2, <4>3, <4>4, <4>5, ReducedJoin
    <3> QED
      BY <2>1, <3>4 DEF TileHolds, h
  <2>3. CASE ~(k <= K)
    <3>1. u[k] = u[k - 1]
      BY <1>4, <1>6, <2>3
    <3>2. Size(k) = 1 /\ Size(k - 1) = 1
      <4>1. CASE k - 1 <= K
        <5>1. K - (k - 1) = 0
          BY <2>3, <4>1
        <5> QED
          BY <2>3, <4>1, <5>1, TwoToIs
      <4>2. CASE ~(k - 1 <= K)
        BY <2>3, <4>2
      <4> QED
        BY <4>1, <4>2
    <3> QED
      BY <2>1, <3>1, <3>2
  <2> QED
    BY <2>2, <2>3
<1>9. Width \in S
  <2> HIDE DEF S
  <2>1. \A k \in 0 .. Width : k \in S
    BY <1>2, <1>7, <1>8, Induction
  <2> QED
    BY <1>2, <2>1
<1>10. Size(Width) = 1
  <2>1. CASE Width = K
    <3>1. K - Width = 0 /\ Width <= K
      BY <1>2, <2>1
    <3> QED
      BY <3>1, TwoToIs
  <2>2. CASE Width # K
    BY <1>2, <2>2
  <2> QED
    BY <2>1, <2>2
<1>11. TileHolds(reg, 1, u[Width])
  BY <1>9, <1>10
<1> QED
  BY <1>2, <1>11, ClassOne DEF TileHolds, u

-----------------------------------------------------------------------------
(* The partitions.                                                          *)

GroupValues == [mask : SUBSET Warp, meta_rank : Nat, meta_size : Nat]

\* group[l] are the lanes, all at the instruction, that share l's group.
Cosets(at, group) ==
  /\ at \in SUBSET Warp
  /\ \A l \in at : l \in group[l] /\ group[l] \subseteq at /\ \A m \in group[l] : group[m] = group[l]

\* The groups out[l] partition the groups group[l] by the keys.
Partitioned(kind, at, group, key, out) ==
  \A l \in at :
    LET g == out[l]
        siblings == {out[m] : m \in group[l]}
        before == IF kind = "label"
                  THEN {h \in siblings : Min(h.mask) < Min(g.mask)}
                  ELSE {h \in siblings : key[l] /\ ~key[Min(h.mask)]}
    IN /\ g.mask = {m \in group[l] : key[m] = key[l]}
       /\ \A m \in g.mask : out[m] = g
       /\ g.meta_size = Cardinality(siblings)
       /\ g.meta_rank = Cardinality(before)

\* What the stack keeps of it.
Formed(at, out) ==
  \A l \in at : out[l] \in GroupValues /\ out[l].mask \subseteq at /\ \A m \in out[l].mask : out[m] = out[l]

LEMMA PairHasTwo ==
  ASSUME NEW x, NEW y, x # y
  PROVE  Cardinality({x, y}) = 2
<1>1. IsFiniteSet({x}) /\ Cardinality({x}) = 1
  BY FS_Singleton
<1>2. y \notin {x} /\ {x, y} = {x} \cup {y}
  OBVIOUS
<1>3. Cardinality({x} \cup {y}) = IF y \in {x} THEN Cardinality({x}) ELSE Cardinality({x}) + 1
  BY <1>1, FS_AddElement
<1>4. Cardinality({x} \cup {y}) = 1 + 1
  BY <1>1, <1>2, <1>3
<1> QED
  BY <1>2, <1>4

LEMMA WholeMakes ==
  ASSUME NEW at \in SUBSET Warp, NEW group, NEW key, NEW out,
         \A l \in at : group[l] = at /\ key[l] = 0 /\ out[l] = [mask |-> at, meta_rank |-> 0, meta_size |-> 1]
  PROVE  Partitioned("label", at, group, key, out) /\ Formed(at, out)
<1> DEFINE g == [mask |-> at, meta_rank |-> 0, meta_size |-> 1]
<1>1. g \in GroupValues
  BY DEF GroupValues
<1>2. Formed(at, out)
  BY <1>1 DEF Formed
<1>3. ASSUME NEW l \in at
      PROVE  /\ out[l].mask = {m \in group[l] : key[m] = key[l]}
             /\ \A m \in out[l].mask : out[m] = out[l]
             /\ {out[m] : m \in group[l]} = {g} /\ out[l] = g
             /\ {h \in {g} : Min(h.mask) < Min(g.mask)} = {}
  <2>1. Min(at) \in Int
    BY FirstIs, LaneSets
  <2>2. ~(Min(at) < Min(at))
    BY <2>1
  <2> QED
    BY <2>2
<1>4. Cardinality({g}) = 1 /\ Cardinality({}) = 0
  BY FS_Singleton, FS_EmptySet
<1>5. g.meta_size = 1 /\ g.meta_rank = 0
  OBVIOUS
<1> HIDE DEF g
<1>6. Partitioned("label", at, group, key, out)
  BY <1>3, <1>4, <1>5 DEF Partitioned
<1> QED
  BY <1>2, <1>6

\* The groups binary_partition makes: yes[l] are the lanes of group[l] the predicate holds on.
BinaryMade(at, group, pred, yes, out) ==
  \A l \in at :
     /\ yes[l] = {m \in group[l] : pred[m]}
     /\ out[l] = [mask |-> IF pred[l] THEN yes[l] ELSE group[l] \ yes[l],
                  meta_rank |-> IF ~(yes[l] \in {{}, group[l]}) /\ pred[l] THEN 1 ELSE 0,
                  meta_size |-> IF yes[l] \in {{}, group[l]} THEN 1 ELSE 2]

LEMMA BinaryMakes ==
  ASSUME NEW at, NEW group, Cosets(at, group), NEW pred \in [at -> BOOLEAN], NEW yes, NEW out,
         BinaryMade(at, group, pred, yes, out)
  PROVE  Partitioned("binary", at, group, pred, out) /\ Formed(at, out)
<1> DEFINE Same(l) == {m \in group[l] : pred[m] = pred[l]}
<1>1. at \in SUBSET Warp /\ \A l \in at : l \in group[l] /\ group[l] \subseteq at /\ group[l] \in SUBSET Warp
                                          /\ \A m \in group[l] : group[m] = group[l] /\ m \in at
  BY DEF Cosets
<1>2. \A l \in at : pred[l] \in BOOLEAN
  OBVIOUS
<1>10. ASSUME NEW l \in at
      PROVE  /\ yes[l] = {m \in group[l] : pred[m]}
             /\ out[l].mask = IF pred[l] THEN yes[l] ELSE group[l] \ yes[l]
             /\ out[l].meta_rank = IF ~(yes[l] \in {{}, group[l]}) /\ pred[l] THEN 1 ELSE 0
             /\ out[l].meta_size = IF yes[l] \in {{}, group[l]} THEN 1 ELSE 2
             /\ out[l] = [mask |-> out[l].mask, meta_rank |-> out[l].meta_rank, meta_size |-> out[l].meta_size]
  <2> DEFINE k == IF pred[l] THEN yes[l] ELSE group[l] \ yes[l]
             r == IF ~(yes[l] \in {{}, group[l]}) /\ pred[l] THEN 1 ELSE 0
             z == IF yes[l] \in {{}, group[l]} THEN 1 ELSE 2
  <2>1. yes[l] = {m \in group[l] : pred[m]} /\ out[l] = [mask |-> k, meta_rank |-> r, meta_size |-> z]
    BY DEF BinaryMade
  <2> HIDE DEF k, r, z
  <2>2. /\ out[l].mask = k /\ out[l].meta_rank = r /\ out[l].meta_size = z
        /\ out[l] = [mask |-> out[l].mask, meta_rank |-> out[l].meta_rank, meta_size |-> out[l].meta_size]
    BY <2>1
  <2> QED
    BY <2>1, <2>2 DEF k, r, z
<1>3. \A l \in at : out[l].mask = Same(l)
  <2> SUFFICES ASSUME NEW l \in at PROVE out[l].mask = Same(l)
    OBVIOUS
  <2>1. \A m \in group[l] : pred[m] \in BOOLEAN
    BY <1>1
  <2>2. CASE pred[l]
    <3>1. out[l].mask = {m \in group[l] : pred[m]}
      BY <1>10, <2>2, Zenon
    <3>2. \A m \in group[l] : pred[m] <=> pred[m] = pred[l]
      BY <1>2, <2>1, <2>2, Zenon
    <3> QED
      BY <3>1, <3>2
  <2>3. CASE ~pred[l]
    <3>1. out[l].mask = group[l] \ {m \in group[l] : pred[m]}
      BY <1>10, <2>3, Zenon
    <3>2. \A m \in group[l] : ~pred[m] <=> pred[m] = pred[l]
      BY <1>2, <2>1, <2>3, Zenon
    <3> QED
      BY <3>1, <3>2
  <2> QED
    BY <2>2, <2>3
<1>4. ASSUME NEW l \in at, NEW m \in group[l]
      PROVE  /\ pred[m] = pred[l] => out[m] = out[l]
             /\ group[m] = group[l] /\ yes[m] = yes[l] /\ m \in at
  <2>1. group[m] = group[l] /\ m \in at
    BY <1>1
  <2>2. yes[m] = yes[l]
    <3>1. yes[l] = {x \in group[l] : pred[x]} /\ yes[m] = {x \in group[m] : pred[x]}
      BY <1>1, <1>10, <2>1, Zenon
    <3> QED
      BY <2>1, <3>1, Zenon
  <2>3. pred[m] = pred[l] => out[m] = out[l]
    <3> SUFFICES ASSUME pred[m] = pred[l] PROVE out[m] = out[l]
      OBVIOUS
    <3>1. out[m].mask = out[l].mask /\ out[m].meta_rank = out[l].meta_rank /\ out[m].meta_size = out[l].meta_size
      <4>1. out[m].meta_size = out[l].meta_size
        BY <1>10, <2>1, <2>2
      <4>2. out[m].meta_rank = out[l].meta_rank
        BY <1>10, <2>1, <2>2
      <4> QED
        BY <1>3, <2>1, <4>1, <4>2
    <3> QED
      BY <1>10, <2>1, <3>1
  <2> QED
    BY <2>1, <2>2, <2>3
<1>5. Formed(at, out)
  <2>1. ASSUME NEW l \in at
        PROVE  out[l] \in GroupValues
    <3>1. out[l].mask \in SUBSET Warp
      BY <1>1, <1>3
    <3>2. out[l].meta_rank \in Nat /\ out[l].meta_size \in Nat
      <4>1. 0 \in Nat /\ 1 \in Nat /\ 2 \in Nat
        OBVIOUS
      <4> QED
        BY <1>10, <4>1, Zenon
    <3>3. out[l] = [mask |-> out[l].mask, meta_rank |-> out[l].meta_rank, meta_size |-> out[l].meta_size]
      BY <1>10
    <3> QED
      BY <3>1, <3>2, <3>3 DEF GroupValues
  <2>2. \A l \in at : out[l].mask \subseteq at
    BY <1>1, <1>3
  <2>3. \A l \in at : \A m \in out[l].mask : out[m] = out[l]
    BY <1>3, <1>4
  <2> QED
    BY <2>1, <2>2, <2>3 DEF Formed
<1>6. ASSUME NEW l \in at
      PROVE  LET g == out[l]
                 siblings == {out[m] : m \in group[l]}
                 before == {h \in siblings : pred[l] /\ ~pred[Min(h.mask)]}
             IN  g.meta_size = Cardinality(siblings) /\ g.meta_rank = Cardinality(before)
  <2> DEFINE g == out[l]
             siblings == {out[m] : m \in group[l]}
             before == {h \in siblings : pred[l] /\ ~pred[Min(h.mask)]}
  <2>1. \A m \in group[l] : m \in Same(m) /\ Min(out[m].mask) \in Same(m) /\ pred[Min(out[m].mask)] = pred[m]
    <3> SUFFICES ASSUME NEW m \in group[l] PROVE m \in Same(m) /\ Min(out[m].mask) \in Same(m) /\ pred[Min(out[m].mask)] = pred[m]
      OBVIOUS
    <3>1. m \in Same(m) /\ Same(m) \in SUBSET Warp /\ out[m].mask = Same(m)
      BY <1>1, <1>3
    <3>2. Min(Same(m)) \in Same(m)
      BY <3>1, FirstIs
    <3> QED
      BY <3>1, <3>2
  <2>2. CASE yes[l] \in {{}, group[l]}
    <3>1. \A m \in group[l] : pred[m] = pred[l]
      <4>1. \A m \in group[l] : pred[m] \in BOOLEAN
        BY <1>1
      <4>2. l \in group[l] /\ yes[l] = {m \in group[l] : pred[m]}
        BY <1>1, <1>10
      <4>3. CASE yes[l] = {}
        <5>1. \A m \in group[l] : pred[m] = FALSE
          BY <4>1, <4>2, <4>3, Zenon
        <5>2. pred[l] = FALSE
          BY <4>2, <5>1, Zenon
        <5>3. ASSUME NEW m \in group[l]
              PROVE  pred[m] = pred[l]
          <6> DEFINE p == pred[m]
                     q == pred[l]
          <6>1. p = FALSE /\ q = FALSE
            BY <5>1, <5>2
          <6> HIDE DEF p, q
          <6>2. p = q
            BY <6>1
          <6> QED
            BY <6>2 DEF p, q
        <5> QED
          BY <5>3, Zenon
      <4>4. CASE yes[l] = group[l]
        <5>1. \A m \in group[l] : pred[m] = TRUE
          BY <4>1, <4>2, <4>4, Zenon
        <5>2. pred[l] = TRUE
          BY <4>2, <5>1, Zenon
        <5>3. ASSUME NEW m \in group[l]
              PROVE  pred[m] = pred[l]
          <6> DEFINE p == pred[m]
                     q == pred[l]
          <6>1. p = TRUE /\ q = TRUE
            BY <5>1, <5>2
          <6> HIDE DEF p, q
          <6>2. p = q
            BY <6>1
          <6> QED
            BY <6>2 DEF p, q
        <5> QED
          BY <5>3, Zenon
      <4> QED
        BY <2>2, <4>3, <4>4
    <3>2. siblings = {g}
      BY <1>1, <1>4, <3>1
    <3>3. before = {}
      <4>1. ~(pred[l] /\ ~pred[Min(g.mask)])
        BY <1>1, <2>1
      <4> HIDE DEF siblings, g
      <4> QED
        BY <3>2, <4>1
    <3>4. g.meta_size = 1 /\ g.meta_rank = 0
      BY <1>10, <2>2, Zenon
    <3>5. Cardinality(siblings) = 1 /\ Cardinality(before) = 0
      <4> HIDE DEF siblings, before, g
      <4> QED
        BY <3>2, <3>3, FS_Singleton, FS_EmptySet
    <3> QED
      BY <3>4, <3>5, Zenon
  <2>3. CASE ~(yes[l] \in {{}, group[l]})
    <3>1. yes[l] = {m \in group[l] : pred[m]}
      BY <1>10
    <3>2. PICK a \in group[l] : pred[a]
      BY <2>3, <3>1
    <3>3. PICK b \in group[l] : ~pred[b]
      BY <2>3, <3>1
    <3>4. pred[a] = TRUE /\ pred[b] = FALSE /\ a \in at /\ b \in at
      <4>1. a \in at /\ b \in at
        BY <1>1
      <4> QED
        BY <1>2, <3>2, <3>3, <4>1
    <3>5. \A m \in group[l] : out[m] = IF pred[m] THEN out[a] ELSE out[b]
      <4> SUFFICES ASSUME NEW m \in group[l] PROVE out[m] = IF pred[m] THEN out[a] ELSE out[b]
        OBVIOUS
      <4>1. group[a] = group[l] /\ group[b] = group[l] /\ m \in at /\ pred[m] \in BOOLEAN
        BY <1>1
      <4>2. m \in group[a] /\ m \in group[b]
        BY <4>1
      <4>3. CASE pred[m]
        <5>1. pred[m] = pred[a]
          BY <3>4, <4>1, <4>3
        <5>2. out[m] = out[a]
          BY <1>4, <3>4, <4>2, <5>1
        <5> QED
          BY <4>3, <5>2
      <4>4. CASE ~pred[m]
        <5>1. pred[m] = pred[b]
          BY <3>4, <4>1, <4>4
        <5>2. out[m] = out[b]
          BY <1>4, <3>4, <4>2, <5>1
        <5> QED
          BY <4>4, <5>2
      <4> QED
        BY <4>3, <4>4
    <3>6. siblings = {out[a], out[b]}
      <4>1. siblings \subseteq {out[a], out[b]}
        BY <3>5
      <4>2. out[a] \in siblings /\ out[b] \in siblings
        OBVIOUS
      <4> QED
        BY <4>1, <4>2
    <3>7. out[a] # out[b] /\ pred[Min(out[a].mask)] = TRUE /\ pred[Min(out[b].mask)] = FALSE
      <4>1. pred[Min(out[a].mask)] = TRUE /\ pred[Min(out[b].mask)] = FALSE
        BY <2>1, <3>4
      <4> QED
        BY <4>1
    <3>8. Cardinality({out[a], out[b]}) = 2
      BY <3>7, PairHasTwo
    <3>9. g.meta_size = 2 /\ g.meta_rank = IF pred[l] THEN 1 ELSE 0
      BY <1>10, <2>3, Zenon
    <3>10. before = IF pred[l] THEN {out[b]} ELSE {}
      <4> HIDE DEF siblings
      <4>1. before = {h \in {out[a], out[b]} : pred[l] /\ ~pred[Min(h.mask)]}
        BY <3>6
      <4> QED
        BY <3>7, <4>1
    <3>11. Cardinality({out[b]}) = 1 /\ Cardinality({}) = 0
      BY FS_Singleton, FS_EmptySet
    <3>12. Cardinality(siblings) = 2
      BY <3>6, <3>8
    <3>13. Cardinality(before) = IF pred[l] THEN 1 ELSE 0
      BY <3>10, <3>11
    <3> QED
      BY <3>9, <3>12, <3>13, Zenon
  <2> QED
    BY <2>2, <2>3
<1>7. "binary" # "label"
  OBVIOUS
<1>8. \A l \in at : \A m \in out[l].mask : out[m] = out[l]
  BY <1>5 DEF Formed
<1>9. Partitioned("binary", at, group, pred, out)
  BY <1>3, <1>6, <1>7, <1>8 DEF Partitioned
<1> QED
  BY <1>5, <1>9

-----------------------------------------------------------------------------
\* The lanes of l's group with l's key, and the first lanes of all such sets.
Alike(group, key, l) == {m \in group[l] : key[m] = key[l]}
Firsts(group, key, l) == {x \in group[l] : x = Min(Alike(group, key, x))}

LEMMA AlikeIs ==
  ASSUME NEW at, NEW group, Cosets(at, group), NEW key, NEW l \in at
  PROVE  /\ Alike(group, key, l) \in SUBSET Warp /\ l \in Alike(group, key, l)
         /\ Min(Alike(group, key, l)) \in Alike(group, key, l)
         /\ \A m \in group[l] : m \in at /\ group[m] = group[l] /\ m \in Warp
         /\ \A m \in group[l] : key[m] = key[l] <=> Alike(group, key, m) = Alike(group, key, l)
         /\ Firsts(group, key, l) \in SUBSET Warp
         /\ \A m \in group[l] : /\ Firsts(group, key, m) = Firsts(group, key, l)
                                /\ Min(Alike(group, key, m)) \in Firsts(group, key, l)
<1>1. l \in group[l] /\ group[l] \in SUBSET Warp /\ \A m \in group[l] : m \in at /\ group[m] = group[l] /\ m \in Warp /\ m \in group[m]
  BY DEF Cosets
<1>2. \A m \in group[l] : Alike(group, key, m) = {x \in group[l] : key[x] = key[m]}
  BY <1>1 DEF Alike
<1>3. \A m \in group[l] : Alike(group, key, m) \in SUBSET Warp /\ m \in Alike(group, key, m)
  BY <1>1, <1>2
<1>4. \A m \in group[l] : Min(Alike(group, key, m)) \in Alike(group, key, m)
  BY <1>3, FirstIs
<1>5. \A m \in group[l] : key[m] = key[l] <=> Alike(group, key, m) = Alike(group, key, l)
  <2> SUFFICES ASSUME NEW m \in group[l] PROVE key[m] = key[l] <=> Alike(group, key, m) = Alike(group, key, l)
    OBVIOUS
  <2>1. m \in Alike(group, key, m) /\ \A x \in Alike(group, key, l) : key[x] = key[l]
    BY <1>1, <1>2, <1>3
  <2>2. Alike(group, key, m) = Alike(group, key, l) => key[m] = key[l]
    BY <2>1
  <2>3. key[m] = key[l] => Alike(group, key, m) = Alike(group, key, l)
    BY <1>1, <1>2
  <2> QED
    BY <2>2, <2>3
<1>6. Firsts(group, key, l) \in SUBSET Warp /\ \A m \in group[l] : Firsts(group, key, m) = Firsts(group, key, l)
  BY <1>1 DEF Firsts
<1>7. ASSUME NEW m \in group[l]
      PROVE  Min(Alike(group, key, m)) \in Firsts(group, key, l)
  <2> DEFINE x == Min(Alike(group, key, m))
  <2>1. x \in group[l] /\ key[x] = key[m]
    BY <1>2, <1>4
  <2>2. Alike(group, key, x) = Alike(group, key, m)
    BY <1>2, <2>1
  <2> QED
    BY <2>1, <2>2 DEF Firsts
<1> QED
  BY <1>1, <1>3, <1>4, <1>5, <1>6, <1>7

LEMMA LabelMakes ==
  ASSUME NEW at, NEW group, Cosets(at, group), NEW key, NEW out,
         \A l \in at :
            out[l] = [mask |-> Alike(group, key, l),
                      meta_rank |-> count(Below(Firsts(group, key, l), Min(Alike(group, key, l)))),
                      meta_size |-> count(Firsts(group, key, l))]
  PROVE  Partitioned("label", at, group, key, out) /\ Formed(at, out)
<1> DEFINE A(l) == Alike(group, key, l)
           F(l) == Firsts(group, key, l)
<1>1. ASSUME NEW l \in at
      PROVE  /\ A(l) \in SUBSET Warp /\ l \in A(l) /\ Min(A(l)) \in A(l)
             /\ \A m \in group[l] : m \in at /\ group[m] = group[l] /\ m \in Warp
             /\ \A m \in group[l] : key[m] = key[l] <=> A(m) = A(l)
             /\ F(l) \in SUBSET Warp
             /\ \A m \in group[l] : F(m) = F(l) /\ Min(A(m)) \in F(l)
  BY AlikeIs
<1>9. \A l \in at : A(l) = {m \in group[l] : key[m] = key[l]}
  BY DEF Alike
<1>2. ASSUME NEW l \in at
      PROVE  /\ out[l].mask = A(l) /\ out[l].meta_rank = count(Below(F(l), Min(A(l)))) /\ out[l].meta_size = count(F(l))
             /\ out[l] = [mask |-> out[l].mask, meta_rank |-> out[l].meta_rank, meta_size |-> out[l].meta_size]
  <2> DEFINE r == count(Below(F(l), Min(A(l))))
             z == count(F(l))
  <2>1. out[l] = [mask |-> A(l), meta_rank |-> r, meta_size |-> z]
    OBVIOUS
  <2> HIDE DEF A, F, r, z
  <2>2. out[l].mask = A(l) /\ out[l].meta_rank = r /\ out[l].meta_size = z
        /\ out[l] = [mask |-> out[l].mask, meta_rank |-> out[l].meta_rank, meta_size |-> out[l].meta_size]
    BY <2>1
  <2> QED
    BY <2>2 DEF r, z
<1>3. ASSUME NEW l \in at, NEW m \in group[l]
      PROVE  A(m) = A(l) => out[m] = out[l]
  <2> HIDE DEF A, F
  <2>1. m \in at /\ F(m) = F(l)
    BY <1>1
  <2> QED
    BY <1>2, <2>1
<1> HIDE DEF A, F
<1>4. \A l \in at : \A m \in out[l].mask : out[m] = out[l]
  <2> SUFFICES ASSUME NEW l \in at, NEW m \in out[l].mask PROVE out[m] = out[l]
    OBVIOUS
  <2>1. m \in group[l] /\ key[m] = key[l]
    <3>1. out[l].mask = A(l) /\ A(l) = {x \in group[l] : key[x] = key[l]}
      BY <1>2, <1>9
    <3> QED
      BY <3>1
  <2>2. A(m) = A(l)
    BY <1>1, <2>1
  <2> QED
    BY <1>3, <2>1, <2>2
<1>5. Formed(at, out)
  <2>1. ASSUME NEW l \in at
        PROVE  out[l] \in GroupValues /\ out[l].mask \subseteq at
    <3>1. F(l) \in SUBSET Warp /\ Below(F(l), Min(A(l))) \in SUBSET Warp /\ A(l) \in SUBSET Warp
      BY <1>1 DEF Below
    <3>2. count(F(l)) \in Nat /\ count(Below(F(l), Min(A(l)))) \in Nat
      BY <3>1, LaneSets DEF count
    <3>3. A(l) \subseteq group[l] /\ group[l] \subseteq at
      BY <1>9 DEF Cosets
    <3>4. out[l].mask \in SUBSET Warp /\ out[l].mask \subseteq at
      BY <1>2, <3>1, <3>3
    <3>5. out[l].meta_rank \in Nat /\ out[l].meta_size \in Nat
      BY <1>2, <3>2
    <3>6. out[l] = [mask |-> out[l].mask, meta_rank |-> out[l].meta_rank, meta_size |-> out[l].meta_size]
      BY <1>2
    <3> QED
      BY <3>4, <3>5, <3>6 DEF GroupValues
  <2> QED
    BY <1>4, <2>1 DEF Formed
<1>6. ASSUME NEW l \in at
      PROVE  LET g == out[l]
                 siblings == {out[m] : m \in group[l]}
                 before == {h \in siblings : Min(h.mask) < Min(g.mask)}
             IN  g.meta_size = Cardinality(siblings) /\ g.meta_rank = Cardinality(before)
  <2> DEFINE g == out[l]
             siblings == {out[m] : m \in group[l]}
             before == {h \in siblings : Min(h.mask) < Min(g.mask)}
             firsts == F(l)
             low == Below(firsts, Min(g.mask))
             f == [x \in firsts |-> out[x]]
             e == [x \in low |-> out[x]]
  <2>1. firsts \in SUBSET Warp /\ low \in SUBSET Warp /\ low \subseteq firsts
    BY <1>1 DEF Below
  <2>2. \A x \in firsts : x \in group[l] /\ x \in at /\ x = Min(A(x)) /\ x = Min(out[x].mask)
    <3>1. \A x \in firsts : x \in group[l] /\ x = Min(A(x))
      BY DEF F, Firsts, A
    <3>2. group[l] \subseteq at
      BY DEF Cosets
    <3>3. \A x \in at : out[x].mask = A(x)
      BY <1>2
    <3> HIDE DEF firsts
    <3> QED
      BY <3>1, <3>2, <3>3
  <2>3. \A h \in siblings : /\ Min(h.mask) \in firsts /\ h = out[Min(h.mask)]
    <3> SUFFICES ASSUME NEW m \in group[l] PROVE Min(out[m].mask) \in firsts /\ out[m] = out[Min(out[m].mask)]
      OBVIOUS
    <3>1. m \in at /\ Min(A(m)) \in firsts /\ out[m].mask = A(m) /\ Min(A(m)) \in A(m) /\ group[m] = group[l]
      BY <1>1, <1>2
    <3>2. Min(A(m)) \in out[m].mask
      BY <3>1
    <3>3. out[Min(A(m))] = out[m]
      BY <1>4, <3>1, <3>2
    <3> QED
      BY <3>1, <3>3
  <2>4. \A x \in firsts : out[x] \in siblings
    BY <2>2
  <2> HIDE DEF siblings, firsts
  <2>5. \A a, b \in firsts : out[a] = out[b] => a = b
    BY <2>2
  <2>6. Cardinality(siblings) = Cardinality(firsts)
    <3>1. f \in [firsts -> siblings]
      BY <2>4
    <3>2. \A a, b \in firsts : f[a] = f[b] => a = b
      BY <2>5
    <3>3. \A h \in siblings : \E x \in firsts : f[x] = h
      BY <2>3
    <3> HIDE DEF f
    <3>4. f \in Bijection(firsts, siblings)
      BY <3>1, <3>2, <3>3 DEF Bijection, Injection, IsInjective, Surjection
    <3>5. IsFiniteSet(firsts)
      BY <2>1, LaneSets
    <3> QED
      BY <3>4, <3>5, FS_Bijection DEF ExistsBijection
  <2>7. Cardinality(before) = Cardinality(low)
    <3>1. \A x \in low : x \in firsts /\ x < Min(g.mask)
      BY DEF Below
    <3>2. \A h \in before : h \in siblings /\ Min(h.mask) < Min(g.mask)
      OBVIOUS
    <3>3. e \in [low -> before]
      BY <2>2, <2>4, <3>1
    <3>4. \A a, b \in low : e[a] = e[b] => a = b
      BY <2>5, <3>1
    <3>5. \A h \in before : \E x \in low : e[x] = h
      <4> SUFFICES ASSUME NEW h \in before PROVE \E x \in low : e[x] = h
        OBVIOUS
      <4>1. Min(h.mask) \in firsts /\ h = out[Min(h.mask)] /\ Min(h.mask) < Min(g.mask)
        BY <2>3, <3>2
      <4>2. Min(h.mask) \in low
        BY <4>1 DEF Below
      <4> QED
        BY <4>1, <4>2
    <3> HIDE DEF e, before, low
    <3>6. e \in Bijection(low, before)
      BY <3>3, <3>4, <3>5 DEF Bijection, Injection, IsInjective, Surjection
    <3>7. IsFiniteSet(low)
      BY <2>1, LaneSets
    <3> QED
      BY <3>6, <3>7, FS_Bijection DEF ExistsBijection
  <2>8. g.meta_size = Cardinality(firsts) /\ g.meta_rank = Cardinality(low)
    BY <1>2 DEF count, firsts
  <2> HIDE DEF before, low, g
  <2>9. g.meta_size = Cardinality(siblings) /\ g.meta_rank = Cardinality(before)
    BY <2>6, <2>7, <2>8
  <2> QED
    BY <2>9 DEF siblings, before, g
<1>7. \A l \in at : out[l].mask = {m \in group[l] : key[m] = key[l]}
  BY <1>2, <1>9
<1>8. Partitioned("label", at, group, key, out)
  BY <1>4, <1>6, <1>7 DEF Partitioned
<1> QED
  BY <1>5, <1>8

-----------------------------------------------------------------------------
(* The invariant: the groups on the stack are groups of lanes that name the *)
(* same group, and the last collective was exact.                           *)

Frames == [lanes : SUBSET Warp, group : [Warp -> GroupValues]]

StackTyped == stack \in Seq(Frames) /\ Len(stack) >= 1

GroupsAgree ==
  \A d \in 1 .. Len(stack), l \in Warp :
    \A m \in stack[d].group[l].mask : stack[d].group[m] = stack[d].group[l]

GroupInv == StackTyped /\ GroupsAgree /\ GroupResultExact

LEMMA FramesAre ==
  ASSUME StackTyped
  PROVE  /\ Len(stack) \in 1 .. Len(stack) /\ active \in SUBSET Warp
         /\ \A d \in 1 .. Len(stack) :
              /\ stack[d] \in Frames
              /\ stack[d] = [lanes |-> stack[d].lanes, group |-> stack[d].group]
              /\ stack[d].lanes \in SUBSET Warp /\ stack[d].group \in [Warp -> GroupValues]
              /\ \A l \in Warp : stack[d].group[l].mask \in SUBSET Warp
<1>1. Len(stack) \in 1 .. Len(stack)
  BY DEF StackTyped
<1>2. ASSUME NEW d \in 1 .. Len(stack)
      PROVE  /\ stack[d] \in Frames
             /\ stack[d] = [lanes |-> stack[d].lanes, group |-> stack[d].group]
             /\ stack[d].lanes \in SUBSET Warp /\ stack[d].group \in [Warp -> GroupValues]
             /\ \A l \in Warp : stack[d].group[l].mask \in SUBSET Warp
  <2>1. stack[d] \in Frames
    BY DEF StackTyped
  <2>2. /\ stack[d] = [lanes |-> stack[d].lanes, group |-> stack[d].group]
        /\ stack[d].lanes \in SUBSET Warp /\ stack[d].group \in [Warp -> GroupValues]
    BY <2>1 DEF Frames
  <2>3. \A g \in GroupValues : g.mask \in SUBSET Warp
    BY DEF GroupValues
  <2> QED
    BY <2>1, <2>2, <2>3
<1> QED
  BY <1>1, <1>2 DEF active

LEMMA NoGroupIs == NoGroup \in GroupValues /\ NoGroup.mask = {} /\ [l \in Warp |-> NoGroup] \in [Warp -> GroupValues]
BY DEF NoGroup, GroupValues

\* Declaring well-formed groups keeps the stack as it must be.
LEMMA DeclareKeeps ==
  ASSUME StackTyped, GroupsAgree, NEW out, Formed(active, out),
         stack' = [stack EXCEPT ![Len(stack)].group = [l \in Warp |-> IF l \in active THEN out[l] ELSE NoGroup]]
  PROVE  StackTyped' /\ GroupsAgree'
<1> DEFINE n == Len(stack)
           made == [l \in Warp |-> IF l \in active THEN out[l] ELSE NoGroup]
           A == active
<1>1. n \in 1 .. n /\ A \in SUBSET Warp /\ stack \in Seq(Frames) /\ stack[n] \in Frames
      /\ stack[n].lanes \in SUBSET Warp
  BY FramesAre DEF StackTyped
<1>2. made \in [Warp -> GroupValues]
  BY NoGroupIs DEF Formed
<1>3. ASSUME NEW l \in Warp, NEW m \in made[l].mask
      PROVE  made[m] = made[l]
  <2>1. CASE l \in A
    <3>1. made[l] = out[l] /\ m \in out[l].mask
      BY <2>1
    <3>2. m \in A /\ out[m] = out[l]
      BY <2>1, <3>1 DEF Formed
    <3>3. made[m] = out[m]
      BY <1>1, <3>2
    <3> QED
      BY <3>1, <3>2, <3>3
  <2>2. CASE l \notin A
    BY <2>2, NoGroupIs
  <2> QED
    BY <2>1, <2>2
<1>4. stack' = [stack EXCEPT ![n] = [stack[n] EXCEPT !.group = made]]
  OBVIOUS
<1> HIDE DEF made, A
<1>5. [stack[n] EXCEPT !.group = made] \in Frames
  BY <1>1, <1>2 DEF Frames
<1> DEFINE top == [stack[n] EXCEPT !.group = made]
<1>6. top.group = made
  BY <1>1 DEF Frames
<1>7. stack' = [stack EXCEPT ![n] = top]
  BY <1>4
<1> HIDE DEF top
<1>8. stack' \in Seq(Frames) /\ Len(stack') = n /\ \A d \in 1 .. n : stack'[d] = IF d = n THEN top ELSE stack[d]
  <2> HIDE DEF n
  <2>1. stack' \in Seq(Frames) /\ Len(stack') = Len(stack) /\ DOMAIN stack = 1 .. Len(stack)
    BY <1>1, <1>5, <1>7 DEF top, n
  <2>2. \A d \in 1 .. n : stack'[d] = IF d = n THEN top ELSE stack[d]
    BY <1>7, <2>1 DEF n
  <2> QED
    BY <2>1, <2>2 DEF n
<1>9. StackTyped'
  BY <1>1, <1>8 DEF StackTyped
<1>10. GroupsAgree'
  <2> SUFFICES ASSUME NEW d \in 1 .. n, NEW l \in Warp, NEW m \in stack'[d].group[l].mask
               PROVE  stack'[d].group[m] = stack'[d].group[l]
    BY <1>8 DEF GroupsAgree
  <2>1. CASE d = n
    <3>1. stack'[d].group = made
      BY <1>6, <1>8, <2>1
    <3> QED
      BY <1>3, <3>1
  <2>2. CASE d # n
    <3>1. stack'[d] = stack[d]
      BY <1>8, <2>2
    <3>2. stack[d].group[m] = stack[d].group[l]
      BY <3>1 DEF GroupsAgree
    <3> QED
      BY <3>1, <3>2
  <2> QED
    BY <2>1, <2>2
<1> QED
  BY <1>9, <1>10

LEMMA DeclareExact ==
  ASSUME GroupInv, NEW kind \in {"binary", "label"}, NEW group, NEW key, NEW out,
         Partitioned(kind, active, group, key, out), Formed(active, out),
         last' = [op |-> kind, at |-> active, key |-> key, group |-> group, out |-> out],
         stack' = [stack EXCEPT ![Len(stack)].group = [l \in Warp |-> IF l \in active THEN out[l] ELSE NoGroup]]
  PROVE  GroupInv'
<1> DEFINE A == active
<1>1. StackTyped' /\ GroupsAgree'
  BY DeclareKeeps DEF GroupInv
<1>2. last'.op = kind /\ last'.at = A /\ last'.key = key /\ last'.group = group /\ last'.out = out
  OBVIOUS
<1>3. Partitioned(kind, A, group, key, out)
  OBVIOUS
<1> HIDE DEF A
<1>4. PartitionByKey'
  <2>1. Partitioned(last'.op, last'.at, last'.group, last'.key, last'.out)
    BY <1>2, <1>3
  <2> QED
    BY <2>1, Zenon DEF PartitionByKey, Partitioned
<1>5. GroupExchange' /\ MaskedExchange'
  <2>1. kind \notin {"shfl", "plus", "greater", "ballot", "up", "down"}
    OBVIOUS
  <2> QED
    BY <1>2, <2>1 DEF GroupExchange, MaskedExchange
<1> QED
  BY <1>1, <1>4, <1>5 DEF GroupInv, GroupResultExact

\* Of a group every member of which takes part, the lanes name the same one.
LEMMA DeclaredMeet ==
  ASSUME GroupInv, NEW d \in 1 .. Len(stack), \A l \in active : members_active(Parent(d, l).mask, l)
  PROVE  /\ Cosets(active, [l \in active |-> Parent(d, l).mask])
         /\ GroupsMeet(d)
         /\ \A l \in active : /\ Parent(d, l).mask \in SUBSET Warp
                              /\ \A m \in Parent(d, l).mask : m \in active /\ Parent(d, m) = Parent(d, l)
<1>1. active \in SUBSET Warp
  BY FramesAre DEF GroupInv
<1>2. ASSUME NEW l \in active
      PROVE  /\ l \in Parent(d, l).mask /\ Parent(d, l).mask \subseteq active
             /\ \A m \in Parent(d, l).mask : Parent(d, m) = Parent(d, l)
  <2>1. l \in Warp
    BY <1>1
  <2> QED
    BY <2>1 DEF members_active, GroupInv, GroupsAgree, Parent
<1> QED
  BY <1>1, <1>2 DEF Cosets, GroupsMeet

-----------------------------------------------------------------------------
LEMMA NoDeclare ==
  ASSUME GroupInv, UNCHANGED <<stack, last>>
  PROVE  GroupInv'
<1>1. stack' = stack /\ last' = last
  OBVIOUS
<1>2. StackTyped' /\ GroupsAgree'
  BY <1>1 DEF GroupInv, StackTyped, GroupsAgree
<1>3. PartitionByKey' <=> PartitionByKey
  <2> DEFINE R(x) == Partitioned(x.op, x.at, x.group, x.key, x.out)
  <2>1. PartitionByKey <=> (last.op \in {"binary", "label"} => R(last))
    BY Zenon DEF PartitionByKey, Partitioned
  <2>2. PartitionByKey' <=> (last'.op \in {"binary", "label"} => R(last'))
    BY Zenon DEF PartitionByKey, Partitioned
  <2> HIDE DEF R
  <2> QED
    BY <1>1, <2>1, <2>2
<1>4. GroupExchange' <=> GroupExchange
  BY <1>1, SMT DEF GroupExchange
<1>5. MaskedExchange' <=> MaskedExchange
  BY <1>1, Zenon DEF MaskedExchange
<1> QED
  BY <1>2, <1>3, <1>4, <1>5 DEF GroupInv, GroupResultExact

LEMMA ThreadsStep == ASSUME GroupInv, coalesced_threads PROVE GroupInv'
<1> DEFINE made(l) == [mask |-> active, meta_rank |-> 0, meta_size |-> 1]
           group == [l \in active |-> active]
           key == [l \in Warp |-> 0]
           out == [l \in active |-> made(l)]
<1>1. \/ UNCHANGED <<stack, last>>
      \/ /\ stack' = [stack EXCEPT ![Len(stack)].group = [l \in Warp |-> IF l \in active THEN made(l) ELSE NoGroup]]
         /\ last' = [op |-> "label", at |-> active, key |-> key, group |-> group, out |-> out]
  BY DEF coalesced_threads, Collective, Declare
<1>2. CASE UNCHANGED <<stack, last>>
  BY <1>2, NoDeclare
<1>3. CASE /\ stack' = [stack EXCEPT ![Len(stack)].group = [l \in Warp |-> IF l \in active THEN made(l) ELSE NoGroup]]
           /\ last' = [op |-> "label", at |-> active, key |-> key, group |-> group, out |-> out]
  <2>1. active \in SUBSET Warp
    BY FramesAre DEF GroupInv
  <2>2. Partitioned("label", active, group, key, out) /\ Formed(active, out)
    <3>1. \A l \in active : group[l] = active /\ key[l] = 0 /\ out[l] = [mask |-> active, meta_rank |-> 0, meta_size |-> 1]
      BY <2>1
    <3> HIDE DEF group, key, out
    <3> QED
      BY <2>1, <3>1, WholeMakes
  <2>3. [l \in Warp |-> IF l \in active THEN made(l) ELSE NoGroup] = [l \in Warp |-> IF l \in active THEN out[l] ELSE NoGroup]
    OBVIOUS
  <2> HIDE DEF group, key, out
  <2> QED
    BY <1>3, <2>2, <2>3, DeclareExact
<1> QED
  BY <1>1, <1>2, <1>3

-----------------------------------------------------------------------------
LEMMA BinaryStep ==
  ASSUME GroupInv, NEW d \in 1 .. Len(stack), NEW pred \in Predicates, binary_partition(d, pred)
  PROVE  GroupInv'
<1> DEFINE yes(l) == ballot(pred) \cap Parent(d, l).mask
           homogeneous(l) == yes(l) \in {{}, Parent(d, l).mask}
           selected(l) == IF pred[l] THEN yes(l) ELSE Parent(d, l).mask \ yes(l)
           made(l) == [mask |-> selected(l),
                       meta_rank |-> IF ~homogeneous(l) /\ pred[l] THEN 1 ELSE 0,
                       meta_size |-> IF homogeneous(l) THEN 1 ELSE 2]
           group == [l \in active |-> Parent(d, l).mask]
           ys == [l \in active |-> yes(l)]
           out == [l \in active |-> made(l)]
<1>1. \/ UNCHANGED <<stack, last>>
      \/ /\ \A l \in active : members_active(Parent(d, l).mask, l)
         /\ stack' = [stack EXCEPT ![Len(stack)].group = [l \in Warp |-> IF l \in active THEN made(l) ELSE NoGroup]]
         /\ last' = [op |-> "binary", at |-> active, key |-> pred, group |-> group, out |-> out]
  BY DEF binary_partition, Collective, Declare
<1>2. CASE UNCHANGED <<stack, last>>
  BY <1>2, NoDeclare
<1>3. CASE /\ \A l \in active : members_active(Parent(d, l).mask, l)
           /\ stack' = [stack EXCEPT ![Len(stack)].group = [l \in Warp |-> IF l \in active THEN made(l) ELSE NoGroup]]
           /\ last' = [op |-> "binary", at |-> active, key |-> pred, group |-> group, out |-> out]
  <2>1. /\ Cosets(active, group)
        /\ \A l \in active : \A m \in Parent(d, l).mask : m \in active
    BY <1>3, DeclaredMeet
  <2>2. pred \in [active -> BOOLEAN]
    BY DEF Predicates
  <2>3. ASSUME NEW l \in active
        PROVE  /\ ys[l] = {m \in group[l] : pred[m]}
               /\ out[l] = [mask |-> IF pred[l] THEN ys[l] ELSE group[l] \ ys[l],
                            meta_rank |-> IF ~(ys[l] \in {{}, group[l]}) /\ pred[l] THEN 1 ELSE 0,
                            meta_size |-> IF ys[l] \in {{}, group[l]} THEN 1 ELSE 2]
    <3>1. ys[l] = yes(l) /\ group[l] = Parent(d, l).mask /\ out[l] = made(l)
      OBVIOUS
    <3>2. yes(l) = {m \in Parent(d, l).mask : pred[m]}
      BY <2>1 DEF ballot
    <3> HIDE DEF ys, group, out
    <3> QED
      BY <3>1, <3>2
  <2>4. [l \in Warp |-> IF l \in active THEN made(l) ELSE NoGroup] = [l \in Warp |-> IF l \in active THEN out[l] ELSE NoGroup]
    <3> HIDE DEF made
    <3> QED
      OBVIOUS
  <2> HIDE DEF group, out, ys
  <2>5. Partitioned("binary", active, group, pred, out) /\ Formed(active, out)
    <3>1. BinaryMade(active, group, pred, ys, out)
      BY <2>3 DEF BinaryMade
    <3> QED
      BY <2>1, <2>2, <3>1, BinaryMakes
  <2> HIDE DEF made
  <2> QED
    BY <1>3, <2>4, <2>5, DeclareExact
<1> QED
  BY <1>1, <1>2, <1>3

LEMMA BinaryTileStep ==
  ASSUME GroupInv, NEW pred \in Predicates, binary_partition_tile(pred)
  PROVE  GroupInv'
<1> DEFINE yes == ballot(pred)
           homogeneous == yes \in {{}, Warp}
           selected(l) == IF pred[l] THEN yes ELSE Warp \ yes
           made(l) == [mask |-> selected(l),
                       meta_rank |-> IF ~homogeneous /\ pred[l] THEN 1 ELSE 0,
                       meta_size |-> IF homogeneous THEN 1 ELSE 2]
           group == [l \in active |-> Warp]
           ys == [l \in active |-> yes]
           out == [l \in active |-> made(l)]
<1>1. \/ UNCHANGED <<stack, last>>
      \/ /\ \A l \in active : members_active(Warp, l)
         /\ stack' = [stack EXCEPT ![Len(stack)].group = [l \in Warp |-> IF l \in active THEN made(l) ELSE NoGroup]]
         /\ last' = [op |-> "binary", at |-> active, key |-> pred, group |-> group, out |-> out]
  BY DEF binary_partition_tile, Collective, Declare
<1>2. CASE UNCHANGED <<stack, last>>
  BY <1>2, NoDeclare
<1>3. CASE /\ \A l \in active : members_active(Warp, l)
           /\ stack' = [stack EXCEPT ![Len(stack)].group = [l \in Warp |-> IF l \in active THEN made(l) ELSE NoGroup]]
           /\ last' = [op |-> "binary", at |-> active, key |-> pred, group |-> group, out |-> out]
  <2>1. active \in SUBSET Warp /\ (active # {} => active = Warp)
    BY <1>3, FramesAre DEF GroupInv, members_active
  <2>2. pred \in [active -> BOOLEAN] /\ Cosets(active, group)
    BY <2>1 DEF Predicates, Cosets
  <2>3. ASSUME NEW l \in active
        PROVE  /\ ys[l] = {m \in group[l] : pred[m]}
               /\ out[l] = [mask |-> IF pred[l] THEN ys[l] ELSE group[l] \ ys[l],
                            meta_rank |-> IF ~(ys[l] \in {{}, group[l]}) /\ pred[l] THEN 1 ELSE 0,
                            meta_size |-> IF ys[l] \in {{}, group[l]} THEN 1 ELSE 2]
    <3>1. ys[l] = yes /\ group[l] = Warp /\ out[l] = made(l)
      OBVIOUS
    <3>2. yes = {m \in Warp : pred[m]}
      BY <2>1 DEF ballot
    <3> HIDE DEF ys, group, out
    <3> QED
      BY <3>1, <3>2
  <2>4. [l \in Warp |-> IF l \in active THEN made(l) ELSE NoGroup] = [l \in Warp |-> IF l \in active THEN out[l] ELSE NoGroup]
    <3> HIDE DEF made
    <3> QED
      OBVIOUS
  <2> HIDE DEF group, out, ys
  <2>5. Partitioned("binary", active, group, pred, out) /\ Formed(active, out)
    <3>1. BinaryMade(active, group, pred, ys, out)
      BY <2>3 DEF BinaryMade
    <3> QED
      BY <2>2, <3>1, BinaryMakes
  <2> HIDE DEF made
  <2> QED
    BY <1>3, <2>4, <2>5, DeclareExact
<1> QED
  BY <1>1, <1>2, <1>3

LEMMA LabelStep ==
  ASSUME GroupInv, NEW d \in 1 .. Len(stack), NEW label, labeled_partition(d, label)
  PROVE  GroupInv'
<1> DEFINE selected(l) ==
             LET g == Parent(d, l)
             IN {member(g.mask, r) : r \in {q \in 0..(count(g.mask) - 1) : shfl(g, label, q) = label[l]}}
           leader(l) == member(selected(l), 0)
           leaders(l) == ballot([x \in active |-> x = leader(x)]) \cap Parent(d, l).mask
           made(l) == [mask |-> selected(l),
                       meta_rank |-> count(Below(leaders(l), leader(l))),
                       meta_size |-> count(leaders(l))]
           group == [l \in active |-> Parent(d, l).mask]
           out == [l \in active |-> made(l)]
<1>1. \/ UNCHANGED <<stack, last>>
      \/ /\ \A l \in active : members_active(Parent(d, l).mask, l)
         /\ stack' = [stack EXCEPT ![Len(stack)].group = [l \in Warp |-> IF l \in active THEN made(l) ELSE NoGroup]]
         /\ last' = [op |-> "label", at |-> active, key |-> label, group |-> group, out |-> out]
  BY DEF labeled_partition, Collective, Declare
<1>2. CASE UNCHANGED <<stack, last>>
  BY <1>2, NoDeclare
<1>3. CASE /\ \A l \in active : members_active(Parent(d, l).mask, l)
           /\ stack' = [stack EXCEPT ![Len(stack)].group = [l \in Warp |-> IF l \in active THEN made(l) ELSE NoGroup]]
           /\ last' = [op |-> "label", at |-> active, key |-> label, group |-> group, out |-> out]
  <2>1. /\ Cosets(active, group)
        /\ \A l \in active : Parent(d, l).mask \in SUBSET Warp /\ \A m \in Parent(d, l).mask : m \in active
    BY <1>3, DeclaredMeet
  <2>2. ASSUME NEW l \in active
        PROVE  selected(l) = Alike(group, label, l)
    <3> DEFINE S == Parent(d, l).mask
               T == {q \in 0..(count(S) - 1) : label[member(S, q)] = label[l]}
    <3>1. selected(l) = {member(S, r) : r \in T}
      BY DEF shfl
    <3>2. S \in SUBSET Warp /\ Alike(group, label, l) = {m \in S : label[m] = label[l]}
      BY <2>1 DEF Alike
    <3> HIDE DEF S, selected
    <3>3. ASSUME NEW m \in S, label[m] = label[l]
          PROVE  \E r \in T : m = member(S, r)
      <4>1. count(Below(S, m)) \in 0 .. count(S) - 1 /\ member(S, count(Below(S, m))) = m
        BY <3>2, BelowIs, MemberOfRank
      <4> QED
        BY <3>3, <4>1
    <3>4. \A r \in T : member(S, r) \in S /\ label[member(S, r)] = label[l]
      BY <3>2, MemberIs
    <3> HIDE DEF T
    <3> QED
      BY <3>1, <3>2, <3>3, <3>4
  <2> HIDE DEF selected
  <2>3. \A l \in active : leader(l) = Min(Alike(group, label, l))
    <3> SUFFICES ASSUME NEW l \in active PROVE leader(l) = Min(Alike(group, label, l))
      OBVIOUS
    <3>1. Alike(group, label, l) \in SUBSET Warp /\ l \in Alike(group, label, l)
      <4> HIDE DEF group
      <4> QED
        BY <2>1, AlikeIs
    <3>2. member(Alike(group, label, l), 0) = Min(Alike(group, label, l))
      <4> DEFINE S == Alike(group, label, l)
      <4>1. S \in SUBSET Warp /\ S # {}
        BY <3>1
      <4> HIDE DEF S
      <4>2. member(S, 0) = Min(S)
        BY <4>1, FirstIs
      <4> QED
        BY <4>2 DEF S
    <3> QED
      BY <2>2, <3>2
  <2> HIDE DEF leader
  <2>4. \A l \in active : leaders(l) = Firsts(group, label, l)
    <3> SUFFICES ASSUME NEW l \in active PROVE leaders(l) = Firsts(group, label, l)
      OBVIOUS
    <3>1. leaders(l) = {x \in Parent(d, l).mask : x = leader(x)}
      BY <2>1 DEF ballot
    <3>2. Firsts(group, label, l) = {x \in Parent(d, l).mask : x = Min(Alike(group, label, x))}
      BY DEF Firsts
    <3> HIDE DEF group, leaders
    <3> QED
      BY <2>1, <2>3, <3>1, <3>2
  <2> HIDE DEF leaders
  <2>5. ASSUME NEW l \in active
        PROVE  out[l] = [mask |-> Alike(group, label, l),
                         meta_rank |-> count(Below(Firsts(group, label, l), Min(Alike(group, label, l)))),
                         meta_size |-> count(Firsts(group, label, l))]
    <3>1. out[l] = made(l)
      OBVIOUS
    <3> HIDE DEF group, out
    <3> QED
      BY <2>2, <2>3, <2>4, <3>1
  <2>6. [l \in Warp |-> IF l \in active THEN made(l) ELSE NoGroup] = [l \in Warp |-> IF l \in active THEN out[l] ELSE NoGroup]
    <3> HIDE DEF made
    <3> QED
      OBVIOUS
  <2> HIDE DEF group, out
  <2>7. Partitioned("label", active, group, label, out) /\ Formed(active, out)
    BY <2>1, <2>5, LabelMakes
  <2> HIDE DEF made
  <2> QED
    BY <1>3, <2>6, <2>7, DeclareExact
<1> QED
  BY <1>1, <1>2, <1>3

-----------------------------------------------------------------------------
(* The collectives that leave the groups alone.                             *)

LEMMA ExchangeExact ==
  ASSUME GroupInv, UNCHANGED stack, PartitionByKey', GroupExchange', MaskedExchange'
  PROVE  GroupInv'
BY DEF GroupInv, StackTyped, GroupsAgree, GroupResultExact

LEMMA InputsAre == Inputs \subseteq RegisterFiles
BY GroupsAssumption DEF RegisterFiles, Registered, Half

LEMMA GreatestIs ==
  ASSUME NEW in \in RegisterFiles, NEW g \in SUBSET Warp, NEW v, Reduced("greater", in, g, v)
  PROVE  v = Max({in[x] : x \in g})
<1> DEFINE S == {in[x] : x \in g}
<1>1. v \in S /\ \A y \in S : v >= y
  <2>1. v \in Registered /\ \A x \in g : in[x] \in Registered
    BY DEF Reduced, RegisterFiles
  <2>2. v \in Int /\ \A x \in g : in[x] \in Int
    BY <2>1, HalfIs DEF Registered
  <2>3. (\E x \in g : v = in[x]) /\ \A x \in g : in[x] <= v
    BY DEF Reduced
  <2> QED
    BY <2>2, <2>3
<1>2. \A y \in S : y \in Int
  <2>1. \A x \in g : in[x] \in Registered
    BY DEF RegisterFiles
  <2> QED
    BY <2>1, HalfIs DEF Registered
<1> HIDE DEF S
<1>3. \A w \in S : (\A y \in S : w >= y) => w = v
  BY <1>1, <1>2
<1>4. Max(S) = v
  BY <1>1, <1>3 DEF Max
<1> QED
  BY <1>4 DEF S

LEMMA ShflStep ==
  ASSUME GroupInv, NEW d \in 1 .. Len(stack), NEW reg, NEW rank \in 0 .. Width - 1, GroupShfl(d, reg, rank)
  PROVE  GroupInv'
<1> DEFINE A == active
           group == [l \in A |-> Parent(d, l).mask]
           out == [l \in A |-> shfl(Parent(d, l), reg, rank)]
<1>1. \/ UNCHANGED <<stack, last>>
      \/ /\ \A l \in A : CanShfl(Parent(d, l), l, rank)
         /\ last' = [op |-> "shfl", in |-> reg, rank |-> rank, at |-> A, group |-> group, out |-> out]
         /\ UNCHANGED stack
  BY DEF GroupShfl, Collective
<1>2. CASE UNCHANGED <<stack, last>>
  BY <1>2, NoDeclare
<1>3. CASE /\ \A l \in A : CanShfl(Parent(d, l), l, rank)
           /\ last' = [op |-> "shfl", in |-> reg, rank |-> rank, at |-> A, group |-> group, out |-> out]
           /\ UNCHANGED stack
  <2>1. \A l \in A : members_active(Parent(d, l).mask, l) /\ HasMember(Parent(d, l).mask, rank)
    BY <1>3 DEF CanShfl
  <2>2. \A l \in A : Parent(d, l).mask \in SUBSET Warp /\ Parent(d, l).mask \subseteq A
    BY <2>1, DeclaredMeet
  <2>3. ASSUME NEW l \in A
        PROVE  \E m \in group[l] : /\ Cardinality({x \in group[l] : x < m}) = rank
                                   /\ out[l] = reg[m]
    <3> DEFINE S == Parent(d, l).mask
    <3>1. S \in SUBSET Warp /\ rank \in 0 .. count(S) - 1
      BY <2>1, <2>2 DEF HasMember
    <3>2. group[l] = S /\ out[l] = reg[member(S, rank)]
      BY DEF shfl
    <3> HIDE DEF S, group, out
    <3>3. member(S, rank) \in S /\ count(Below(S, member(S, rank))) = rank
      BY <3>1, MemberIs
    <3> QED
      BY <3>2, <3>3 DEF count, Below
  <2>4. last'.op = "shfl" /\ last'.at = A /\ last'.in = reg /\ last'.rank = rank /\ last'.group = group /\ last'.out = out
    BY <1>3
  <2>5. \A l \in A : group[l] \subseteq A
    BY <2>2
  <2> HIDE DEF A, group, out
  <2>6. GroupExchange'
    <3> SUFFICES ASSUME NEW l \in last'.at
                 PROVE  LET g == last'.group[l]
                        IN /\ g \subseteq last'.at
                           /\ \E m \in g : Cardinality({x \in g : x < m}) = last'.rank /\ last'.out[l] = last'.in[m]
      BY <2>4 DEF GroupExchange
    <3> QED
      BY <2>3, <2>4, <2>5
  <2>7. PartitionByKey' /\ MaskedExchange'
    BY <2>4 DEF PartitionByKey, MaskedExchange
  <2> QED
    BY <1>3, <2>6, <2>7, ExchangeExact
<1> QED
  BY <1>1, <1>2, <1>3

\* A reduction that left in every lane what its group reduces to.
LEMMA ReducedExact ==
  ASSUME GroupInv, UNCHANGED stack, NEW op \in {"plus", "greater"}, NEW reg \in RegisterFiles, NEW group, NEW out,
         last' = [op |-> op, in |-> reg, at |-> active, group |-> group, out |-> out],
         \A l \in active : group[l] \in SUBSET Warp /\ group[l] \subseteq active /\ Reduced(op, reg, group[l], out[l])
  PROVE  GroupInv'
<1> DEFINE A == active
<1>1. last'.op = op /\ last'.at = A /\ last'.in = reg /\ last'.group = group /\ last'.out = out
  OBVIOUS
<1>2. ASSUME NEW l \in A
      PROVE  /\ group[l] \subseteq A
             /\ op = "plus" => out[l] = Wrap(SumOver(reg, group[l]))
             /\ op = "greater" => out[l] = Max({reg[x] : x \in group[l]})
  <2>1. op = "greater" => out[l] = Max({reg[x] : x \in group[l]})
    BY GreatestIs
  <2> QED
    BY <2>1 DEF Reduced
<1> HIDE DEF A
<1>3. GroupExchange'
  <2> SUFFICES ASSUME NEW l \in last'.at
               PROVE  LET g == last'.group[l]
                      IN /\ g \subseteq last'.at
                         /\ last'.op = "plus" => last'.out[l] = Wrap(SumOver(last'.in, g))
                         /\ last'.op = "greater" => last'.out[l] = Max({last'.in[x] : x \in g})
    BY <1>1 DEF GroupExchange
  <2> QED
    BY <1>1, <1>2
<1>4. PartitionByKey' /\ MaskedExchange'
  BY <1>1 DEF PartitionByKey, MaskedExchange
<1> QED
  BY <1>3, <1>4, ExchangeExact

LEMMA ReduceStep ==
  ASSUME GroupInv, NEW d \in 1 .. Len(stack), NEW op \in {"plus", "greater"}, NEW reg \in Inputs, reduce_int(d, op, reg)
  PROVE  GroupInv'
<1> DEFINE group == [l \in active |-> Parent(d, l).mask]
           out == [l \in active |-> shfl(Parent(d, l), Passes(d, op, reg)[Width], 0)]
<1>1. \/ UNCHANGED <<stack, last>>
      \/ /\ \A l \in active : CanShfl(Parent(d, l), l, 0)
         /\ last' = [op |-> op, in |-> reg, at |-> active, group |-> group, out |-> out]
         /\ UNCHANGED stack
  BY DEF reduce_int, Collective
<1>2. CASE UNCHANGED <<stack, last>>
  BY <1>2, NoDeclare
<1>3. CASE /\ \A l \in active : CanShfl(Parent(d, l), l, 0)
           /\ last' = [op |-> op, in |-> reg, at |-> active, group |-> group, out |-> out]
           /\ UNCHANGED stack
  <2>1. reg \in RegisterFiles
    BY InputsAre
  <2>2. GroupsMeet(d) /\ \A l \in active : Parent(d, l).mask \in SUBSET Warp /\ Parent(d, l).mask \subseteq active
    BY <1>3, DeclaredMeet DEF CanShfl
  <2>3. \A l \in active : Reduced(op, reg, group[l], out[l])
    <3> SUFFICES ASSUME NEW l \in active PROVE Reduced(op, reg, group[l], out[l])
      OBVIOUS
    <3>1. Reduced(op, reg, Parent(d, l).mask, shfl(Parent(d, l), Passes(d, op, reg)[Width], 0))
      BY <2>1, <2>2, GroupReduces
    <3> QED
      BY <3>1
  <2>4. \A l \in active : group[l] \in SUBSET Warp /\ group[l] \subseteq active
    BY <2>2
  <2> HIDE DEF group, out
  <2> QED
    BY <1>3, <2>1, <2>3, <2>4, ReducedExact
<1> QED
  BY <1>1, <1>2, <1>3

LEMMA TileStep ==
  ASSUME GroupInv, NEW reg \in Inputs, TileReduce(reg)
  PROVE  GroupInv'
<1> DEFINE group == [l \in active |-> Warp]
           out == [l \in active |-> TilePasses(reg)[Width][0]]
<1>1. \/ UNCHANGED <<stack, last>>
      \/ /\ \A l \in active : active = Warp
         /\ last' = [op |-> "plus", in |-> reg, at |-> active, group |-> group, out |-> out]
         /\ UNCHANGED stack
  BY DEF TileReduce, Collective
<1>2. CASE UNCHANGED <<stack, last>>
  BY <1>2, NoDeclare
<1>3. CASE /\ \A l \in active : active = Warp
           /\ last' = [op |-> "plus", in |-> reg, at |-> active, group |-> group, out |-> out]
           /\ UNCHANGED stack
  <2>1. reg \in RegisterFiles
    BY InputsAre
  <2>2. \A l \in active : group[l] \in SUBSET Warp /\ group[l] \subseteq active /\ Reduced("plus", reg, group[l], out[l])
    <3> SUFFICES ASSUME NEW l \in active PROVE group[l] \in SUBSET Warp /\ group[l] \subseteq active /\ Reduced("plus", reg, group[l], out[l])
      OBVIOUS
    <3>1. active = Warp
      BY <1>3
    <3>2. Reduced("plus", reg, Warp, TilePasses(reg)[Width][0])
      BY <2>1, <3>1, TileReduces
    <3>3. group[l] = Warp /\ out[l] = TilePasses(reg)[Width][0]
      OBVIOUS
    <3> HIDE DEF group, out
    <3> QED
      BY <3>1, <3>2, <3>3
  <2> HIDE DEF group, out
  <2> QED
    BY <1>3, <2>1, <2>2, ReducedExact
<1> QED
  BY <1>1, <1>2, <1>3

-----------------------------------------------------------------------------
(* The masked collectives.                                                  *)

LEMMA BallotStep ==
  ASSUME GroupInv, NEW mask \in Masks, NEW pred \in Predicates, converged_ballot_sync(mask, pred)
  PROVE  GroupInv'
<1> DEFINE A == active
           out == [l \in A |-> ballot(pred) \cap mask[l]]
<1>1. \/ UNCHANGED <<stack, last>>
      \/ /\ \A l \in A : converged_mask(mask, l)
         /\ last' = [op |-> "ballot", in |-> pred, at |-> A, out |-> out]
         /\ UNCHANGED stack
  BY DEF converged_ballot_sync, Collective
<1>2. CASE UNCHANGED <<stack, last>>
  BY <1>2, NoDeclare
<1>3. CASE /\ \A l \in A : converged_mask(mask, l)
           /\ last' = [op |-> "ballot", in |-> pred, at |-> A, out |-> out]
           /\ UNCHANGED stack
  <2>1. last'.op = "ballot" /\ last'.in = pred /\ last'.at = A /\ last'.out = out
    BY <1>3
  <2>2. \A l \in A : out[l] = {m \in A : pred[m]}
    BY <1>3 DEF converged_mask, ballot
  <2> HIDE DEF A, out
  <2>3. MaskedExchange'
    <3>1. \A l \in last'.at : last'.out[l] = {m \in last'.at : last'.in[m]}
      BY <2>1, <2>2
    <3> QED
      BY <2>1, <3>1, Zenon DEF MaskedExchange
  <2>4. PartitionByKey' /\ GroupExchange'
    BY <2>1 DEF PartitionByKey, GroupExchange
  <2> QED
    BY <1>3, <2>3, <2>4, ExchangeExact
<1> QED
  BY <1>1, <1>2, <1>3

LEMMA SegmentIs ==
  ASSUME NEW l \in Warp, NEW w \in Nat \ {0}
  PROVE  Segment(l, w) \in Int /\ Segment(l, w) <= l /\ l < Segment(l, w) + w
<1> DEFINE q == l \div w
           r == l % w
<1>1. l \in Int
  BY WidthIs DEF Warp
<1>2. q \in Int /\ r \in 0 .. w - 1 /\ l = w * q + r
  BY <1>1, Division
<1> HIDE DEF q, r
<1>3. q * w = w * q /\ w * q \in Int
  BY <1>2
<1>4. Segment(l, w) = w * q
  BY <1>3 DEF Segment, q
<1> QED
  BY <1>1, <1>2, <1>3, <1>4

LEMMA DeltasAre ==
  /\ \A delta \in DeltaVectors : \A l \in Warp : delta[l] \in Nat
  /\ \A w \in Widths : w \in Nat \ {0} /\ w <= Width
<1>1. Width \in Nat /\ Width >= 2 /\ \A l \in Warp : l \in Nat
  BY WidthIs DEF Warp
<1> QED
  BY <1>1 DEF DeltaVectors, Widths

LEMMA UpIs ==
  ASSUME active \in SUBSET Warp, NEW reg, NEW l \in active, NEW delta \in Nat, NEW w \in Nat \ {0}, w <= Width,
         CudaSource("up", l, delta, w) \in active
  PROVE  asc_shfl_up(reg, l, IF delta >= w THEN 0 ELSE delta, w) = reg[CudaSource("up", l, delta, w)]
<1> DEFINE s == Segment(l, w)
           n == IF delta >= w THEN 0 ELSE delta
           from == CudaSource("up", l, delta, w)
<1>1. l \in Int /\ Width \in Nat /\ Width >= 2 /\ n \in Nat /\ n < Width
  BY WidthIs DEF Warp
<1>2. s \in Int /\ s <= l /\ l < s + w
  BY SegmentIs
<1>3. from = IF l - delta >= s THEN l - delta ELSE l
  <2>1. l - delta \in s .. s + w - 1 <=> l - delta >= s
    BY <1>1, <1>2
  <2> QED
    BY <2>1 DEF CudaSource
<1>4. asc_shfl_up(reg, l, n, w) = IF l - n < s THEN reg[l] ELSE Read(reg, l - n)
  BY <1>1 DEF asc_shfl_up
<1> HIDE DEF s
<1>5. CASE l - delta >= s
  <2>1. n = delta /\ ~(l - n < s) /\ from = l - n
    BY <1>1, <1>2, <1>3, <1>5
  <2> QED
    BY <1>4, <2>1 DEF Read
<1>6. CASE ~(l - delta >= s)
  <2>1. from = l
    BY <1>3, <1>6
  <2>2. l - n < s \/ l - n = l
    BY <1>1, <1>2, <1>6
  <2>3. Read(reg, l) = reg[l]
    BY DEF Read
  <2> HIDE DEF n
  <2> QED
    BY <1>4, <2>1, <2>2, <2>3 DEF n
<1> QED
  BY <1>5, <1>6

LEMMA DownIs ==
  ASSUME active \in SUBSET Warp, NEW reg, NEW l \in active, NEW delta \in Nat, NEW w \in Nat \ {0}, delta < Width,
         CudaSource("down", l, delta, w) \in active
  PROVE  asc_shfl_down(reg, l, delta, w) = reg[CudaSource("down", l, delta, w)]
<1> DEFINE s == Segment(l, w)
           from == CudaSource("down", l, delta, w)
<1>1. l \in Int /\ Width \in Nat
  BY WidthIs DEF Warp
<1>2. s \in Int /\ s <= l /\ l < s + w
  BY SegmentIs
<1>3. from = IF l + delta >= s + w THEN l ELSE l + delta
  <2>1. l + delta \in s .. s + w - 1 <=> ~(l + delta >= s + w)
    BY <1>1, <1>2
  <2> QED
    BY <2>1 DEF CudaSource
<1>4. asc_shfl_down(reg, l, delta, w) = IF l + delta >= s + w THEN reg[l] ELSE Read(reg, l + delta)
  BY <1>1 DEF asc_shfl_down
<1> HIDE DEF s
<1> QED
  BY <1>3, <1>4 DEF Read

LEMMA ShuffleExact ==
  ASSUME GroupInv, UNCHANGED stack, NEW op \in {"up", "down"}, NEW reg, NEW delta, NEW w, NEW out,
         last' = [op |-> op, in |-> reg, delta |-> delta, width |-> w, at |-> active, out |-> out],
         \A l \in active :
           /\ CudaSource(op, l, delta[l], w) \in active
           /\ op = "up" \/ delta[l] < Width
           => out[l] = reg[CudaSource(op, l, delta[l], w)]
  PROVE  GroupInv'
<1> DEFINE A == active
<1>1. last'.op = op /\ last'.at = A /\ last'.in = reg /\ last'.delta = delta /\ last'.width = w /\ last'.out = out
  OBVIOUS
<1> HIDE DEF A
<1>2. MaskedExchange'
  <2>1. last'.op # "ballot"
    BY <1>1
  <2>2. ASSUME NEW l \in last'.at
        PROVE  LET from == CudaSource(last'.op, l, last'.delta[l], last'.width)
               IN  (from \in last'.at /\ (last'.op = "up" \/ last'.delta[l] < Width)) => last'.out[l] = last'.in[from]
    BY <1>1, <2>2 DEF A
  <2> QED
    BY <2>1, <2>2, Zenon DEF MaskedExchange
<1>3. PartitionByKey' /\ GroupExchange'
  BY <1>1 DEF PartitionByKey, GroupExchange
<1> QED
  BY <1>2, <1>3, ExchangeExact

LEMMA UpStep ==
  ASSUME GroupInv, NEW mask, NEW delta \in DeltaVectors, NEW w \in Widths, NEW reg,
         converged_shfl_up_sync(mask, reg, delta, w)
  PROVE  GroupInv'
<1> DEFINE native_delta(l) == IF delta[l] >= w THEN 0 ELSE delta[l]
           out == [l \in active |-> asc_shfl_up(reg, l, native_delta(l), w)]
<1>1. \/ UNCHANGED <<stack, last>>
      \/ /\ last' = [op |-> "up", in |-> reg, delta |-> delta, width |-> w, at |-> active, out |-> out]
         /\ UNCHANGED stack
  BY DEF converged_shfl_up_sync, Collective
<1>2. CASE UNCHANGED <<stack, last>>
  BY <1>2, NoDeclare
<1>3. CASE /\ last' = [op |-> "up", in |-> reg, delta |-> delta, width |-> w, at |-> active, out |-> out]
           /\ UNCHANGED stack
  <2>1. active \in SUBSET Warp /\ w \in Nat \ {0} /\ w <= Width
    BY FramesAre, DeltasAre DEF GroupInv
  <2>2. \A l \in active : CudaSource("up", l, delta[l], w) \in active => out[l] = reg[CudaSource("up", l, delta[l], w)]
    BY <2>1, DeltasAre, UpIs
  <2> HIDE DEF out
  <2> QED
    BY <1>3, <2>2, ShuffleExact
<1> QED
  BY <1>1, <1>2, <1>3

LEMMA DownStep ==
  ASSUME GroupInv, NEW mask, NEW delta \in DeltaVectors, NEW w \in Widths, NEW reg,
         converged_shfl_down_sync(mask, reg, delta, w)
  PROVE  GroupInv'
<1> DEFINE out == [l \in active |-> asc_shfl_down(reg, l, delta[l], w)]
<1>1. \/ UNCHANGED <<stack, last>>
      \/ /\ last' = [op |-> "down", in |-> reg, delta |-> delta, width |-> w, at |-> active, out |-> out]
         /\ UNCHANGED stack
  BY DEF converged_shfl_down_sync, Collective
<1>2. CASE UNCHANGED <<stack, last>>
  BY <1>2, NoDeclare
<1>3. CASE /\ last' = [op |-> "down", in |-> reg, delta |-> delta, width |-> w, at |-> active, out |-> out]
           /\ UNCHANGED stack
  <2>1. active \in SUBSET Warp /\ w \in Nat \ {0}
    BY FramesAre, DeltasAre DEF GroupInv
  <2>2. \A l \in active : CudaSource("down", l, delta[l], w) \in active /\ delta[l] < Width
                            => out[l] = reg[CudaSource("down", l, delta[l], w)]
    BY <2>1, DeltasAre, DownIs
  <2> HIDE DEF out
  <2> QED
    BY <1>3, <2>2, ShuffleExact
<1> QED
  BY <1>1, <1>2, <1>3

-----------------------------------------------------------------------------
LEMMA GroupInit_Inv == GroupInit => GroupInv
<1> SUFFICES ASSUME GroupInit PROVE GroupInv
  OBVIOUS
<1> DEFINE frame == [lanes |-> Warp, group |-> [l \in Warp |-> NoGroup]]
<1>1. stack = <<frame>> /\ last = Nothing
  BY DEF GroupInit
<1>2. frame \in Frames
  BY NoGroupIs DEF Frames
<1>3. \A l \in Warp : frame.group[l].mask = {}
  BY NoGroupIs
<1> HIDE DEF frame
<1>4. StackTyped /\ Len(stack) = 1 /\ stack[1] = frame
  BY <1>1, <1>2 DEF StackTyped
<1>5. GroupsAgree
  BY <1>3, <1>4 DEF GroupsAgree
<1>6. last.op = "none"
  BY <1>1 DEF Nothing
<1>7. GroupResultExact
  BY <1>6 DEF GroupResultExact, PartitionByKey, GroupExchange, MaskedExchange
<1> QED
  BY <1>4, <1>5, <1>7 DEF GroupInv

LEMMA DivergeStep ==
  ASSUME GroupInv, NEW taken \in Branches, Diverge(taken)
  PROVE  GroupInv'
<1> DEFINE frame == [lanes |-> taken, group |-> [l \in Warp |-> NoGroup]]
           n == Len(stack)
<1>1. stack' = Append(stack, frame) /\ last' = last /\ last = Nothing /\ taken \in SUBSET Warp
  BY FramesAre DEF Diverge, GroupInv
<1>2. frame \in Frames
  BY <1>1, NoGroupIs DEF Frames
<1>3. \A l \in Warp : frame.group[l].mask = {}
  BY NoGroupIs
<1>4. stack \in Seq(Frames) /\ n \in Nat /\ n >= 1
  BY DEF GroupInv, StackTyped
<1> HIDE DEF frame, n
<1>5. stack' \in Seq(Frames) /\ Len(stack') = n + 1 /\ stack'[n + 1] = frame /\ \A d \in 1 .. n : stack'[d] = stack[d]
  BY <1>1, <1>2, <1>4 DEF n
<1>6. StackTyped'
  BY <1>4, <1>5 DEF StackTyped
<1>7. GroupsAgree'
  <2> SUFFICES ASSUME NEW d \in 1 .. n + 1, NEW l \in Warp, NEW m \in stack'[d].group[l].mask
               PROVE  stack'[d].group[m] = stack'[d].group[l]
    BY <1>5 DEF GroupsAgree
  <2>1. d # n + 1
    BY <1>3, <1>5
  <2>2. d \in 1 .. n /\ stack'[d] = stack[d]
    BY <1>4, <1>5, <2>1
  <2> QED
    BY <2>2 DEF GroupInv, GroupsAgree, n
<1>8. last'.op = "none"
  BY <1>1 DEF Nothing
<1>9. GroupResultExact'
  BY <1>8 DEF GroupResultExact, PartitionByKey, GroupExchange, MaskedExchange
<1> QED
  BY <1>6, <1>7, <1>9 DEF GroupInv

LEMMA ReconvergeStep ==
  ASSUME GroupInv, Reconverge
  PROVE  GroupInv'
<1> DEFINE n == Len(stack)
<1>1. stack' = Front(stack) /\ last' = last /\ last = Nothing /\ n > 1 /\ stack \in Seq(Frames) /\ n \in Nat
  BY DEF Reconverge, GroupInv, StackTyped
<1>2. stack' = SubSeq(stack, 1, n - 1)
  BY <1>1 DEF Front
<1>3. stack' \in Seq(Frames) /\ Len(stack') = n - 1 /\ \A d \in 1 .. n - 1 : stack'[d] = stack[d]
  BY <1>1, <1>2
<1> HIDE DEF n
<1>4. StackTyped'
  BY <1>1, <1>3 DEF StackTyped
<1>5. GroupsAgree'
  <2> SUFFICES ASSUME NEW d \in 1 .. n - 1, NEW l \in Warp, NEW m \in stack'[d].group[l].mask
               PROVE  stack'[d].group[m] = stack'[d].group[l]
    BY <1>3 DEF GroupsAgree
  <2>1. d \in 1 .. n /\ stack'[d] = stack[d]
    BY <1>1, <1>3
  <2> QED
    BY <2>1 DEF GroupInv, GroupsAgree, n
<1>6. last'.op = "none"
  BY <1>1 DEF Nothing
<1>7. GroupResultExact'
  BY <1>6 DEF GroupResultExact, PartitionByKey, GroupExchange, MaskedExchange
<1> QED
  BY <1>4, <1>5, <1>7 DEF GroupInv

LEMMA ContinueStep == ASSUME GroupInv, Continue PROVE GroupInv'
<1>1. stack' = stack /\ last' = Nothing
  BY DEF Continue
<1>2. last'.op = "none"
  BY <1>1 DEF Nothing
<1>3. PartitionByKey' /\ GroupExchange' /\ MaskedExchange'
  BY <1>2 DEF PartitionByKey, GroupExchange, MaskedExchange
<1> QED
  BY <1>1, <1>3, ExchangeExact

LEMMA GroupNext_Inv == ASSUME GroupInv, [GroupNext]_groupVars PROVE GroupInv'
<1>1. ASSUME NEW taken \in Branches, Diverge(taken) PROVE GroupInv'
  BY <1>1, DivergeStep
<1>2. CASE Reconverge
  BY <1>2, ReconvergeStep
<1>3. CASE Continue
  BY <1>3, ContinueStep
<1>4. CASE coalesced_threads
  BY <1>4, ThreadsStep
<1>5. ASSUME NEW pred \in Predicates, binary_partition_tile(pred) PROVE GroupInv'
  BY <1>5, BinaryTileStep
<1>6. ASSUME NEW pred \in Predicates, NEW d \in 1 .. Len(stack), binary_partition(d, pred) PROVE GroupInv'
  BY <1>6, BinaryStep
<1>7. ASSUME NEW pred \in Predicates, NEW mask \in Masks, converged_ballot_sync(mask, pred) PROVE GroupInv'
  BY <1>7, BallotStep
<1>8. ASSUME NEW d \in 1 .. Len(stack), NEW label \in LabelVectors, labeled_partition(d, label) PROVE GroupInv'
  BY <1>8, LabelStep
<1>9. ASSUME NEW reg \in Inputs, TileReduce(reg) PROVE GroupInv'
  BY <1>9, TileStep
<1>10. ASSUME NEW reg \in Inputs, NEW d \in 1 .. Len(stack), NEW op \in {"plus", "greater"}, reduce_int(d, op, reg)
       PROVE  GroupInv'
  BY <1>10, ReduceStep
<1>11. ASSUME NEW d \in 1 .. Len(stack), NEW rank \in 0 .. (Width - 1), GroupShfl(d, Registers, rank) PROVE GroupInv'
  BY <1>11, ShflStep
<1>12. ASSUME NEW mask \in Masks, NEW delta \in DeltaVectors, NEW width \in Widths,
              converged_shfl_up_sync(mask, Registers, delta, width)
       PROVE  GroupInv'
  BY <1>12, UpStep
<1>13. ASSUME NEW mask \in Masks, NEW delta \in DeltaVectors, NEW width \in Widths,
              converged_shfl_down_sync(mask, Registers, delta, width)
       PROVE  GroupInv'
  BY <1>13, DownStep
<1>14. CASE UNCHANGED groupVars
  BY <1>14, NoDeclare DEF groupVars
<1> QED
  BY <1>1, <1>2, <1>3, <1>4, <1>5, <1>6, <1>7, <1>8, <1>9, <1>10, <1>11, <1>12, <1>13, <1>14 DEF GroupNext

-----------------------------------------------------------------------------
\* Every collective of a warp gives each lane what CUDA defines: groups are
\* formed, exchanged and reduced within exactly, on warps and registers of
\* any power of two and after any nesting of branches.
THEOREM CollectivesAreExact == GroupSpec => []GroupResultExact
<1>1. GroupInv /\ [GroupNext]_groupVars => GroupInv'
  BY GroupNext_Inv
<1>2. GroupInv => GroupResultExact
  BY DEF GroupInv
<1> QED
  BY <1>1, <1>2, GroupInit_Inv, PTL DEF GroupSpec
=============================================================================
