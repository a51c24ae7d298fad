--------------------------- MODULE TextureRegistry ---------------------------
(***************************************************************************)
(* The host bookkeeping of texture objects in translated programs          *)
(* (include/ascify/texture_compat.hpp) and of ordinary allocations         *)
(* (ascify_cuda_compat.hpp): two fixed tables behind two spin locks, taken *)
(* in the order allocation registry, texture registry.  Host threads       *)
(* allocate, free, create and destroy views, and reset their device; every *)
(* ACL call (external) may fail.  Geometry, channels and filters are left  *)
(* out: they only decide whether a view is refused.                        *)
(*                                                                         *)
(* A generation number tells one allocation at an address from the next;   *)
(* the code has none, the properties are about it.                         *)
(***************************************************************************)
EXTENDS Naturals, FiniteSets

CONSTANTS
  Threads, Bindings,           \* host threads and the contexts they may work in
  Addresses, Descriptors,      \* device memory for storage and for descriptors
  Owners, Records, Handles,    \* sizes of the three tables (128 each)
  MaxCalls                     \* bound on the calls made

None == "none"

ASSUME RegistryAssumption ==
  /\ Owners \in Nat /\ Records \in Nat /\ Handles \in Nat /\ MaxCalls \in Nat
  /\ None \notin Threads \cup Addresses \cup Descriptors
  /\ \A b \in Bindings : DOMAIN b = Threads /\ \A t \in Threads : b[t] # None

VARIABLES
  context,     \* the context each thread is bound to
  heap,        \* storage: kind, generation and context of each address
  desc,        \* descriptors in device memory
  owner,       \* RuntimeAllocationRegistry::records
  record,      \* TextureRegistry::allocations
  handle,      \* TextureRegistry::handles
  hooks,       \* is runtimeTextureHooks installed?
  aLock, tLock,          \* holders of the two locks
  pc, ptr, rec, ret,     \* per thread: label, argument, record at hand, status
  calls

tables == <<owner, record, handle>>
vars == <<context, heap, desc, owner, record, handle, hooks, aLock, tLock, pc, ptr, rec,
          ret, calls>>

Free == [kind |-> "free", gen |-> 0, ctx |-> None]
NoDesc == [live |-> FALSE, valid |-> FALSE, data |-> None, gen |-> 0, ctx |-> None]
NoOwner == [pointer |-> None, gen |-> 0, ctx |-> None]
NoRecord == [storage |-> None, ctx |-> None, refs |-> 0, array |-> FALSE]
NoHandle == [descriptor |-> None, allocation |-> 0]

Init ==
  /\ context \in Bindings
  /\ heap = [a \in Addresses |-> Free] /\ desc = [d \in Descriptors |-> NoDesc]
  /\ owner = [i \in 1..Owners |-> NoOwner]
  /\ record = [i \in 1..Records |-> NoRecord]
  /\ handle = [i \in 1..Handles |-> NoHandle]
  /\ hooks = FALSE /\ aLock = None /\ tLock = None
  /\ pc = [t \in Threads |-> "idle"] /\ ptr = [t \in Threads |-> None]
  /\ rec = [t \in Threads |-> 0] /\ ret = [t \in Threads |-> "none"]
  /\ calls = 0

-----------------------------------------------------------------------------
(* Lookups and small steps *)

\* The first slot of a table that satisfies P, or 0.
First(S) == IF S = {} THEN 0 ELSE CHOOSE i \in S : \A j \in S : i <= j

FreeOwner == First({i \in 1..Owners : owner[i].pointer = None})
OwnerOf(p) == First({i \in 1..Owners : owner[i].pointer = p})

FreeRecord == First({i \in 1..Records : record[i].storage = None /\ record[i].refs = 0})
texturePointer(p) ==
  First({i \in 1..Records : record[i].storage = p /\ ~record[i].array})
FreeHandle == First({i \in 1..Handles : handle[i].descriptor = None})
HandleOf(d) == First({i \in 1..Handles : handle[i].descriptor = d})
Viewing(i) == {h \in 1..Handles :
                 handle[h].descriptor # None /\ handle[h].allocation = i}

textureOwned(t, i) == record[i].ctx = context[t]

NextGen == calls + 1

GoTo(t, label) == pc' = [pc EXCEPT ![t] = label] /\ UNCHANGED ret

Return(t, status) ==
  pc' = [pc EXCEPT ![t] = "idle"] /\ ret' = [ret EXCEPT ![t] = status]

Unlock(lock, t) == IF lock = t THEN None ELSE lock
UnlockBoth(t) == aLock' = Unlock(aLock, t) /\ tLock' = Unlock(tLock, t)

\* A host call on a pointer, an array slot or a descriptor.
Call(t, label, argument) ==
  /\ pc[t] = "idle" /\ calls < MaxCalls
  /\ pc' = [pc EXCEPT ![t] = label] /\ ptr' = [ptr EXCEPT ![t] = argument]
  /\ calls' = calls + 1
  /\ UNCHANGED <<heap, desc, tables, hooks, aLock, tLock, rec, ret, context>>

\* What a program may name: pointers of live allocations and live arrays.  It
\* may race views with frees, but frees nothing twice.
Pointers == {a \in Addresses : heap[a].kind \in {"plain", "pitch"}}
Freeing(x) ==
  \E u \in Threads :
    pc[u] \in {"free", "freeHook", "freeRaw", "freeArray", "invalidate"} /\ ptr[u] = x

\* Is thread u at work on the device of context k, or is k being reset?
WorksOn(u, k) ==
  \/ pc[u] # "idle" /\ context[u] = k
  \/ pc[u] \in {"view", "viewLocked", "free", "freeHook", "freeRaw"}
     /\ heap[ptr[u]].ctx = k
  \/ pc[u] \in {"viewArray", "viewArrayLocked", "freeArray"} /\ record[ptr[u]].ctx = k
  \/ pc[u] = "destroy" /\ desc[ptr[u]].ctx = k
Resetting(k) ==
  \E u \in Threads :
    pc[u] \in {"reset", "afterReset", "clearOwners"} /\ context[u] = k

\* "Concurrent reset while other threads use the device is outside the CUDA
\* reset precondition."
Calls(t) ==
  /\ ~Resetting(context[t])
  /\ \/ Call(t, "malloc", None) \/ Call(t, "allocate", "array")
     \/ Call(t, "allocate", "pitch")
     \/ \E a \in Pointers :
          /\ ~Resetting(heap[a].ctx)
          /\ Call(t, "view", a) \/ (~Freeing(a) /\ Call(t, "free", a))
     \/ \E i \in 1..Records :
          /\ record[i].array /\ ~Resetting(record[i].ctx)
          /\ Call(t, "viewArray", i) \/ (~Freeing(i) /\ Call(t, "freeArray", i))
     \/ \E d \in Descriptors : ~Resetting(desc[d].ctx) /\ Call(t, "destroy", d)
     \/ (\A u \in Threads \ {t} : ~WorksOn(u, context[t])) /\ Call(t, "reset", None)

\* Not ready, or textureCurrent fails before anything is locked.
NotReady(t) ==
  /\ pc[t] \in {"malloc", "allocate", "free", "view", "freeArray", "viewArray",
                "destroy", "reset"}
  /\ Return(t, "error")
  /\ UNCHANGED <<heap, desc, tables, hooks, aLock, tLock, ptr, rec, calls, context>>

-----------------------------------------------------------------------------
(* Allocation *)

\* The owner is recorded if there is room and the context query succeeds.
RecordOwner(a, k) ==
  /\ FreeOwner # 0
  /\ owner' = [owner EXCEPT ![FreeOwner] = [pointer |-> a, gen |-> NextGen, ctx |-> k]]

\* cudaMalloc: the allocation succeeds whether or not its owner is recorded.
Malloc(t) ==
  /\ pc[t] = "malloc" /\ aLock = None
  /\ \/ Return(t, "error") /\ UNCHANGED <<heap, owner>>
     \/ \E a \in Addresses :
          /\ heap[a] = Free
          /\ heap' = [heap EXCEPT ![a] =
                        [kind |-> "plain", gen |-> NextGen, ctx |-> context[t]]]
          /\ UNCHANGED owner \/ RecordOwner(a, context[t])
          /\ Return(t, "ok")
  /\ UNCHANGED <<desc, record, handle, hooks, aLock, tLock, ptr, rec, calls, context>>

\* textureAllocate, under the allocation lock: the hooks are installed.
AllocateLock(t) ==
  /\ pc[t] = "allocate" /\ aLock = None
  /\ aLock' = t /\ hooks' = TRUE
  /\ GoTo(t, "allocateLocked")
  /\ UNCHANGED <<heap, desc, tables, tLock, ptr, rec, calls, context>>

\* ... then under both: a free slot, the storage, the record.
Allocate(t) ==
  /\ pc[t] = "allocateLocked" /\ tLock = None
  /\ \/ Return(t, "error") /\ UNCHANGED <<heap, record>>
     \/ \E a \in Addresses :
          /\ heap[a] = Free /\ FreeRecord # 0
          /\ heap' = [heap EXCEPT ![a] =
                        [kind |-> ptr[t], gen |-> NextGen, ctx |-> context[t]]]
          /\ record' = [record EXCEPT ![FreeRecord] =
               [storage |-> a, ctx |-> context[t], refs |-> 0,
                array |-> ptr[t] = "array"]]
          /\ Return(t, "ok")
  /\ UnlockBoth(t)
  /\ UNCHANGED <<desc, owner, handle, hooks, ptr, rec, calls, context>>

-----------------------------------------------------------------------------
(* Freeing *)

\* cudaFree: the hooks are read under the allocation lock.
FreeLock(t) ==
  /\ pc[t] = "free" /\ aLock = None
  /\ aLock' = t
  /\ GoTo(t, IF hooks THEN "freeHook" ELSE "freeRaw")
  /\ UNCHANGED <<heap, desc, tables, hooks, tLock, ptr, rec, calls, context>>

\* textureFreeAllocation: not a texture allocation, refused, or to release.
FreeHook(t) ==
  /\ pc[t] = "freeHook" /\ tLock = None
  /\ LET i == texturePointer(ptr[t]) IN
     \/ /\ i = 0 /\ GoTo(t, "freeRaw")
        /\ UNCHANGED <<aLock, tLock, rec>>
     \/ /\ i # 0 /\ Return(t, "error")
        /\ UnlockBoth(t) /\ UNCHANGED rec
     \/ /\ i # 0 /\ textureOwned(t, i)
        /\ tLock' = t /\ rec' = [rec EXCEPT ![t] = i]
        /\ GoTo(t, "invalidate") /\ UNCHANGED aLock
  /\ UNCHANGED <<heap, desc, tables, hooks, ptr, calls, context>>

\* cudaFreeArray: the texture lock only.
FreeArrayLock(t) ==
  /\ pc[t] = "freeArray" /\ tLock = None
  /\ LET i == ptr[t] IN
     \/ Return(t, "error") /\ UNCHANGED <<tLock, rec>>
     \/ /\ record[i].storage # None /\ record[i].array /\ textureOwned(t, i)
        /\ tLock' = t /\ rec' = [rec EXCEPT ![t] = i]
        /\ GoTo(t, "invalidate")
  /\ UNCHANGED <<heap, desc, tables, hooks, aLock, ptr, calls, context>>

\* Mutant: cudaFree keeps the provenance of what it freed.
MutForgetOwner(p) == owner

\* The table without the owner record of a pointer.
ForgetOwner(p) == [i \in 1..Owners |-> IF owner[i].pointer = p THEN NoOwner ELSE owner[i]]

\* cudaFree without a texture record.
FreeRaw(t) ==
  /\ pc[t] = "freeRaw"
  /\ \/ Return(t, "error") /\ UNCHANGED <<heap, owner>>
     \/ /\ heap[ptr[t]] # Free
        /\ heap' = [heap EXCEPT ![ptr[t]] = Free]
        /\ owner' = ForgetOwner(ptr[t])
        /\ Return(t, "ok")
  /\ UnlockBoth(t)
  /\ UNCHANGED <<desc, record, handle, hooks, ptr, rec, calls, context>>

ToInvalidate(t) == {h \in Viewing(rec[t]) : desc[handle[h].descriptor].valid}

\* textureReleaseStorage: every descriptor is invalidated, one copy each.
Invalidate(t) ==
  /\ pc[t] = "invalidate" /\ ToInvalidate(t) # {}
  /\ desc' = [desc EXCEPT ![handle[First(ToInvalidate(t))].descriptor].valid = FALSE]
  /\ UNCHANGED <<heap, tables, hooks, aLock, tLock, pc, ptr, rec, ret, calls, context>>

\* The synchronization, a copy or the free fails; the storage is kept.
ReleaseFails(t) ==
  /\ pc[t] = "invalidate"
  /\ Return(t, "error") /\ UnlockBoth(t)
  /\ UNCHANGED <<heap, desc, tables, hooks, ptr, rec, calls, context>>

\* Mutant: the storage is freed before the descriptors are invalidated.
MutReleased(t) == pc[t] = "invalidate"

\* Every referring descriptor is invalid by now.
Released(t) == pc[t] = "invalidate" /\ ToInvalidate(t) = {}

\* A record without storage stays while texture objects refer to it.
Retire(r) == IF r.refs = 0 THEN NoRecord ELSE [r EXCEPT !.storage = None]

ReleaseStorage(t) ==
  /\ Released(t)
  /\ LET i == rec[t] IN
     /\ heap' = [heap EXCEPT ![record[i].storage] = Free]
     /\ owner' = IF aLock = t THEN ForgetOwner(record[i].storage) ELSE owner
     /\ record' = [record EXCEPT ![i] = Retire(@)]
  /\ Return(t, "ok") /\ UnlockBoth(t)
  /\ UNCHANGED <<desc, handle, hooks, ptr, rec, calls, context>>

-----------------------------------------------------------------------------
(* Texture objects *)

\* cudaCreateTextureObject takes the allocation lock, then the texture lock.
ViewLock(t) ==
  /\ pc[t] \in {"view", "viewArray"} /\ aLock = None
  /\ aLock' = t
  /\ GoTo(t, IF pc[t] = "view" THEN "viewLocked" ELSE "viewArrayLocked")
  /\ UNCHANGED <<heap, desc, tables, hooks, tLock, ptr, rec, calls, context>>

\* A record owned by this context, or refused.
ViewRecord(t, i) ==
  /\ \/ Return(t, "error") /\ UnlockBoth(t) /\ UNCHANGED rec
     \/ /\ i # 0 /\ textureOwned(t, i)
        /\ tLock' = t /\ rec' = [rec EXCEPT ![t] = i]
        /\ GoTo(t, "describe") /\ UNCHANGED aLock
  /\ UNCHANGED <<heap, desc, tables, hooks, ptr, calls, context>>

ViewArray(t) ==
  /\ pc[t] = "viewArrayLocked" /\ tLock = None
  /\ ViewRecord(t, IF record[ptr[t]].storage # None /\ record[ptr[t]].array
                   THEN ptr[t] ELSE 0)

ViewPitch(t) ==
  /\ pc[t] = "viewLocked" /\ tLock = None /\ texturePointer(ptr[t]) # 0
  /\ ViewRecord(t, texturePointer(ptr[t]))

Describing == {"describe", "describeNew"}

\* An ordinary allocation: a borrowed record is published for its owner.
ViewBorrowed(t) ==
  /\ pc[t] = "viewLocked" /\ tLock = None /\ texturePointer(ptr[t]) = 0
  /\ LET o == OwnerOf(ptr[t]) IN
     \/ /\ Return(t, "error") /\ UnlockBoth(t)
        /\ UNCHANGED <<record, hooks, rec>>
     \/ /\ o # 0 /\ FreeRecord # 0 /\ owner[o].ctx = context[t]
        /\ record' = [record EXCEPT ![FreeRecord] =
             [storage |-> ptr[t], ctx |-> context[t], refs |-> 0, array |-> FALSE]]
        /\ hooks' = TRUE
        /\ tLock' = t /\ rec' = [rec EXCEPT ![t] = FreeRecord]
        /\ GoTo(t, "describeNew") /\ UNCHANGED aLock
  /\ UNCHANGED <<heap, desc, owner, handle, ptr, calls, context>>

\* Refused by the read mode, no free handle, or no descriptor memory.
DescribeFails(t) ==
  /\ pc[t] \in Describing
  /\ Return(t, "error") /\ UnlockBoth(t)
  /\ UNCHANGED <<heap, desc, tables, hooks, ptr, rec, calls, context>>

\* The copy to the descriptor fails and so does freeing it: it is leaked.
DescribeLeaks(t) ==
  /\ pc[t] \in Describing /\ FreeHandle # 0
  /\ \E d \in Descriptors :
       /\ ~desc[d].live
       /\ desc' = [desc EXCEPT ![d] = [NoDesc EXCEPT !.live = TRUE, !.ctx = context[t]]]
  /\ Return(t, "error") /\ UnlockBoth(t)
  /\ UNCHANGED <<heap, tables, hooks, ptr, rec, calls, context>>

\* Mutant: the reference is not counted.
MutCounted(r) == r

Counted(r) == [r EXCEPT !.refs = @ + 1]

Describe(t) ==
  /\ pc[t] \in Describing /\ FreeHandle # 0
  /\ LET i == rec[t] IN
     \E d \in Descriptors :
       /\ ~desc[d].live
       /\ desc' = [desc EXCEPT ![d] =
            [live |-> TRUE, valid |-> TRUE, data |-> record[i].storage,
             gen |-> heap[record[i].storage].gen, ctx |-> context[t]]]
       /\ handle' = [handle EXCEPT ![FreeHandle] =
                       [descriptor |-> d, allocation |-> i]]
       /\ record' = [record EXCEPT ![i] = Counted(@)]
  /\ Return(t, "ok") /\ UnlockBoth(t)
  /\ UNCHANGED <<heap, owner, hooks, ptr, rec, calls, context>>

\* cudaDestroyTextureObject, under the texture lock.
DestroyFails(t) ==
  /\ pc[t] = "destroy" /\ tLock = None
  /\ Return(t, "error")
  /\ UNCHANGED <<heap, desc, tables, hooks, aLock, tLock, ptr, rec, calls, context>>

Uncounted(r) == IF r.refs = 1 /\ r.storage = None THEN NoRecord
                ELSE [r EXCEPT !.refs = @ - 1]

Destroy(t) ==
  /\ pc[t] = "destroy" /\ tLock = None
  /\ LET h == HandleOf(ptr[t]) IN
     /\ h # 0 /\ textureOwned(t, handle[h].allocation)
     /\ desc' = [desc EXCEPT ![ptr[t]] = NoDesc]
     /\ record' = [record EXCEPT ![handle[h].allocation] = Uncounted(@)]
     /\ handle' = [handle EXCEPT ![h] = NoHandle]
  /\ Return(t, "ok")
  /\ UNCHANGED <<heap, owner, hooks, aLock, tLock, ptr, rec, calls, context>>

-----------------------------------------------------------------------------
(* cudaDeviceReset: one device per context *)

\* The reset succeeds under the allocation lock, or fails and changes nothing.
ResetDevice(t) ==
  /\ pc[t] = "reset" /\ aLock = None
  /\ heap' = [a \in Addresses |-> IF heap[a].ctx = context[t] THEN Free ELSE heap[a]]
  /\ desc' = [d \in Descriptors |-> IF desc[d].ctx = context[t] THEN NoDesc ELSE desc[d]]
  /\ aLock' = t /\ GoTo(t, IF hooks THEN "afterReset" ELSE "clearOwners")
  /\ UNCHANGED <<tables, hooks, tLock, ptr, rec, calls, context>>

\* What the reset of t's device takes with it, live or retired.
Discarded(t, r) == r.ctx = context[t]

\* textureAfterReset, under the texture lock.
AfterReset(t) ==
  /\ pc[t] = "afterReset" /\ tLock = None
  /\ handle' = [h \in 1..Handles |->
       IF handle[h].descriptor # None /\ textureOwned(t, handle[h].allocation)
       THEN NoHandle ELSE handle[h]]
  /\ record' = [i \in 1..Records |->
       IF Discarded(t, record[i]) THEN NoRecord ELSE record[i]]
  /\ GoTo(t, "clearOwners")
  /\ UNCHANGED <<heap, desc, owner, hooks, aLock, tLock, ptr, rec, calls, context>>

ClearOwners(t) ==
  /\ pc[t] = "clearOwners"
  /\ owner' = [i \in 1..Owners |->
                 IF owner[i].ctx = context[t] THEN NoOwner ELSE owner[i]]
  /\ Return(t, "ok") /\ UnlockBoth(t)
  /\ UNCHANGED <<heap, desc, record, handle, hooks, ptr, rec, calls, context>>

-----------------------------------------------------------------------------
Step(t) ==
  \/ NotReady(t) \/ Malloc(t) \/ AllocateLock(t) \/ Allocate(t)
  \/ FreeLock(t) \/ FreeHook(t) \/ FreeArrayLock(t) \/ FreeRaw(t)
  \/ Invalidate(t) \/ ReleaseFails(t) \/ ReleaseStorage(t)
  \/ ViewLock(t) \/ ViewArray(t) \/ ViewPitch(t) \/ ViewBorrowed(t)
  \/ DescribeFails(t) \/ DescribeLeaks(t) \/ Describe(t)
  \/ DestroyFails(t) \/ Destroy(t)
  \/ ResetDevice(t) \/ AfterReset(t) \/ ClearOwners(t)

Quiet == calls = MaxCalls /\ (\A t \in Threads : pc[t] = "idle") /\ UNCHANGED vars

Next == (\E t \in Threads : Calls(t) \/ Step(t)) \/ Quiet

Spec == Init /\ [][Next]_vars

-----------------------------------------------------------------------------
(* Properties *)

\* A descriptor the device would still accept reads the very allocation it was
\* created on: "A freed view cannot silently become a view of a later
\* allocation at the same address."
NoRetarget ==
  \A d \in Descriptors :
    desc[d].valid => desc[d].live /\ heap[desc[d].data].gen = desc[d].gen

\* Between calls the tables agree with each other and with device memory:
\* every reference is counted, every handle names its own live descriptor.
CountsAgree ==
  tLock = None /\ (\A t \in Threads : pc[t] \notin {"afterReset"}) =>
    /\ \A i \in 1..Records : record[i].refs = Cardinality(Viewing(i))
    /\ \A h \in 1..Handles :
         handle[h].descriptor # None => desc[handle[h].descriptor].live
    /\ \A g, h \in 1..Handles :
         g # h /\ handle[g].descriptor # None
           => handle[g].descriptor # handle[h].descriptor

\* The recorded extent of a pointer is the extent of the allocation that is at
\* this address now, never of one that was freed.
ProvenanceCurrent ==
  aLock = None =>
    \A i \in 1..Owners :
      owner[i].pointer # None => heap[owner[i].pointer].gen = owner[i].gen

\* When no texture object and no storage is left, no slot is lost.
SlotsReturn ==
  /\ aLock = None /\ tLock = None
  /\ \A a \in Addresses : heap[a] = Free
  /\ \A h \in 1..Handles : handle[h] = NoHandle
  => (\A i \in 1..Records : record[i] = NoRecord)
     /\ (\A i \in 1..Owners : owner[i] = NoOwner)

\* The three tables stay consistent through failed, retried and reordered frees,
\* destroys and resets, and empty again once everything is gone.
TablesAgree == CountsAgree /\ SlotsReturn
=============================================================================
