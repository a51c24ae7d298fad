----------------------- MODULE TextureRegistry_proofs -----------------------
(***************************************************************************)
(* Proofs for any number of host threads, contexts, addresses and calls    *)
(* and every size of the three tables: the types, that no view reads a     *)
(* later allocation, that the tables agree, and that a recorded owner is   *)
(* the allocation that is at its address now.                              *)
(***************************************************************************)
EXTENDS TextureRegistry, FiniteSetTheorems, WellFoundedInduction, TLAPS

Contexts == {b[t] : b \in Bindings, t \in Threads} \cup {None}
Storages == [kind : {"free", "plain", "pitch", "array"}, gen : Nat, ctx : Contexts]
Objects == [live : BOOLEAN, valid : BOOLEAN, data : Addresses \cup {None}, gen : Nat,
            ctx : Contexts]
OwnerRecords == [pointer : Addresses \cup {None}, gen : Nat, ctx : Contexts]
TextureRecords == [storage : Addresses \cup {None}, ctx : Contexts, refs : Nat, array : BOOLEAN]
HandleRecords == [descriptor : Descriptors \cup {None}, allocation : 0 .. Records]
Labels == {"idle", "malloc", "allocate", "allocateLocked", "free", "freeHook", "freeRaw",
           "freeArray", "invalidate", "view", "viewLocked", "viewArray", "viewArrayLocked",
           "describe", "describeNew", "destroy", "reset", "afterReset", "clearOwners"}

\* The values of the variables.
TypeOK ==
  /\ context \in Bindings
  /\ heap \in [Addresses -> Storages] /\ desc \in [Descriptors -> Objects]
  /\ owner \in [1..Owners -> OwnerRecords]
  /\ record \in [1..Records -> TextureRecords]
  /\ handle \in [1..Handles -> HandleRecords]
  /\ hooks \in BOOLEAN /\ aLock \in Threads \cup {None} /\ tLock \in Threads \cup {None}
  /\ pc \in [Threads -> Labels] /\ calls \in Nat
  /\ ptr = [t \in Threads |-> ptr[t]]
  /\ rec \in [Threads -> 0..Records] /\ ret \in [Threads -> {"none", "ok", "error"}]

\* What the argument of a call is.
Arguments ==
  \A t \in Threads :
    /\ pc[t] \in {"view", "viewLocked", "free", "freeHook", "freeRaw"} => ptr[t] \in Addresses
    /\ pc[t] \in {"viewArray", "viewArrayLocked", "freeArray"} => ptr[t] \in 1..Records
    /\ pc[t] = "destroy" => ptr[t] \in Descriptors
    /\ pc[t] \in {"allocate", "allocateLocked"} => ptr[t] \in {"array", "pitch"}

HoldsA(t) ==
  \/ pc[t] \in {"allocateLocked", "freeHook", "freeRaw", "viewLocked", "viewArrayLocked",
                "describe", "describeNew", "afterReset", "clearOwners"}
  \/ pc[t] = "invalidate" /\ ~record[rec[t]].array
HoldsT(t) == pc[t] \in {"invalidate", "describe", "describeNew"}

\* Each lock is held by the thread whose step says so, and by no other.
Locks == \A t \in Threads : (aLock = t <=> HoldsA(t)) /\ (tLock = t <=> HoldsT(t))

\* The record a thread under the texture lock works on is its own and has storage.
Working ==
  \A t \in Threads :
    HoldsT(t) =>
      /\ rec[t] \in 1..Records
      /\ record[rec[t]].storage # None /\ record[rec[t]].ctx = context[t]
      /\ pc[t] = "invalidate" /\ ~record[rec[t]].array => record[rec[t]].storage = ptr[t]

FreeLabels == {"free", "freeHook", "freeRaw", "freeArray", "invalidate"}

\* No two frees of one argument, and none of storage that is gone; a raw free's has no record.
Frees ==
  /\ \A t, u \in Threads :
       t # u /\ pc[t] \in FreeLabels /\ pc[u] \in FreeLabels => ptr[t] # ptr[u]
  /\ \A t \in Threads :
       pc[t] \in {"free", "freeHook", "freeRaw"} => heap[ptr[t]].kind \in {"plain", "pitch"}
  /\ \A t \in Threads :
       pc[t] = "freeRaw" => \A i \in 1..Records : record[i].storage # ptr[t]

ResetLabels == {"reset", "afterReset", "clearOwners"}

\* A context that is being reset is nobody else's, and after the reset it has nothing.
Resets ==
  \A t \in Threads :
    /\ pc[t] \in ResetLabels => \A u \in Threads \ {t} : ~WorksOn(u, context[t])
    /\ pc[t] \in {"afterReset", "clearOwners"} =>
         /\ \A a \in Addresses : heap[a].ctx # context[t]
         /\ \A d \in Descriptors : desc[d].ctx # context[t]

\* Without the hooks there are no records and no handles.
Hooks ==
  /\ ~hooks => /\ \A i \in 1..Records : record[i] = NoRecord
               /\ \A h \in 1..Handles : handle[h].descriptor = None
  /\ \A t \in Threads : pc[t] = "allocateLocked" => hooks

\* Contexts whose reset has not reached the texture records, or the owners, yet.
StaleRecord(k) == \E t \in Threads : pc[t] = "afterReset" /\ context[t] = k
StaleOwner(k) == \E t \in Threads : pc[t] \in {"afterReset", "clearOwners"} /\ context[t] = k

\* Storage is free, or has a generation and a context.
Heap ==
  \A a \in Addresses : IF heap[a].kind = "free" THEN heap[a] = Free ELSE heap[a].gen > 0

\* A record with storage is the only one of live storage of its kind and context.
RecordsLive ==
  /\ \A i \in 1..Records :
       /\ record[i].storage # None /\ ~StaleRecord(record[i].ctx) =>
            /\ heap[record[i].storage].kind \in
                 (IF record[i].array THEN {"array"} ELSE {"plain", "pitch"})
            /\ heap[record[i].storage].ctx = record[i].ctx
       /\ record[i].storage = None /\ record[i].refs = 0 => record[i] = NoRecord
  /\ \A i, j \in 1..Records :
       record[i].storage # None /\ record[i].storage = record[j].storage => i = j

\* A handle names a live descriptor of its own, in the context of its record.
HandlesNamed ==
  /\ \A h \in 1..Handles :
       handle[h].descriptor # None =>
         /\ handle[h].allocation \in 1..Records
         /\ ~StaleRecord(record[handle[h].allocation].ctx) =>
              /\ desc[handle[h].descriptor].live
              /\ desc[handle[h].descriptor].ctx = record[handle[h].allocation].ctx
  /\ \A g, h \in 1..Handles :
       g # h /\ handle[g].descriptor # None => handle[g].descriptor # handle[h].descriptor

\* Every reference is counted.
RefsCounted == \A i \in 1..Records : record[i].refs = Cardinality(Viewing(i))

\* A valid descriptor reads live storage through a handle on that storage's record.
ValidViews ==
  \A d \in Descriptors :
    desc[d].valid =>
      /\ desc[d].live /\ desc[d].data \in Addresses /\ desc[d].gen > 0
      /\ heap[desc[d].data].gen = desc[d].gen /\ heap[desc[d].data].ctx = desc[d].ctx
      /\ \E h \in 1..Handles :
           /\ handle[h].descriptor = d
           /\ record[handle[h].allocation].storage = desc[d].data
           /\ record[handle[h].allocation].ctx = desc[d].ctx

\* A recorded owner is an ordinary allocation that is still there.
OwnersLive ==
  \A i \in 1..Owners :
    IF owner[i].pointer = None THEN owner[i] = NoOwner
    ELSE ~StaleOwner(owner[i].ctx) =>
           /\ heap[owner[i].pointer].kind = "plain"
           /\ heap[owner[i].pointer].gen = owner[i].gen
           /\ heap[owner[i].pointer].ctx = owner[i].ctx

IInv ==
  /\ TypeOK /\ Arguments /\ Locks /\ Working /\ Frees /\ Resets /\ Hooks /\ Heap
  /\ RecordsLive /\ HandlesNamed /\ RefsCounted /\ ValidViews /\ OwnersLive

-----------------------------------------------------------------------------
(* The tables *)

\* The first slot of a set of slots is one of them.
LEMMA FirstFacts ==
  ASSUME NEW S \in SUBSET Nat, 0 \notin S
  PROVE  /\ First(S) # 0 => First(S) \in S
         /\ First(S) = 0 => S = {}
<1>1. IsWellFoundedOn({ss \in Nat \X Nat : ss[1] < ss[2]}, Nat)
  BY NatLessThanWellFounded DEF OpToRel
<1> DEFINE R == {ss \in Nat \X Nat : ss[1] < ss[2]}
<1>2. ASSUME S # {} PROVE First(S) \in S
  <2>1. PICK x \in S : \A y \in S : ~ (<<y, x>> \in R)
    <3> HIDE DEF R
    <3>1. IsWellFoundedOn(R, Nat)
      BY <1>1 DEF R
    <3> QED
      BY <1>2, <3>1, WFMin
  <2>2. \A y \in S : x <= y
    <3> SUFFICES ASSUME NEW y \in S, ~ (x <= y) PROVE FALSE
      OBVIOUS
    <3>1. y < x /\ <<y, x>> \in Nat \X Nat
      OBVIOUS
    <3>2. <<y, x>> \in R
      BY <3>1
    <3> QED
      BY <2>1, <3>2
  <2> QED
    BY <1>2, <2>2 DEF First
<1> QED
  BY <1>2 DEF First

\* What the lookups in the three tables find.
LEMMA LookupFacts ==
  /\ FreeOwner # 0 => FreeOwner \in 1..Owners /\ owner[FreeOwner].pointer = None
  /\ \A p : OwnerOf(p) # 0 => OwnerOf(p) \in 1..Owners /\ owner[OwnerOf(p)].pointer = p
  /\ FreeRecord # 0 => FreeRecord \in 1..Records /\ record[FreeRecord].storage = None
                       /\ record[FreeRecord].refs = 0
  /\ \A p : texturePointer(p) # 0 =>
       /\ texturePointer(p) \in 1..Records
       /\ record[texturePointer(p)].storage = p /\ ~record[texturePointer(p)].array
  /\ \A p : texturePointer(p) = 0 =>
       \A i \in 1..Records : ~(record[i].storage = p /\ ~record[i].array)
  /\ FreeHandle # 0 => FreeHandle \in 1..Handles /\ handle[FreeHandle].descriptor = None
  /\ \A d : HandleOf(d) # 0 => HandleOf(d) \in 1..Handles /\ handle[HandleOf(d)].descriptor = d
  /\ \A t : ToInvalidate(t) # {} => First(ToInvalidate(t)) \in ToInvalidate(t)
<1> USE RegistryAssumption
<1>1. FreeOwner # 0 => FreeOwner \in 1..Owners /\ owner[FreeOwner].pointer = None
  <2> DEFINE S == {i \in 1..Owners : owner[i].pointer = None}
  <2>1. S \in SUBSET Nat /\ 0 \notin S /\ FreeOwner = First(S)
    BY DEF FreeOwner
  <2> HIDE DEF S
  <2>2. FreeOwner # 0 => FreeOwner \in S
    BY <2>1, FirstFacts
  <2> QED
    BY <2>2 DEF S
<1>2. ASSUME NEW p, OwnerOf(p) # 0
      PROVE  OwnerOf(p) \in 1..Owners /\ owner[OwnerOf(p)].pointer = p
  <2> DEFINE S == {i \in 1..Owners : owner[i].pointer = p}
  <2>1. S \in SUBSET Nat /\ 0 \notin S /\ OwnerOf(p) = First(S)
    BY DEF OwnerOf
  <2> HIDE DEF S
  <2>2. OwnerOf(p) \in S
    BY <1>2, <2>1, FirstFacts
  <2> QED
    BY <2>2 DEF S
<1>3. FreeRecord # 0 => FreeRecord \in 1..Records /\ record[FreeRecord].storage = None
                        /\ record[FreeRecord].refs = 0
  <2> DEFINE S == {i \in 1..Records : record[i].storage = None /\ record[i].refs = 0}
  <2>1. S \in SUBSET Nat /\ 0 \notin S /\ FreeRecord = First(S)
    BY DEF FreeRecord
  <2> HIDE DEF S
  <2>2. FreeRecord # 0 => FreeRecord \in S
    BY <2>1, FirstFacts
  <2> QED
    BY <2>2 DEF S
<1>4. ASSUME NEW p
      PROVE  /\ texturePointer(p) # 0 =>
                  /\ texturePointer(p) \in 1..Records
                  /\ record[texturePointer(p)].storage = p /\ ~record[texturePointer(p)].array
             /\ texturePointer(p) = 0 =>
                  \A i \in 1..Records : ~(record[i].storage = p /\ ~record[i].array)
  <2> DEFINE S == {i \in 1..Records : record[i].storage = p /\ ~record[i].array}
  <2>1. S \in SUBSET Nat /\ 0 \notin S /\ texturePointer(p) = First(S)
    BY DEF texturePointer
  <2> HIDE DEF S
  <2>2. (texturePointer(p) # 0 => texturePointer(p) \in S) /\ (texturePointer(p) = 0 => S = {})
    BY <2>1, FirstFacts
  <2> QED
    BY <2>2 DEF S
<1>5. FreeHandle # 0 => FreeHandle \in 1..Handles /\ handle[FreeHandle].descriptor = None
  <2> DEFINE S == {h \in 1..Handles : handle[h].descriptor = None}
  <2>1. S \in SUBSET Nat /\ 0 \notin S /\ FreeHandle = First(S)
    BY DEF FreeHandle
  <2> HIDE DEF S
  <2>2. FreeHandle # 0 => FreeHandle \in S
    BY <2>1, FirstFacts
  <2> QED
    BY <2>2 DEF S
<1>6. ASSUME NEW d, HandleOf(d) # 0
      PROVE  HandleOf(d) \in 1..Handles /\ handle[HandleOf(d)].descriptor = d
  <2> DEFINE S == {h \in 1..Handles : handle[h].descriptor = d}
  <2>1. S \in SUBSET Nat /\ 0 \notin S /\ HandleOf(d) = First(S)
    BY DEF HandleOf
  <2> HIDE DEF S
  <2>2. HandleOf(d) \in S
    BY <1>6, <2>1, FirstFacts
  <2> QED
    BY <2>2 DEF S
<1>7. ASSUME NEW t, ToInvalidate(t) # {} PROVE First(ToInvalidate(t)) \in ToInvalidate(t)
  <2>1. ToInvalidate(t) \in SUBSET Nat /\ 0 \notin ToInvalidate(t)
    BY DEF ToInvalidate, Viewing
  <2> QED
    BY <1>7, <2>1, FirstFacts
<1> QED
  BY <1>1, <1>2, <1>3, <1>4, <1>5, <1>6, <1>7

\* The contexts of the host threads.
LEMMA ContextFacts ==
  ASSUME TypeOK, NEW t \in Threads
  PROVE  context[t] \in Contexts /\ context[t] # None /\ context[t] \in Contexts \ {None}
<1>1. context[t] \in {b[u] : b \in Bindings, u \in Threads}
  BY DEF TypeOK
<1> QED
  BY <1>1, RegistryAssumption DEF TypeOK, Contexts

\* The empty entries are entries.
LEMMA EmptyTypes ==
  /\ Free \in Storages /\ NoDesc \in Objects /\ NoOwner \in OwnerRecords
  /\ NoRecord \in TextureRecords /\ NoHandle \in HandleRecords
<1>1. None \in Contexts
  BY DEF Contexts
<1> HIDE DEF Contexts
<1> QED
  BY <1>1, RegistryAssumption
     DEF Free, NoDesc, NoOwner, NoRecord, NoHandle, Storages, Objects, OwnerRecords,
         TextureRecords, HandleRecords

\* The label and the argument of a call.
CallOf(t, l, x) ==
  /\ pc' = [pc EXCEPT ![t] = l] /\ ptr' = [ptr EXCEPT ![t] = x]
  /\ \/ l = "malloc"
     \/ l = "allocate" /\ x \in {"array", "pitch"}
     \/ l \in {"view", "free"} /\ x \in Pointers /\ ~Resetting(heap[x].ctx)
        /\ (l = "free" => ~Freeing(x))
     \/ l \in {"viewArray", "freeArray"} /\ x \in 1..Records
        /\ ~Resetting(record[x].ctx) /\ (l = "freeArray" => ~Freeing(x))
     \/ l = "destroy" /\ x \in Descriptors /\ ~Resetting(desc[x].ctx)
     \/ l = "reset" /\ \A u \in Threads \ {t} : ~WorksOn(u, context[t])

\* A call of an idle thread: what it may be, and what it leaves alone.
LEMMA CallShape ==
  ASSUME NEW t \in Threads, Calls(t)
  PROVE  /\ pc[t] = "idle" /\ ~Resetting(context[t]) /\ calls' = calls + 1
         /\ UNCHANGED <<heap, desc, owner, record, handle, hooks, aLock, tLock, rec, ret, context>>
         /\ \E l, x : l \in Labels /\ CallOf(t, l, x)
<1> USE DEF CallOf
<1>1. ~Resetting(context[t])
  BY DEF Calls
<1>2. ASSUME NEW l, NEW x, Call(t, l, x)
      PROVE  /\ pc[t] = "idle" /\ calls' = calls + 1
             /\ UNCHANGED <<heap, desc, owner, record,
                             handle, hooks, aLock, tLock, rec, ret, context>>
             /\ pc' = [pc EXCEPT ![t] = l] /\ ptr' = [ptr EXCEPT ![t] = x]
  BY <1>2 DEF Call, tables
<1>3. CASE Call(t, "malloc", None)
  BY <1>1, <1>2, <1>3 DEF Labels
<1>4. CASE Call(t, "allocate", "array") \/ Call(t, "allocate", "pitch")
  BY <1>1, <1>2, <1>4 DEF Labels
<1>5. CASE \E a \in Pointers :
             /\ ~Resetting(heap[a].ctx)
             /\ Call(t, "view", a) \/ (~Freeing(a) /\ Call(t, "free", a))
  BY <1>1, <1>2, <1>5 DEF Labels
<1>6. CASE \E i \in 1..Records :
             /\ record[i].array /\ ~Resetting(record[i].ctx)
             /\ Call(t, "viewArray", i) \/ (~Freeing(i) /\ Call(t, "freeArray", i))
  BY <1>1, <1>2, <1>6 DEF Labels
<1>7. CASE \E d \in Descriptors : ~Resetting(desc[d].ctx) /\ Call(t, "destroy", d)
  BY <1>1, <1>2, <1>7 DEF Labels
<1>8. CASE (\A u \in Threads \ {t} : ~WorksOn(u, context[t])) /\ Call(t, "reset", None)
  BY <1>1, <1>2, <1>8 DEF Labels
<1> QED
  BY <1>3, <1>4, <1>5, <1>6, <1>7, <1>8 DEF Calls

-----------------------------------------------------------------------------
(* The types *)

\* Nothing is allocated, held or under way at the start.
LEMMA IInvInit == Init => IInv
<1> SUFFICES ASSUME Init PROVE IInv
  OBVIOUS
<1> USE RegistryAssumption DEF Init
<1>1. TypeOK
  <2>1. "idle" \in Labels
    BY DEF Labels
  <2>2. /\ heap \in [Addresses -> Storages] /\ desc \in [Descriptors -> Objects]
        /\ owner \in [1..Owners -> OwnerRecords] /\ record \in [1..Records -> TextureRecords]
        /\ handle \in [1..Handles -> HandleRecords]
    BY EmptyTypes
  <2>3. /\ pc \in [Threads -> Labels] /\ rec \in [Threads -> 0..Records]
        /\ ret \in [Threads -> {"none", "ok", "error"}] /\ ptr = [t \in Threads |-> ptr[t]]
    BY <2>1
  <2>4. /\ context \in Bindings /\ hooks \in BOOLEAN /\ calls \in Nat
        /\ aLock \in Threads \cup {None} /\ tLock \in Threads \cup {None}
    OBVIOUS
  <2> HIDE DEF Init
  <2> QED
    BY <2>2, <2>3, <2>4 DEF TypeOK
<1>2. Arguments /\ Frees /\ Hooks /\ Heap
  BY DEF Arguments, Frees, Hooks, Heap, FreeLabels, Free, NoHandle
<1>3. Locks /\ Working
  BY DEF Locks, Working, HoldsA, HoldsT
<1>4. Resets
  BY DEF Resets, ResetLabels
<1>5. RecordsLive /\ HandlesNamed /\ ValidViews /\ OwnersLive
  BY DEF RecordsLive, HandlesNamed, ValidViews, OwnersLive, NoRecord, NoHandle, NoDesc, NoOwner
<1>6. RefsCounted
  <2> SUFFICES ASSUME NEW i \in 1..Records PROVE record[i].refs = Cardinality(Viewing(i))
    BY DEF RefsCounted
  <2>1. Viewing(i) = {}
    BY DEF Viewing, NoHandle
  <2> QED
    BY <2>1, FS_EmptySet DEF NoRecord
<1> QED
  BY <1>1, <1>2, <1>3, <1>4, <1>5, <1>6 DEF IInv

\* The entries that the steps of a thread write.
EntriesOK(t) ==
  /\ \A kind \in {"plain", "pitch", "array"} :
       [kind |-> kind, gen |-> NextGen, ctx |-> context[t]] \in Storages
  /\ \A a \in Addresses : [pointer |-> a, gen |-> NextGen, ctx |-> context[t]] \in OwnerRecords
  /\ \A a \in Addresses, array \in BOOLEAN :
       [storage |-> a, ctx |-> context[t], refs |-> 0, array |-> array] \in TextureRecords
  /\ [NoDesc EXCEPT !.live = TRUE, !.ctx = context[t]] \in Objects
  /\ \A d \in Descriptors : [desc[d] EXCEPT !.valid = FALSE] \in Objects
  /\ \A i \in 1..Records : /\ Counted(record[i]) \in TextureRecords
                           /\ Retire(record[i]) \in TextureRecords
  /\ \A i \in 1..Records : record[i].refs > 0 => Uncounted(record[i]) \in TextureRecords
  /\ \A d \in Descriptors, i \in 1..Records :
       [descriptor |-> d, allocation |-> i] \in HandleRecords
  /\ \A a \in Addresses : heap[a].gen \in Nat
  /\ \A i \in 1..Records : record[i].storage \in Addresses \cup {None}
  /\ \A a \in Addresses \cup {None}, g \in Nat :
       [live |-> TRUE, valid |-> TRUE, data |-> a, gen |-> g, ctx |-> context[t]] \in Objects

\* Each is an entry of its table.
LEMMA EntryTypes == TypeOK => \A t \in Threads : EntriesOK(t)
<1> SUFFICES ASSUME TypeOK, NEW t \in Threads PROVE EntriesOK(t)
  OBVIOUS
<1>1. context[t] \in Contexts /\ None \in Contexts /\ NextGen \in Nat
  BY ContextFacts DEF TypeOK, NextGen, Contexts
<1> HIDE DEF Contexts, NextGen
<1>2. \A i \in 1..Records :
        record[i] \in [storage : Addresses \cup {None}, ctx : Contexts, refs : Nat, array : BOOLEAN]
  BY DEF TypeOK, TextureRecords
<1>3. \A d \in Descriptors :
        desc[d] \in [live : BOOLEAN, valid : BOOLEAN, data : Addresses \cup {None}, gen : Nat,
                     ctx : Contexts]
  BY DEF TypeOK, Objects
<1>4. /\ \A kind \in {"plain", "pitch", "array"} :
           [kind |-> kind, gen |-> NextGen, ctx |-> context[t]] \in Storages
      /\ \A a \in Addresses : [pointer |-> a, gen |-> NextGen, ctx |-> context[t]] \in OwnerRecords
      /\ \A a \in Addresses, array \in BOOLEAN :
           [storage |-> a, ctx |-> context[t], refs |-> 0, array |-> array] \in TextureRecords
  BY <1>1 DEF Storages, OwnerRecords, TextureRecords
<1>5. [NoDesc EXCEPT !.live = TRUE, !.ctx = context[t]] \in Objects
  BY <1>1 DEF Objects, NoDesc
<1>6. ASSUME NEW d \in Descriptors PROVE [desc[d] EXCEPT !.valid = FALSE] \in Objects
  BY <1>3 DEF Objects
<1>7. ASSUME NEW i \in 1..Records
      PROVE  Counted(record[i]) \in TextureRecords /\ Retire(record[i]) \in TextureRecords
  <2>1. Counted(record[i]) \in TextureRecords
    BY <1>2 DEF TextureRecords, Counted
  <2>2. [record[i] EXCEPT !.storage = None] \in TextureRecords
    BY <1>2 DEF TextureRecords
  <2> QED
    BY <2>1, <2>2, EmptyTypes DEF Retire
<1>8. ASSUME NEW i \in 1..Records, record[i].refs > 0
      PROVE  Uncounted(record[i]) \in TextureRecords
  <2>1. [record[i] EXCEPT !.refs = @ - 1] \in TextureRecords
    BY <1>2, <1>8 DEF TextureRecords
  <2> QED
    BY <2>1, EmptyTypes DEF Uncounted
<1>9. \A d \in Descriptors, i \in 1..Records :
          [descriptor |-> d, allocation |-> i] \in HandleRecords
  BY RegistryAssumption DEF HandleRecords
<1>10. \A a \in Addresses : heap[a].gen \in Nat
  BY DEF TypeOK, Storages
<1>11. \A i \in 1..Records : record[i].storage \in Addresses \cup {None}
  BY <1>2
<1>12. \A a \in Addresses \cup {None}, g \in Nat :
         [live |-> TRUE, valid |-> TRUE, data |-> a, gen |-> g, ctx |-> context[t]] \in Objects
  BY <1>1 DEF Objects
<1> QED
  BY <1>4, <1>5, <1>6, <1>7, <1>8, <1>9, <1>10, <1>11, <1>12 DEF EntriesOK

\* What the arguments and the records at hand are.
ArgumentsOK(t) ==
  /\ pc[t] \in Labels
  /\ pc[t] \in {"view", "viewLocked", "free", "freeHook", "freeRaw"} => ptr[t] \in Addresses
  /\ pc[t] \in {"viewArray", "viewArrayLocked", "freeArray"} => ptr[t] \in 1..Records
  /\ pc[t] = "destroy" => ptr[t] \in Descriptors
  /\ pc[t] \in {"allocate", "allocateLocked"} => ptr[t] \in {"array", "pitch"}
  /\ HoldsT(t) => /\ rec[t] \in 1..Records /\ record[rec[t]].storage \in Addresses
                  /\ record[rec[t]].ctx = context[t]
  /\ aLock = t <=> HoldsA(t)
  /\ tLock = t <=> HoldsT(t)

\* They are so between any two steps.
LEMMA ArgumentFacts == IInv => \A t \in Threads : ArgumentsOK(t)
<1> SUFFICES ASSUME IInv, NEW t \in Threads PROVE ArgumentsOK(t)
  OBVIOUS
<1>1. Arguments /\ TypeOK /\ Working /\ Locks
  BY DEF IInv
<1>2. HoldsT(t) => rec[t] \in 1..Records /\ record[rec[t]].storage # None
                   /\ record[rec[t]].ctx = context[t]
  BY <1>1 DEF Working
<1>3. \A i \in 1..Records : record[i].storage \in Addresses \cup {None}
  <2>1. EntriesOK(t)
    BY <1>1, EntryTypes
  <2> QED
    BY <2>1 DEF EntriesOK
<1>4. pc[t] \in Labels
  BY <1>1 DEF TypeOK
<1>5. HoldsT(t) => record[rec[t]].storage \in Addresses
  BY <1>2, <1>3
<1> QED
  BY <1>1, <1>2, <1>4, <1>5 DEF Arguments, Locks, ArgumentsOK

\* A destroyed handle is a counted reference.
LEMMA HandleFacts ==
  ASSUME IInv, NEW h \in 1..Handles, handle[h].descriptor # None
  PROVE  /\ handle[h].allocation \in 1..Records
         /\ record[handle[h].allocation].refs > 0
         /\ IsFiniteSet(Viewing(handle[h].allocation)) /\ h \in Viewing(handle[h].allocation)
<1>1. TypeOK /\ HandlesNamed /\ RefsCounted
  BY DEF IInv
<1> DEFINE i == handle[h].allocation
<1>2. i \in 1..Records
  BY <1>1 DEF HandlesNamed
<1>3. h \in Viewing(i)
  BY DEF Viewing
<1>4. IsFiniteSet(Viewing(i))
  <2>1. IsFiniteSet(1..Handles)
    BY FS_Interval, RegistryAssumption
  <2>2. Viewing(i) \subseteq 1..Handles
    BY DEF Viewing
  <2> QED
    BY <2>1, <2>2, FS_Subset
<1>5. Cardinality(Viewing(i)) \in Nat /\ Cardinality(Viewing(i)) # 0
  BY <1>3, <1>4, FS_CardinalityType, FS_EmptySet
<1> QED
  BY <1>1, <1>2, <1>3, <1>4, <1>5 DEF RefsCounted

\* A record at hand is a slot of the table.
LEMMA AtHand ==
  ASSUME TypeOK, NEW t \in Threads,
         rec' = rec \/ \E i \in 1..Records : rec' = [rec EXCEPT ![t] = i]
  PROVE  rec' \in [Threads -> 0..Records]
<1>1. rec \in [Threads -> 0..Records]
  BY DEF TypeOK
<1>2. \A i \in 1..Records : i \in 0..Records
  BY RegistryAssumption
<1> QED
  BY <1>1, <1>2

\* Every step keeps the types.
LEMMA TypeNext == IInv /\ [Next]_vars => TypeOK'
<1> SUFFICES ASSUME IInv, [Next]_vars PROVE TypeOK'
  OBVIOUS
<1>0. TypeOK
  BY DEF IInv
<1> USE <1>0
<1> USE RegistryAssumption DEF GoTo, Return, Unlock, UnlockBoth, tables
<1> HIDE DEF Storages, Objects, OwnerRecords, TextureRecords, HandleRecords, Labels
<1>1. ASSUME NEW t \in Threads, Calls(t)
      PROVE  TypeOK'
  <2>1. PICK l, x : l \in Labels /\ CallOf(t, l, x)
    BY <1>1, CallShape
  <2>2. calls' = calls + 1
        /\ UNCHANGED <<heap, desc, owner, record, handle, hooks, aLock, tLock, rec, ret, context>>
    BY <1>1, CallShape
  <2>3. pc' \in [Threads -> Labels] /\ ptr' = [u \in Threads |-> ptr'[u]]
    BY <2>1 DEF CallOf, TypeOK
  <2> QED
    BY <2>2, <2>3 DEF TypeOK
<1>2. ASSUME NEW t \in Threads, NotReady(t)
      PROVE  TypeOK'
  BY <1>2 DEF NotReady, TypeOK, Labels
<1>3. ASSUME NEW t \in Threads, AllocateLock(t)
      PROVE  TypeOK'
  BY <1>3 DEF AllocateLock, TypeOK, Labels
<1>4. ASSUME NEW t \in Threads, FreeLock(t)
      PROVE  TypeOK'
  BY <1>4 DEF FreeLock, TypeOK, Labels
<1>5. ASSUME NEW t \in Threads, FreeHook(t)
      PROVE  TypeOK'
  <2>1. ArgumentsOK(t) /\ \A p : texturePointer(p) # 0 => texturePointer(p) \in 1..Records
    BY ArgumentFacts, LookupFacts
  <2>2. rec' = rec \/ \E i \in 1..Records : rec' = [rec EXCEPT ![t] = i]
    BY <1>5, <2>1 DEF FreeHook, ViewRecord, ArgumentsOK
  <2>3. rec' \in [Threads -> 0..Records]
    BY <1>0, <2>2, AtHand
  <2> QED
    BY <1>5, <2>3 DEF FreeHook, ViewRecord, TypeOK, Labels
<1>6. ASSUME NEW t \in Threads, FreeArrayLock(t)
      PROVE  TypeOK'
  <2>1. ArgumentsOK(t) /\ \A p : texturePointer(p) # 0 => texturePointer(p) \in 1..Records
    BY ArgumentFacts, LookupFacts
  <2>2. rec' = rec \/ \E i \in 1..Records : rec' = [rec EXCEPT ![t] = i]
    BY <1>6, <2>1 DEF FreeArrayLock, ViewRecord, ArgumentsOK
  <2>3. rec' \in [Threads -> 0..Records]
    BY <1>0, <2>2, AtHand
  <2> QED
    BY <1>6, <2>3 DEF FreeArrayLock, ViewRecord, TypeOK, Labels
<1>7. ASSUME NEW t \in Threads, ReleaseFails(t)
      PROVE  TypeOK'
  BY <1>7 DEF ReleaseFails, TypeOK, Labels
<1>8. ASSUME NEW t \in Threads, ViewLock(t)
      PROVE  TypeOK'
  BY <1>8 DEF ViewLock, TypeOK, Labels
<1>9. ASSUME NEW t \in Threads, ViewArray(t)
      PROVE  TypeOK'
  <2>1. ArgumentsOK(t) /\ \A p : texturePointer(p) # 0 => texturePointer(p) \in 1..Records
    BY ArgumentFacts, LookupFacts
  <2>2. rec' = rec \/ \E i \in 1..Records : rec' = [rec EXCEPT ![t] = i]
    BY <1>9, <2>1 DEF ViewArray, ViewRecord, ArgumentsOK
  <2>3. rec' \in [Threads -> 0..Records]
    BY <1>0, <2>2, AtHand
  <2> QED
    BY <1>9, <2>3 DEF ViewArray, ViewRecord, TypeOK, Labels
<1>10. ASSUME NEW t \in Threads, ViewPitch(t)
      PROVE  TypeOK'
  <2>1. ArgumentsOK(t) /\ \A p : texturePointer(p) # 0 => texturePointer(p) \in 1..Records
    BY ArgumentFacts, LookupFacts
  <2>2. rec' = rec \/ \E i \in 1..Records : rec' = [rec EXCEPT ![t] = i]
    BY <1>10, <2>1 DEF ViewPitch, ViewRecord, ArgumentsOK
  <2>3. rec' \in [Threads -> 0..Records]
    BY <1>0, <2>2, AtHand
  <2> QED
    BY <1>10, <2>3 DEF ViewPitch, ViewRecord, TypeOK, Labels
<1>11. ASSUME NEW t \in Threads, DescribeFails(t)
      PROVE  TypeOK'
  BY <1>11 DEF DescribeFails, TypeOK, Labels
<1>12. ASSUME NEW t \in Threads, DestroyFails(t)
      PROVE  TypeOK'
  BY <1>12 DEF DestroyFails, TypeOK, Labels
<1>13. ASSUME NEW t \in Threads, Malloc(t)
      PROVE  TypeOK'
  <2>1. EntriesOK(t) /\ ArgumentsOK(t)
    BY <1>0, EntryTypes, ArgumentFacts
  <2>2. heap' \in [Addresses -> Storages]
    BY <1>13, <2>1
       DEF Malloc, TypeOK, EntriesOK, ArgumentsOK
  <2>3. owner' \in [1..Owners -> OwnerRecords]
    <3>1. FreeOwner # 0 => FreeOwner \in 1..Owners
      BY LookupFacts
    <3>2. ASSUME NEW a \in Addresses, RecordOwner(a, context[t])
          PROVE  owner' \in [1..Owners -> OwnerRecords]
      BY <3>1, <3>2, <2>1, <1>0 DEF RecordOwner, EntriesOK, TypeOK
    <3>3. owner' = owner \/ \E a \in Addresses : RecordOwner(a, context[t])
      BY <1>13 DEF Malloc
    <3> QED
      BY <3>2, <3>3, <1>0 DEF TypeOK
  <2>4. /\ hooks' \in BOOLEAN /\ aLock' \in Threads \cup {None} /\ tLock' \in Threads \cup {None}
       /\ pc' \in [Threads -> Labels] /\ rec' \in [Threads -> 0..Records]
       /\ ret' \in [Threads -> {"none", "ok", "error"}]
    BY <1>13, <2>1
       DEF Malloc, TypeOK, EntriesOK, ArgumentsOK, Labels
  <2>5. UNCHANGED <<desc, record, handle, ptr, calls, context>>
    BY <1>13 DEF Malloc
  <2> QED
    BY <2>2, <2>3, <2>4, <2>5 DEF TypeOK
<1>14. ASSUME NEW t \in Threads, Allocate(t)
      PROVE  TypeOK'
  <2>1. EntriesOK(t) /\ ArgumentsOK(t)
    BY <1>0, EntryTypes, ArgumentFacts
  <2>2. heap' \in [Addresses -> Storages]
    <3>1. heap' = heap \/ \E a \in Addresses, e \in Storages : heap' = [heap EXCEPT ![a] = e]
      BY <1>14, <2>1 DEF Allocate, EntriesOK, ArgumentsOK
    <3> QED
      BY <3>1, <1>0 DEF TypeOK
  <2>3. record' \in [1..Records -> TextureRecords]
    <3>1. FreeRecord # 0 => FreeRecord \in 1..Records
      BY LookupFacts
    <3>2. \A a \in Addresses : [storage |-> a, ctx |-> context[t], refs |-> 0, array |-> ptr[t] = "array"]
                 \in TextureRecords
      BY <2>1 DEF EntriesOK
    <3>3. \/ record' = record
          \/ \E a \in Addresses :
               /\ FreeRecord # 0
               /\ record' = [record EXCEPT ![FreeRecord] =
                    [storage |-> a, ctx |-> context[t], refs |-> 0, array |-> ptr[t] = "array"]]
      BY <1>14 DEF Allocate
    <3>4. record' = record \/ \E i \in 1..Records, e \in TextureRecords :
                                record' = [record EXCEPT ![i] = e]
      BY <3>1, <3>2, <3>3
    <3>5. record \in [1..Records -> TextureRecords]
      BY <1>0 DEF TypeOK
    <3> QED
      BY <3>4, <3>5
  <2>4. /\ hooks' \in BOOLEAN /\ aLock' \in Threads \cup {None} /\ tLock' \in Threads \cup {None}
       /\ pc' \in [Threads -> Labels] /\ rec' \in [Threads -> 0..Records]
       /\ ret' \in [Threads -> {"none", "ok", "error"}]
    BY <1>14, <2>1
       DEF Allocate, TypeOK, EntriesOK, ArgumentsOK, Labels
  <2>5. UNCHANGED <<desc, owner, handle, ptr, calls, context>>
    BY <1>14 DEF Allocate
  <2> QED
    BY <2>2, <2>3, <2>4, <2>5 DEF TypeOK
<1>15. ASSUME NEW t \in Threads, FreeRaw(t)
      PROVE  TypeOK'
  <2>1. EntriesOK(t) /\ ArgumentsOK(t)
    BY <1>0, EntryTypes, ArgumentFacts
  <2>2. heap' \in [Addresses -> Storages]
    BY <1>15, <2>1, EmptyTypes
       DEF FreeRaw, TypeOK, EntriesOK, ArgumentsOK
  <2>3. owner' \in [1..Owners -> OwnerRecords]
    <3>1. owner' = owner \/ owner' = ForgetOwner(ptr[t])
      BY <1>15 DEF FreeRaw
    <3>2. owner \in [1..Owners -> OwnerRecords]
      BY <1>0 DEF TypeOK
    <3>3. ForgetOwner(ptr[t]) \in [1..Owners -> OwnerRecords]
      BY <3>2, EmptyTypes DEF ForgetOwner
    <3> QED
      BY <3>1, <3>2, <3>3
  <2>4. /\ hooks' \in BOOLEAN /\ aLock' \in Threads \cup {None} /\ tLock' \in Threads \cup {None}
       /\ pc' \in [Threads -> Labels] /\ rec' \in [Threads -> 0..Records]
       /\ ret' \in [Threads -> {"none", "ok", "error"}]
    BY <1>15, <2>1, EmptyTypes
       DEF FreeRaw, TypeOK, EntriesOK, ArgumentsOK, Labels
  <2>5. UNCHANGED <<desc, record, handle, ptr, calls, context>>
    BY <1>15 DEF FreeRaw
  <2> QED
    BY <2>2, <2>3, <2>4, <2>5 DEF TypeOK
<1>16. ASSUME NEW t \in Threads, Invalidate(t)
      PROVE  TypeOK'
  <2>1. EntriesOK(t) /\ ArgumentsOK(t)
    BY <1>0, EntryTypes, ArgumentFacts
  <2>2. desc' \in [Descriptors -> Objects]
    <3> DEFINE d == handle[First(ToInvalidate(t))].descriptor
    <3>1. First(ToInvalidate(t)) \in ToInvalidate(t)
      BY <1>16, LookupFacts DEF Invalidate
    <3>2. d \in Descriptors
      <4>1. /\ First(ToInvalidate(t)) \in 1..Handles
            /\ handle[First(ToInvalidate(t))].descriptor # None
        <5>1. \A h \in ToInvalidate(t) : h \in 1..Handles /\ handle[h].descriptor # None
          BY DEF ToInvalidate, Viewing
        <5> QED
          BY <3>1, <5>1
      <4>2. handle[First(ToInvalidate(t))] \in HandleRecords
        BY <4>1, <1>0 DEF TypeOK
      <4> HIDE DEF d
      <4>3. d = handle[First(ToInvalidate(t))].descriptor
        BY DEF d
      <4> QED
        BY <4>1, <4>2, <4>3 DEF HandleRecords
    <3>3. desc' = [desc EXCEPT ![d] = [desc[d] EXCEPT !.valid = FALSE]]
      BY <1>16 DEF Invalidate
    <3>4. [desc[d] EXCEPT !.valid = FALSE] \in Objects
      BY <2>1, <3>2 DEF EntriesOK
    <3> HIDE DEF d
    <3> QED
      BY <3>2, <3>3, <3>4, <1>0 DEF TypeOK
  <2>3. /\ hooks' \in BOOLEAN /\ aLock' \in Threads \cup {None} /\ tLock' \in Threads \cup {None}
       /\ pc' \in [Threads -> Labels] /\ rec' \in [Threads -> 0..Records]
       /\ ret' \in [Threads -> {"none", "ok", "error"}]
    BY <1>16, <2>1
       DEF Invalidate, TypeOK, EntriesOK, ArgumentsOK, Labels
  <2>4. UNCHANGED <<heap, owner, record, handle, ptr, calls, context>>
    BY <1>16 DEF Invalidate
  <2> QED
    BY <2>2, <2>3, <2>4 DEF TypeOK
<1>17. ASSUME NEW t \in Threads, ReleaseStorage(t)
      PROVE  TypeOK'
  <2>1. EntriesOK(t) /\ ArgumentsOK(t)
    BY <1>0, EntryTypes, ArgumentFacts
  <2>2. heap' \in [Addresses -> Storages]
    BY <1>17, <2>1, EmptyTypes
       DEF ReleaseStorage, TypeOK, EntriesOK, ArgumentsOK, Released, HoldsT
  <2>3. owner' \in [1..Owners -> OwnerRecords]
    BY <1>17, <2>1, EmptyTypes
       DEF ReleaseStorage, TypeOK, EntriesOK, ArgumentsOK, ForgetOwner, Released
  <2>4. record' \in [1..Records -> TextureRecords]
    <3>1. rec[t] \in 1..Records
      BY <1>17, <2>1 DEF ReleaseStorage, Released, HoldsT, ArgumentsOK
    <3>2. record' = [record EXCEPT ![rec[t]] = Retire(record[rec[t]])]
      BY <1>17 DEF ReleaseStorage
    <3>3. Retire(record[rec[t]]) \in TextureRecords
      BY <2>1, <3>1 DEF EntriesOK
    <3> QED
      BY <3>1, <3>2, <3>3, <1>0 DEF TypeOK
  <2>5. /\ hooks' \in BOOLEAN /\ aLock' \in Threads \cup {None} /\ tLock' \in Threads \cup {None}
       /\ pc' \in [Threads -> Labels] /\ rec' \in [Threads -> 0..Records]
       /\ ret' \in [Threads -> {"none", "ok", "error"}]
    BY <1>17, <2>1
       DEF ReleaseStorage, TypeOK, EntriesOK, ArgumentsOK, Released, Labels
  <2>6. UNCHANGED <<desc, handle, ptr, calls, context>>
    BY <1>17 DEF ReleaseStorage
  <2> QED
    BY <2>2, <2>3, <2>4, <2>5, <2>6 DEF TypeOK
<1>18. ASSUME NEW t \in Threads, ViewBorrowed(t)
      PROVE  TypeOK'
  <2>1. EntriesOK(t) /\ ArgumentsOK(t)
    BY <1>0, EntryTypes, ArgumentFacts
  <2>2. record' \in [1..Records -> TextureRecords]
    <3>1. FreeRecord # 0 => FreeRecord \in 1..Records
      BY LookupFacts
    <3>2. record' = record \/ \E i \in 1..Records, e \in TextureRecords : record' =
              [record EXCEPT ![i] = e]
      BY <1>18, <2>1, <3>1 DEF ViewBorrowed, EntriesOK, ArgumentsOK
    <3> QED
      BY <3>2, <1>0 DEF TypeOK
  <2>3. /\ hooks' \in BOOLEAN /\ aLock' \in Threads \cup {None} /\ tLock' \in Threads \cup {None}
       /\ pc' \in [Threads -> Labels] /\ rec' \in [Threads -> 0..Records]
       /\ ret' \in [Threads -> {"none", "ok", "error"}]
    <3>1. FreeRecord # 0 => FreeRecord \in 1..Records
      BY LookupFacts
    <3>2. rec' = rec \/ \E i \in 1..Records : rec' = [rec EXCEPT ![t] = i]
      BY <1>18, <3>1 DEF ViewBorrowed
    <3>3. rec' \in [Threads -> 0..Records]
      BY <1>0, <3>2, AtHand
    <3> QED
      BY <1>18, <3>3 DEF ViewBorrowed, TypeOK, Labels
  <2>4. UNCHANGED <<heap, desc, owner, handle, ptr, calls, context>>
    BY <1>18 DEF ViewBorrowed
  <2> QED
    BY <2>2, <2>3, <2>4 DEF TypeOK
<1>19. ASSUME NEW t \in Threads, DescribeLeaks(t)
      PROVE  TypeOK'
  <2>1. EntriesOK(t) /\ ArgumentsOK(t)
    BY <1>0, EntryTypes, ArgumentFacts
  <2>2. desc' \in [Descriptors -> Objects]
    <3>1. \E d \in Descriptors, e \in Objects : desc' = [desc EXCEPT ![d] = e]
      BY <1>19, <2>1 DEF DescribeLeaks, EntriesOK
    <3> QED
      BY <3>1, <1>0 DEF TypeOK
  <2>3. /\ hooks' \in BOOLEAN /\ aLock' \in Threads \cup {None} /\ tLock' \in Threads \cup {None}
       /\ pc' \in [Threads -> Labels] /\ rec' \in [Threads -> 0..Records]
       /\ ret' \in [Threads -> {"none", "ok", "error"}]
    BY <1>19, <2>1
       DEF DescribeLeaks, TypeOK, EntriesOK, ArgumentsOK, Labels
  <2>4. UNCHANGED <<heap, owner, record, handle, ptr, calls, context>>
    BY <1>19 DEF DescribeLeaks
  <2> QED
    BY <2>2, <2>3, <2>4 DEF TypeOK
<1>20. ASSUME NEW t \in Threads, Describe(t)
      PROVE  TypeOK'
  <2>1. EntriesOK(t) /\ ArgumentsOK(t)
    BY <1>0, EntryTypes, ArgumentFacts
  <2>2. desc' \in [Descriptors -> Objects]
    <3>1. record[rec[t]].storage \in Addresses /\ heap[record[rec[t]].storage].gen \in Nat
      BY <1>20, <2>1 DEF Describe, Describing, HoldsT, ArgumentsOK, EntriesOK
    <3>2. \E d \in Descriptors, e \in Objects : desc' = [desc EXCEPT ![d] = e]
      BY <1>20, <2>1, <3>1 DEF Describe, EntriesOK
    <3> QED
      BY <3>2, <1>0 DEF TypeOK
  <2>3. handle' \in [1..Handles -> HandleRecords]
    <3>1. FreeHandle # 0 => FreeHandle \in 1..Handles
      BY LookupFacts
    <3>2. rec[t] \in 1..Records
      BY <1>20, <2>1 DEF Describe, Describing, HoldsT, ArgumentsOK
    <3>3. \E h \in 1..Handles, e \in HandleRecords : handle' = [handle EXCEPT ![h] = e]
      BY <1>20, <2>1, <3>1, <3>2 DEF Describe, EntriesOK
    <3> QED
      BY <3>3, <1>0 DEF TypeOK
  <2>4. record' \in [1..Records -> TextureRecords]
    <3>1. rec[t] \in 1..Records
      BY <1>20, <2>1 DEF Describe, Describing, HoldsT, ArgumentsOK
    <3>2. record' = [record EXCEPT ![rec[t]] = Counted(record[rec[t]])]
      BY <1>20 DEF Describe
    <3>3. Counted(record[rec[t]]) \in TextureRecords
      BY <2>1, <3>1 DEF EntriesOK
    <3> QED
      BY <3>1, <3>2, <3>3, <1>0 DEF TypeOK
  <2>5. /\ hooks' \in BOOLEAN /\ aLock' \in Threads \cup {None} /\ tLock' \in Threads \cup {None}
       /\ pc' \in [Threads -> Labels] /\ rec' \in [Threads -> 0..Records]
       /\ ret' \in [Threads -> {"none", "ok", "error"}]
    BY <1>20, <2>1
       DEF Describe, TypeOK, EntriesOK, ArgumentsOK, Labels
  <2>6. UNCHANGED <<heap, owner, ptr, calls, context>>
    BY <1>20 DEF Describe
  <2> QED
    BY <2>2, <2>3, <2>4, <2>5, <2>6 DEF TypeOK
<1>21. ASSUME NEW t \in Threads, Destroy(t)
      PROVE  TypeOK'
  <2>1. EntriesOK(t) /\ ArgumentsOK(t)
    BY <1>0, EntryTypes, ArgumentFacts
  <2>2. desc' \in [Descriptors -> Objects]
    BY <1>21, <2>1, EmptyTypes
       DEF Destroy, TypeOK, EntriesOK, ArgumentsOK
  <2>3. record' \in [1..Records -> TextureRecords]
    <3> DEFINE h == HandleOf(ptr[t])
    <3>1. h \in 1..Handles /\ handle[h].descriptor = ptr[t] /\ ptr[t] # None
      BY <1>21, <2>1, LookupFacts DEF Destroy, ArgumentsOK
    <3>2. handle[h].allocation \in 1..Records /\ record[handle[h].allocation].refs > 0
      BY <3>1, HandleFacts
    <3>3. Uncounted(record[handle[h].allocation]) \in TextureRecords
      BY <2>1, <3>2 DEF EntriesOK
    <3>4. record' = [record EXCEPT ![handle[h].allocation] = Uncounted(record[handle[h].allocation])]
      BY <1>21 DEF Destroy
    <3> HIDE DEF h
    <3> QED
      BY <3>2, <3>3, <3>4, <1>0 DEF TypeOK
  <2>4. handle' \in [1..Handles -> HandleRecords]
    BY <1>21, <2>1, EmptyTypes
       DEF Destroy, TypeOK, EntriesOK, ArgumentsOK
  <2>5. /\ hooks' \in BOOLEAN /\ aLock' \in Threads \cup {None} /\ tLock' \in Threads \cup {None}
       /\ pc' \in [Threads -> Labels] /\ rec' \in [Threads -> 0..Records]
       /\ ret' \in [Threads -> {"none", "ok", "error"}]
    BY <1>21, <2>1
       DEF Destroy, TypeOK, EntriesOK, ArgumentsOK, Labels
  <2>6. UNCHANGED <<heap, owner, ptr, calls, context>>
    BY <1>21 DEF Destroy
  <2> QED
    BY <2>2, <2>3, <2>4, <2>5, <2>6 DEF TypeOK
<1>22. ASSUME NEW t \in Threads, ResetDevice(t)
      PROVE  TypeOK'
  <2>1. EntriesOK(t) /\ ArgumentsOK(t)
    BY <1>0, EntryTypes, ArgumentFacts
  <2>2. heap' \in [Addresses -> Storages]
    BY <1>22, <2>1, EmptyTypes
       DEF ResetDevice, TypeOK, EntriesOK, ArgumentsOK
  <2>3. desc' \in [Descriptors -> Objects]
    BY <1>22, <2>1, EmptyTypes
       DEF ResetDevice, TypeOK, EntriesOK, ArgumentsOK
  <2>4. /\ hooks' \in BOOLEAN /\ aLock' \in Threads \cup {None} /\ tLock' \in Threads \cup {None}
       /\ pc' \in [Threads -> Labels] /\ rec' \in [Threads -> 0..Records]
       /\ ret' \in [Threads -> {"none", "ok", "error"}]
    BY <1>22, <2>1, EmptyTypes
       DEF ResetDevice, TypeOK, EntriesOK, ArgumentsOK, Labels
  <2>5. UNCHANGED <<owner, record, handle, ptr, calls, context>>
    BY <1>22 DEF ResetDevice
  <2> QED
    BY <2>2, <2>3, <2>4, <2>5 DEF TypeOK
<1>23. ASSUME NEW t \in Threads, AfterReset(t)
      PROVE  TypeOK'
  <2>1. EntriesOK(t) /\ ArgumentsOK(t)
    BY <1>0, EntryTypes, ArgumentFacts
  <2>2. handle' \in [1..Handles -> HandleRecords]
    BY <1>23, <2>1, EmptyTypes
       DEF AfterReset, TypeOK, EntriesOK, ArgumentsOK
  <2>3. record' \in [1..Records -> TextureRecords]
    BY <1>23, <2>1, EmptyTypes
       DEF AfterReset, TypeOK, EntriesOK, ArgumentsOK
  <2>4. /\ hooks' \in BOOLEAN /\ aLock' \in Threads \cup {None} /\ tLock' \in Threads \cup {None}
       /\ pc' \in [Threads -> Labels] /\ rec' \in [Threads -> 0..Records]
       /\ ret' \in [Threads -> {"none", "ok", "error"}]
    BY <1>23, <2>1, EmptyTypes
       DEF AfterReset, TypeOK, EntriesOK, ArgumentsOK, Labels
  <2>5. UNCHANGED <<heap, desc, owner, ptr, calls, context>>
    BY <1>23 DEF AfterReset
  <2> QED
    BY <2>2, <2>3, <2>4, <2>5 DEF TypeOK
<1>24. ASSUME NEW t \in Threads, ClearOwners(t)
      PROVE  TypeOK'
  <2>1. EntriesOK(t) /\ ArgumentsOK(t)
    BY <1>0, EntryTypes, ArgumentFacts
  <2>2. owner' \in [1..Owners -> OwnerRecords]
    BY <1>24, <2>1, EmptyTypes
       DEF ClearOwners, TypeOK, EntriesOK, ArgumentsOK
  <2>3. /\ hooks' \in BOOLEAN /\ aLock' \in Threads \cup {None} /\ tLock' \in Threads \cup {None}
       /\ pc' \in [Threads -> Labels] /\ rec' \in [Threads -> 0..Records]
       /\ ret' \in [Threads -> {"none", "ok", "error"}]
    BY <1>24, <2>1, EmptyTypes
       DEF ClearOwners, TypeOK, EntriesOK, ArgumentsOK, Labels
  <2>4. UNCHANGED <<heap, desc, record, handle, ptr, calls, context>>
    BY <1>24 DEF ClearOwners
  <2> QED
    BY <2>2, <2>3, <2>4 DEF TypeOK
<1>25. ASSUME UNCHANGED vars PROVE TypeOK'
  BY <1>25 DEF vars, TypeOK
<1> QED
  BY <1>1, <1>2, <1>3, <1>4, <1>5, <1>6, <1>7, <1>8, <1>9, <1>10,
     <1>11, <1>12, <1>13, <1>14, <1>15, <1>16, <1>17, <1>18, <1>19, <1>20,
     <1>21, <1>22, <1>23, <1>24, <1>25
     DEF Next, Step, Quiet

-----------------------------------------------------------------------------
(* The locks and what is under way *)

\* Nobody else is under the texture lock while a thread holds it or finds it free.
LEMMA Alone ==
  ASSUME Locks, NEW t \in Threads, tLock = None \/ tLock = t, NEW u \in Threads \ {t}
  PROVE  ~HoldsT(u)
  BY RegistryAssumption DEF Locks

\* Nobody else is under the allocation lock while a thread holds it or finds it free.
LEMMA AloneA ==
  ASSUME Locks, NEW t \in Threads, aLock = None \/ aLock = t, NEW u \in Threads \ {t}
  PROVE  ~HoldsA(u)
  BY RegistryAssumption DEF Locks

\* Arguments stay what the labels say.
LEMMA ArgumentsNext == IInv /\ [Next]_vars => Arguments'
<1> SUFFICES ASSUME IInv, [Next]_vars PROVE Arguments'
  OBVIOUS
<1>0. TypeOK /\ Arguments
  BY DEF IInv
<1> USE <1>0
<1> USE RegistryAssumption DEF GoTo, Return, Unlock, UnlockBoth, tables, ViewRecord
<1>1. ASSUME NEW t \in Threads, Calls(t)
      PROVE  Arguments'
  <2>1. PICK l, x : l \in Labels /\ CallOf(t, l, x)
    BY <1>1, CallShape
  <2>2. UNCHANGED <<heap, desc, owner, record, handle, hooks, aLock, tLock, rec, ret, context>>
        /\ pc[t] = "idle"
    BY <1>1, CallShape
  <2> QED
    BY <2>1, <2>2 DEF CallOf, Arguments, TypeOK, Pointers
<1>2. ASSUME NEW t \in Threads, NotReady(t)
      PROVE  Arguments'
  BY <1>2 DEF NotReady, Arguments, TypeOK
<1>3. ASSUME NEW t \in Threads, AllocateLock(t)
      PROVE  Arguments'
  BY <1>3 DEF AllocateLock, Arguments, TypeOK
<1>4. ASSUME NEW t \in Threads, FreeLock(t)
      PROVE  Arguments'
  BY <1>4 DEF FreeLock, Arguments, TypeOK
<1>5. ASSUME NEW t \in Threads, FreeHook(t)
      PROVE  Arguments'
  BY <1>5 DEF FreeHook, Arguments, TypeOK
<1>6. ASSUME NEW t \in Threads, FreeArrayLock(t)
      PROVE  Arguments'
  BY <1>6 DEF FreeArrayLock, Arguments, TypeOK
<1>7. ASSUME NEW t \in Threads, ReleaseFails(t)
      PROVE  Arguments'
  BY <1>7 DEF ReleaseFails, Arguments, TypeOK
<1>8. ASSUME NEW t \in Threads, ViewLock(t)
      PROVE  Arguments'
  BY <1>8 DEF ViewLock, Arguments, TypeOK
<1>9. ASSUME NEW t \in Threads, ViewArray(t)
      PROVE  Arguments'
  BY <1>9 DEF ViewArray, Arguments, TypeOK
<1>10. ASSUME NEW t \in Threads, ViewPitch(t)
      PROVE  Arguments'
  BY <1>10 DEF ViewPitch, Arguments, TypeOK
<1>11. ASSUME NEW t \in Threads, DescribeFails(t)
      PROVE  Arguments'
  BY <1>11 DEF DescribeFails, Arguments, TypeOK
<1>12. ASSUME NEW t \in Threads, DestroyFails(t)
      PROVE  Arguments'
  BY <1>12 DEF DestroyFails, Arguments, TypeOK
<1>13. ASSUME NEW t \in Threads, Malloc(t)
      PROVE  Arguments'
  BY <1>13 DEF Malloc, Arguments, TypeOK
<1>14. ASSUME NEW t \in Threads, Allocate(t)
      PROVE  Arguments'
  BY <1>14 DEF Allocate, Arguments, TypeOK
<1>15. ASSUME NEW t \in Threads, FreeRaw(t)
      PROVE  Arguments'
  BY <1>15 DEF FreeRaw, Arguments, TypeOK
<1>16. ASSUME NEW t \in Threads, Invalidate(t)
      PROVE  Arguments'
  BY <1>16 DEF Invalidate, Arguments, TypeOK
<1>17. ASSUME NEW t \in Threads, ReleaseStorage(t)
      PROVE  Arguments'
  BY <1>17 DEF ReleaseStorage, Arguments, TypeOK
<1>18. ASSUME NEW t \in Threads, ViewBorrowed(t)
      PROVE  Arguments'
  BY <1>18 DEF ViewBorrowed, Arguments, TypeOK
<1>19. ASSUME NEW t \in Threads, DescribeLeaks(t)
      PROVE  Arguments'
  BY <1>19 DEF DescribeLeaks, Arguments, TypeOK
<1>20. ASSUME NEW t \in Threads, Describe(t)
      PROVE  Arguments'
  BY <1>20 DEF Describe, Arguments, TypeOK
<1>21. ASSUME NEW t \in Threads, Destroy(t)
      PROVE  Arguments'
  BY <1>21 DEF Destroy, Arguments, TypeOK
<1>22. ASSUME NEW t \in Threads, ResetDevice(t)
      PROVE  Arguments'
  BY <1>22 DEF ResetDevice, Arguments, TypeOK
<1>23. ASSUME NEW t \in Threads, AfterReset(t)
      PROVE  Arguments'
  BY <1>23 DEF AfterReset, Arguments, TypeOK
<1>24. ASSUME NEW t \in Threads, ClearOwners(t)
      PROVE  Arguments'
  BY <1>24 DEF ClearOwners, Arguments, TypeOK
<1>25. ASSUME UNCHANGED vars PROVE Arguments'
  BY <1>25 DEF vars, Arguments
<1> QED
  BY <1>1, <1>2, <1>3, <1>4, <1>5, <1>6, <1>7, <1>8, <1>9, <1>10,
     <1>11, <1>12, <1>13, <1>14, <1>15, <1>16, <1>17, <1>18, <1>19, <1>20,
     <1>21, <1>22, <1>23, <1>24, <1>25
     DEF Next, Step, Quiet

\* The locks stay with those whose steps say so.
LEMMA LocksNext == IInv /\ [Next]_vars => Locks'
<1> SUFFICES ASSUME IInv, [Next]_vars PROVE Locks'
  OBVIOUS
<1>0. TypeOK /\ Locks
  BY DEF IInv
<1> USE <1>0
<1> USE RegistryAssumption DEF GoTo, Return, Unlock, UnlockBoth, tables, ViewRecord
<1>1. ASSUME NEW t \in Threads, Calls(t)
      PROVE  Locks'
  <2>1. PICK l, x : l \in Labels /\ CallOf(t, l, x)
    BY <1>1, CallShape
  <2>2. UNCHANGED <<heap, desc, owner, record, handle, hooks, aLock, tLock, rec, ret, context>>
        /\ pc[t] = "idle"
    BY <1>1, CallShape
  <2> QED
    BY <2>1, <2>2 DEF CallOf, Locks, HoldsA, HoldsT, TypeOK
<1>2. ASSUME NEW t \in Threads, NotReady(t)
      PROVE  Locks'
  BY <1>2 DEF NotReady, Locks, HoldsA, HoldsT, TypeOK, Describing, ToInvalidate
<1>3. ASSUME NEW t \in Threads, AllocateLock(t)
      PROVE  Locks'
  BY <1>3 DEF AllocateLock, Locks, HoldsA, HoldsT, TypeOK, Describing, ToInvalidate
<1>4. ASSUME NEW t \in Threads, FreeLock(t)
      PROVE  Locks'
  BY <1>4 DEF FreeLock, Locks, HoldsA, HoldsT, TypeOK, Describing, ToInvalidate
<1>5. ASSUME NEW t \in Threads, FreeHook(t)
      PROVE  Locks'
  <2>1. \A p : texturePointer(p) # 0 => ~record[texturePointer(p)].array
    BY LookupFacts
  <2> QED
    BY <1>5, <2>1 DEF FreeHook, Locks, HoldsA, HoldsT, TypeOK
<1>6. ASSUME NEW t \in Threads, FreeArrayLock(t)
      PROVE  Locks'
  BY <1>6 DEF FreeArrayLock, Locks, HoldsA, HoldsT, TypeOK, Describing, ToInvalidate
<1>7. ASSUME NEW t \in Threads, ReleaseFails(t)
      PROVE  Locks'
  BY <1>7 DEF ReleaseFails, Locks, HoldsA, HoldsT, TypeOK, Describing, ToInvalidate
<1>8. ASSUME NEW t \in Threads, ViewLock(t)
      PROVE  Locks'
  BY <1>8 DEF ViewLock, Locks, HoldsA, HoldsT, TypeOK, Describing, ToInvalidate
<1>9. ASSUME NEW t \in Threads, ViewArray(t)
      PROVE  Locks'
  BY <1>9 DEF ViewArray, Locks, HoldsA, HoldsT, TypeOK, Describing, ToInvalidate
<1>10. ASSUME NEW t \in Threads, ViewPitch(t)
      PROVE  Locks'
  BY <1>10 DEF ViewPitch, Locks, HoldsA, HoldsT, TypeOK, Describing, ToInvalidate
<1>11. ASSUME NEW t \in Threads, DescribeFails(t)
      PROVE  Locks'
  BY <1>11 DEF DescribeFails, Locks, HoldsA, HoldsT, TypeOK, Describing, ToInvalidate
<1>12. ASSUME NEW t \in Threads, DestroyFails(t)
      PROVE  Locks'
  BY <1>12 DEF DestroyFails, Locks, HoldsA, HoldsT, TypeOK, Describing, ToInvalidate
<1>13. ASSUME NEW t \in Threads, Malloc(t)
      PROVE  Locks'
  BY <1>13 DEF Malloc, Locks, HoldsA, HoldsT, TypeOK, Describing, ToInvalidate
<1>14. ASSUME NEW t \in Threads, Allocate(t)
      PROVE  Locks'
  <2>1. tLock = None \/ tLock = t
    BY <1>14 DEF Allocate, Released, Describing, Locks, HoldsT
  <2>2. \A u \in Threads \ {t} : pc[u] # "invalidate"
    BY <2>1, Alone DEF HoldsT
  <2> QED
    BY <1>14, <2>1, <2>2 DEF Allocate, Released, Describing, Locks, HoldsA, HoldsT, TypeOK
<1>15. ASSUME NEW t \in Threads, FreeRaw(t)
      PROVE  Locks'
  BY <1>15 DEF FreeRaw, Locks, HoldsA, HoldsT, TypeOK, Describing, ToInvalidate
<1>16. ASSUME NEW t \in Threads, Invalidate(t)
      PROVE  Locks'
  <2>1. UNCHANGED <<pc, rec, record, aLock, tLock>>
    BY <1>16 DEF Invalidate
  <2> QED
    BY <2>1 DEF Locks, HoldsA, HoldsT
<1>17. ASSUME NEW t \in Threads, ReleaseStorage(t)
      PROVE  Locks'
  <2>1. tLock = None \/ tLock = t
    BY <1>17 DEF ReleaseStorage, Released, Describing, Locks, HoldsT
  <2>2. \A u \in Threads \ {t} : pc[u] # "invalidate"
    BY <2>1, Alone DEF HoldsT
  <2> QED
    BY <1>17, <2>1, <2>2 DEF ReleaseStorage, Released, Describing, Locks, HoldsA, HoldsT, TypeOK
<1>18. ASSUME NEW t \in Threads, ViewBorrowed(t)
      PROVE  Locks'
  <2>1. tLock = None \/ tLock = t
    BY <1>18 DEF ViewBorrowed, Released, Describing, Locks, HoldsT
  <2>2. \A u \in Threads \ {t} : pc[u] # "invalidate"
    BY <2>1, Alone DEF HoldsT
  <2> QED
    BY <1>18, <2>1, <2>2 DEF ViewBorrowed, Released, Describing, Locks, HoldsA, HoldsT, TypeOK
<1>19. ASSUME NEW t \in Threads, DescribeLeaks(t)
      PROVE  Locks'
  BY <1>19 DEF DescribeLeaks, Locks, HoldsA, HoldsT, TypeOK, Describing, ToInvalidate
<1>20. ASSUME NEW t \in Threads, Describe(t)
      PROVE  Locks'
  <2>1. tLock = None \/ tLock = t
    BY <1>20 DEF Describe, Released, Describing, Locks, HoldsT
  <2>2. \A u \in Threads \ {t} : pc[u] # "invalidate"
    BY <2>1, Alone DEF HoldsT
  <2> QED
    BY <1>20, <2>1, <2>2 DEF Describe, Released, Describing, Locks, HoldsA, HoldsT, TypeOK
<1>21. ASSUME NEW t \in Threads, Destroy(t)
      PROVE  Locks'
  <2>1. tLock = None \/ tLock = t
    BY <1>21 DEF Destroy, Released, Describing, Locks, HoldsT
  <2>2. \A u \in Threads \ {t} : pc[u] # "invalidate"
    BY <2>1, Alone DEF HoldsT
  <2> QED
    BY <1>21, <2>1, <2>2 DEF Destroy, Released, Describing, Locks, HoldsA, HoldsT, TypeOK
<1>22. ASSUME NEW t \in Threads, ResetDevice(t)
      PROVE  Locks'
  BY <1>22 DEF ResetDevice, Locks, HoldsA, HoldsT, TypeOK, Describing, ToInvalidate
<1>23. ASSUME NEW t \in Threads, AfterReset(t)
      PROVE  Locks'
  <2>1. tLock = None \/ tLock = t
    BY <1>23 DEF AfterReset, Released, Describing, Locks, HoldsT
  <2>2. \A u \in Threads \ {t} : pc[u] # "invalidate"
    BY <2>1, Alone DEF HoldsT
  <2> QED
    BY <1>23, <2>1, <2>2 DEF AfterReset, Released, Describing, Locks, HoldsA, HoldsT, TypeOK
<1>24. ASSUME NEW t \in Threads, ClearOwners(t)
      PROVE  Locks'
  BY <1>24 DEF ClearOwners, Locks, HoldsA, HoldsT, TypeOK, Describing, ToInvalidate
<1>25. ASSUME UNCHANGED vars PROVE Locks'
  BY <1>25 DEF vars, Locks, HoldsA, HoldsT
<1> QED
  BY <1>1, <1>2, <1>3, <1>4, <1>5, <1>6, <1>7, <1>8, <1>9, <1>10,
     <1>11, <1>12, <1>13, <1>14, <1>15, <1>16, <1>17, <1>18, <1>19, <1>20,
     <1>21, <1>22, <1>23, <1>24, <1>25
     DEF Next, Step, Quiet

\* The record at hand under the texture lock is the thread's own.
LEMMA WorkingNext == IInv /\ [Next]_vars => Working'
<1> SUFFICES ASSUME IInv, [Next]_vars PROVE Working'
  OBVIOUS
<1>0. TypeOK /\ Arguments /\ Locks /\ Working
  BY DEF IInv
<1> USE <1>0
<1> USE RegistryAssumption DEF GoTo, Return, Unlock, UnlockBoth, tables, ViewRecord
<1>1. ASSUME NEW t \in Threads, Calls(t)
      PROVE  Working'
  <2>1. PICK l, x : l \in Labels /\ CallOf(t, l, x)
    BY <1>1, CallShape
  <2>2. UNCHANGED <<heap, desc, owner, record, handle, hooks, aLock, tLock, rec, ret, context>>
        /\ pc[t] = "idle"
    BY <1>1, CallShape
  <2> QED
    BY <2>1, <2>2 DEF CallOf, Working, HoldsT, TypeOK
<1>2. ASSUME NEW t \in Threads, NotReady(t)
      PROVE  Working'
  BY <1>2 DEF NotReady, Working, HoldsT, TypeOK, Describing
<1>3. ASSUME NEW t \in Threads, AllocateLock(t)
      PROVE  Working'
  BY <1>3 DEF AllocateLock, Working, HoldsT, TypeOK, Describing
<1>4. ASSUME NEW t \in Threads, FreeLock(t)
      PROVE  Working'
  BY <1>4 DEF FreeLock, Working, HoldsT, TypeOK, Describing
<1>5. ASSUME NEW t \in Threads, FreeHook(t)
      PROVE  Working'
  <2>1. \A p : texturePointer(p) # 0 =>
          /\ texturePointer(p) \in 1..Records
          /\ record[texturePointer(p)].storage = p /\ ~record[texturePointer(p)].array
    BY LookupFacts
  <2> QED
    BY <1>5, <2>1 DEF FreeHook, Working, HoldsT, TypeOK, textureOwned, Arguments
<1>6. ASSUME NEW t \in Threads, FreeArrayLock(t)
      PROVE  Working'
  BY <1>6 DEF FreeArrayLock, Working, HoldsT, TypeOK, textureOwned, Arguments
<1>7. ASSUME NEW t \in Threads, ReleaseFails(t)
      PROVE  Working'
  BY <1>7 DEF ReleaseFails, Working, HoldsT, TypeOK, Describing
<1>8. ASSUME NEW t \in Threads, ViewLock(t)
      PROVE  Working'
  BY <1>8 DEF ViewLock, Working, HoldsT, TypeOK, Describing
<1>9. ASSUME NEW t \in Threads, ViewArray(t)
      PROVE  Working'
  BY <1>9 DEF ViewArray, Working, HoldsT, TypeOK, textureOwned, Arguments
<1>10. ASSUME NEW t \in Threads, ViewPitch(t)
      PROVE  Working'
  <2>1. \A p : texturePointer(p) # 0 =>
          /\ texturePointer(p) \in 1..Records
          /\ record[texturePointer(p)].storage = p /\ ~record[texturePointer(p)].array
    BY LookupFacts
  <2> QED
    BY <1>10, <2>1 DEF ViewPitch, Working, HoldsT, TypeOK, textureOwned, Arguments
<1>11. ASSUME NEW t \in Threads, DescribeFails(t)
      PROVE  Working'
  BY <1>11 DEF DescribeFails, Working, HoldsT, TypeOK, Describing
<1>12. ASSUME NEW t \in Threads, DestroyFails(t)
      PROVE  Working'
  BY <1>12 DEF DestroyFails, Working, HoldsT, TypeOK, Describing
<1>13. ASSUME NEW t \in Threads, Malloc(t)
      PROVE  Working'
  BY <1>13 DEF Malloc, Working, HoldsT, TypeOK, Describing
<1>14. ASSUME NEW t \in Threads, Allocate(t)
      PROVE  Working'
  <2>1. tLock = None \/ tLock = t
    BY <1>14 DEF Allocate, Released, Describing, Locks, HoldsT
  <2>2. \A u \in Threads \ {t} : ~HoldsT(u)
    BY <2>1, Alone
  <2>3. \A u \in Threads : ~HoldsT(u)'
    BY <1>14, <2>2 DEF Allocate, Released, Describing, HoldsT, TypeOK
  <2> QED
    BY <2>3 DEF Working
<1>15. ASSUME NEW t \in Threads, FreeRaw(t)
      PROVE  Working'
  BY <1>15 DEF FreeRaw, Working, HoldsT, TypeOK, Describing
<1>16. ASSUME NEW t \in Threads, Invalidate(t)
      PROVE  Working'
  BY <1>16 DEF Invalidate, Working, HoldsT, TypeOK, Describing
<1>17. ASSUME NEW t \in Threads, ReleaseStorage(t)
      PROVE  Working'
  <2>1. tLock = None \/ tLock = t
    BY <1>17 DEF ReleaseStorage, Released, Describing, Locks, HoldsT
  <2>2. \A u \in Threads \ {t} : ~HoldsT(u)
    BY <2>1, Alone
  <2>3. \A u \in Threads : ~HoldsT(u)'
    BY <1>17, <2>2 DEF ReleaseStorage, Released, Describing, HoldsT, TypeOK
  <2> QED
    BY <2>3 DEF Working
<1>18. ASSUME NEW t \in Threads, ViewBorrowed(t)
      PROVE  Working'
  <2>1. FreeRecord # 0 => FreeRecord \in 1..Records
    BY LookupFacts
  <2>2. \A u \in Threads \ {t} : ~HoldsT(u)
    BY <1>18, Alone DEF ViewBorrowed
  <2>3. \A u \in Threads \ {t} : ~HoldsT(u)'
    BY <1>18, <2>2 DEF ViewBorrowed, HoldsT, TypeOK, GoTo, Return
  <2>4. CASE pc' = [pc EXCEPT ![t] = "idle"]
    <3>1. ~HoldsT(t)'
      BY <2>4 DEF HoldsT, TypeOK
    <3> QED
      BY <2>3, <3>1 DEF Working
  <2>5. CASE /\ FreeRecord # 0
             /\ record' = [record EXCEPT ![FreeRecord] =
                  [storage |-> ptr[t], ctx |-> context[t], refs |-> 0, array |-> FALSE]]
             /\ rec' = [rec EXCEPT ![t] = FreeRecord]
             /\ pc' = [pc EXCEPT ![t] = "describeNew"]
             /\ context' = context /\ ptr[t] \in Addresses
    <3>1. /\ rec'[t] = FreeRecord /\ FreeRecord \in 1..Records /\ pc'[t] = "describeNew"
          /\ record'[FreeRecord].storage = ptr[t] /\ record'[FreeRecord].ctx = context'[t]
      BY <2>1, <2>5 DEF TypeOK
    <3>2. ptr[t] # None
      BY <2>5, RegistryAssumption
    <3> QED
      BY <2>3, <3>1, <3>2 DEF Working
  <2> QED
    BY <1>18, <2>4, <2>5 DEF ViewBorrowed, GoTo, Return, Arguments
<1>19. ASSUME NEW t \in Threads, DescribeLeaks(t)
      PROVE  Working'
  BY <1>19 DEF DescribeLeaks, Working, HoldsT, TypeOK, Describing
<1>20. ASSUME NEW t \in Threads, Describe(t)
      PROVE  Working'
  <2>1. tLock = None \/ tLock = t
    BY <1>20 DEF Describe, Released, Describing, Locks, HoldsT
  <2>2. \A u \in Threads \ {t} : ~HoldsT(u)
    BY <2>1, Alone
  <2>3. \A u \in Threads : ~HoldsT(u)'
    BY <1>20, <2>2 DEF Describe, Released, Describing, HoldsT, TypeOK
  <2> QED
    BY <2>3 DEF Working
<1>21. ASSUME NEW t \in Threads, Destroy(t)
      PROVE  Working'
  <2>1. tLock = None \/ tLock = t
    BY <1>21 DEF Destroy, Released, Describing, Locks, HoldsT
  <2>2. \A u \in Threads \ {t} : ~HoldsT(u)
    BY <2>1, Alone
  <2>3. \A u \in Threads : ~HoldsT(u)'
    BY <1>21, <2>2 DEF Destroy, Released, Describing, HoldsT, TypeOK
  <2> QED
    BY <2>3 DEF Working
<1>22. ASSUME NEW t \in Threads, ResetDevice(t)
      PROVE  Working'
  BY <1>22 DEF ResetDevice, Working, HoldsT, TypeOK, Describing
<1>23. ASSUME NEW t \in Threads, AfterReset(t)
      PROVE  Working'
  <2>1. tLock = None \/ tLock = t
    BY <1>23 DEF AfterReset, Released, Describing, Locks, HoldsT
  <2>2. \A u \in Threads \ {t} : ~HoldsT(u)
    BY <2>1, Alone
  <2>3. \A u \in Threads : ~HoldsT(u)'
    BY <1>23, <2>2 DEF AfterReset, Released, Describing, HoldsT, TypeOK
  <2> QED
    BY <2>3 DEF Working
<1>24. ASSUME NEW t \in Threads, ClearOwners(t)
      PROVE  Working'
  BY <1>24 DEF ClearOwners, Working, HoldsT, TypeOK, Describing
<1>25. ASSUME UNCHANGED vars PROVE Working'
  BY <1>25 DEF vars, Working, HoldsT
<1> QED
  BY <1>1, <1>2, <1>3, <1>4, <1>5, <1>6, <1>7, <1>8, <1>9, <1>10,
     <1>11, <1>12, <1>13, <1>14, <1>15, <1>16, <1>17, <1>18, <1>19, <1>20,
     <1>21, <1>22, <1>23, <1>24, <1>25
     DEF Next, Step, Quiet

\* While a thread holds the allocation lock outside a reset, or nobody holds
\* it, no reset is halfway.
LEMMA NoStale ==
  ASSUME Locks,
         \/ aLock = None
         \/ \E t \in Threads : aLock = t /\ pc[t] \notin {"afterReset", "clearOwners"}
  PROVE  \A k : ~StaleRecord(k) /\ ~StaleOwner(k)
<1>1. \A u \in Threads : pc[u] \notin {"afterReset", "clearOwners"}
  BY RegistryAssumption DEF Locks, HoldsA
<1> QED
  BY <1>1 DEF StaleRecord, StaleOwner

\* The context of a thread at work is not being reset by another.
LEMMA OwnNotStale ==
  ASSUME Resets, NEW t \in Threads, pc[t] # "idle", pc[t] \notin {"afterReset", "clearOwners"}
  PROVE  ~StaleRecord(context[t]) /\ ~StaleOwner(context[t])
  BY DEF Resets, ResetLabels, StaleRecord, StaleOwner, WorksOn

\* Only the two resets' own steps change which contexts are halfway.
LEMMA StaleKept ==
  ASSUME TypeOK, UNCHANGED context, NEW t \in Threads, NEW l, pc' = [pc EXCEPT ![t] = l],
         pc[t] \notin {"afterReset", "clearOwners"}, l \notin {"afterReset", "clearOwners"}
  PROVE  \A k : (StaleRecord(k)' <=> StaleRecord(k)) /\ (StaleOwner(k)' <=> StaleOwner(k))
  BY DEF TypeOK, StaleRecord, StaleOwner

\* What a step must show to keep the pending frees.
LEMMA FreesStep ==
  ASSUME Frees, UNCHANGED ptr,
         \A u \in Threads :
           /\ pc'[u] \in FreeLabels => pc[u] \in FreeLabels
           /\ pc'[u] \in {"free", "freeHook", "freeRaw"} =>
                /\ pc[u] \in {"free", "freeHook", "freeRaw"}
                /\ heap'[ptr[u]].kind = heap[ptr[u]].kind
           /\ pc'[u] = "freeRaw" => \A i \in 1..Records : record'[i].storage # ptr[u]
  PROVE  Frees'
  BY DEF Frees

\* Allocation changes no storage that is in use.
LEMMA AllocationSpares ==
  ASSUME TypeOK,
         heap' = heap \/ \E a \in Addresses : \E e : heap[a] = Free /\ heap' = [heap EXCEPT ![a] = e],
         NEW b \in Addresses, heap[b].kind # "free"
  PROVE  heap'[b] = heap[b]
<1>1. heap[b] # Free /\ heap \in [Addresses -> Storages]
  BY DEF Free, TypeOK
<1> HIDE DEF Free
<1> QED
  BY <1>1

\* Pending frees stay distinct and due.
LEMMA FreesNext == IInv /\ [Next]_vars => Frees'
<1> SUFFICES ASSUME IInv, [Next]_vars PROVE Frees'
  OBVIOUS
<1>0. TypeOK /\ Arguments /\ Locks /\ Working /\ Frees /\ Resets /\ Hooks /\ RecordsLive
  BY DEF IInv
<1> USE <1>0
<1> USE RegistryAssumption DEF GoTo, Return, Unlock, UnlockBoth, tables, ViewRecord
<1>1. ASSUME NEW t \in Threads, Calls(t)
      PROVE  Frees'
  <2>1. PICK l, x : l \in Labels /\ CallOf(t, l, x)
    BY <1>1, CallShape
  <2>2. UNCHANGED <<heap, desc, owner, record, handle, hooks, aLock, tLock, rec, ret, context>>
        /\ pc[t] = "idle"
    BY <1>1, CallShape
  <2> QED
    BY <2>1, <2>2 DEF CallOf, Frees, FreeLabels, TypeOK, Pointers, Freeing
<1>2. ASSUME NEW t \in Threads, NotReady(t)
      PROVE  Frees'
  BY <1>2 DEF NotReady, Frees, FreeLabels, TypeOK, Describing
<1>3. ASSUME NEW t \in Threads, AllocateLock(t)
      PROVE  Frees'
  BY <1>3 DEF AllocateLock, Frees, FreeLabels, TypeOK, Describing
<1>4. ASSUME NEW t \in Threads, FreeLock(t)
      PROVE  Frees'
  <2>1. ~hooks => \A i \in 1..Records : record[i].storage = None
    BY DEF Hooks, NoRecord
  <2> QED
    BY <1>4, <2>1 DEF FreeLock, Frees, FreeLabels, TypeOK, Arguments
<1>5. ASSUME NEW t \in Threads, FreeHook(t)
      PROVE  Frees'
  <2>1. \A p : texturePointer(p) = 0 => \A i \in 1..Records : record[i].storage = p =>
            record[i].array
    BY LookupFacts
  <2>2. \A k : ~StaleRecord(k)
    BY <1>5, NoStale DEF FreeHook, Locks, HoldsA
  <2>3. \A i \in 1..Records :
          record[i].storage # None /\ record[i].array => heap[record[i].storage].kind = "array"
    BY <2>2 DEF RecordsLive
  <2>4. texturePointer(ptr[t]) = 0 => \A i \in 1..Records : record[i].storage # ptr[t]
    BY <1>5, <2>1, <2>3 DEF FreeHook, Frees, Arguments
  <2>5. /\ UNCHANGED ptr
        /\ \A u \in Threads :
             /\ pc'[u] \in FreeLabels => pc[u] \in FreeLabels
             /\ pc'[u] \in {"free", "freeHook", "freeRaw"} =>
                       pc[u] \in {"free", "freeHook", "freeRaw"}
    BY <1>5 DEF FreeHook, FreeLabels, TypeOK
  <2>6. \A u \in Threads :
          pc'[u] \in {"free", "freeHook", "freeRaw"} => heap'[ptr[u]].kind = heap[ptr[u]].kind
    BY <1>5 DEF FreeHook
  <2>7. \A u \in Threads : pc'[u] = "freeRaw" => \A i \in 1..Records : record'[i].storage # ptr[u]
    BY <1>5, <2>4 DEF FreeHook, Frees, TypeOK
  <2> QED
    BY <2>5, <2>6, <2>7, FreesStep
<1>6. ASSUME NEW t \in Threads, FreeArrayLock(t)
      PROVE  Frees'
  <2>1. /\ UNCHANGED ptr
        /\ \A u \in Threads :
             /\ pc'[u] \in FreeLabels => pc[u] \in FreeLabels
             /\ pc'[u] \in {"free", "freeHook", "freeRaw"} =>
                       pc[u] \in {"free", "freeHook", "freeRaw"}
    BY <1>6 DEF FreeArrayLock, FreeLabels, TypeOK
  <2>2. \A u \in Threads :
          pc'[u] \in {"free", "freeHook", "freeRaw"} => heap'[ptr[u]].kind = heap[ptr[u]].kind
    BY <1>6 DEF FreeArrayLock
  <2>3. \A u \in Threads : pc'[u] = "freeRaw" => \A i \in 1..Records : record'[i].storage # ptr[u]
    BY <1>6 DEF FreeArrayLock, Frees, TypeOK
  <2> QED
    BY <2>1, <2>2, <2>3, FreesStep
<1>7. ASSUME NEW t \in Threads, ReleaseFails(t)
      PROVE  Frees'
  BY <1>7 DEF ReleaseFails, Frees, FreeLabels, TypeOK, Describing
<1>8. ASSUME NEW t \in Threads, ViewLock(t)
      PROVE  Frees'
  BY <1>8 DEF ViewLock, Frees, FreeLabels, TypeOK, Describing
<1>9. ASSUME NEW t \in Threads, ViewArray(t)
      PROVE  Frees'
  <2>1. /\ UNCHANGED ptr
        /\ \A u \in Threads :
             /\ pc'[u] \in FreeLabels => pc[u] \in FreeLabels
             /\ pc'[u] \in {"free", "freeHook", "freeRaw"} =>
                       pc[u] \in {"free", "freeHook", "freeRaw"}
    BY <1>9 DEF ViewArray, FreeLabels, TypeOK
  <2>2. \A u \in Threads :
          pc'[u] \in {"free", "freeHook", "freeRaw"} => heap'[ptr[u]].kind = heap[ptr[u]].kind
    BY <1>9 DEF ViewArray
  <2>3. \A u \in Threads : pc'[u] = "freeRaw" => \A i \in 1..Records : record'[i].storage # ptr[u]
    BY <1>9 DEF ViewArray, Frees, TypeOK
  <2> QED
    BY <2>1, <2>2, <2>3, FreesStep
<1>10. ASSUME NEW t \in Threads, ViewPitch(t)
      PROVE  Frees'
  <2>1. /\ UNCHANGED ptr
        /\ \A u \in Threads :
             /\ pc'[u] \in FreeLabels => pc[u] \in FreeLabels
             /\ pc'[u] \in {"free", "freeHook", "freeRaw"} =>
                       pc[u] \in {"free", "freeHook", "freeRaw"}
    BY <1>10 DEF ViewPitch, FreeLabels, TypeOK
  <2>2. \A u \in Threads :
          pc'[u] \in {"free", "freeHook", "freeRaw"} => heap'[ptr[u]].kind = heap[ptr[u]].kind
    BY <1>10 DEF ViewPitch
  <2>3. \A u \in Threads : pc'[u] = "freeRaw" => \A i \in 1..Records : record'[i].storage # ptr[u]
    BY <1>10 DEF ViewPitch, Frees, TypeOK
  <2> QED
    BY <2>1, <2>2, <2>3, FreesStep
<1>11. ASSUME NEW t \in Threads, DescribeFails(t)
      PROVE  Frees'
  BY <1>11 DEF DescribeFails, Frees, FreeLabels, TypeOK, Describing
<1>12. ASSUME NEW t \in Threads, DestroyFails(t)
      PROVE  Frees'
  BY <1>12 DEF DestroyFails, Frees, FreeLabels, TypeOK, Describing
<1>13. ASSUME NEW t \in Threads, Malloc(t)
      PROVE  Frees'
  <2>1. /\ UNCHANGED ptr
        /\ \A u \in Threads :
             /\ pc'[u] \in FreeLabels => pc[u] \in FreeLabels
             /\ pc'[u] \in {"free", "freeHook", "freeRaw"} =>
                       pc[u] \in {"free", "freeHook", "freeRaw"}
    BY <1>13 DEF Malloc, FreeLabels, TypeOK
  <2>2. \A u \in Threads :
          pc'[u] \in {"free", "freeHook", "freeRaw"} => heap'[ptr[u]].kind = heap[ptr[u]].kind
    <3>1. \A u \in Threads : pc'[u] \in {"free", "freeHook", "freeRaw"} =>
              heap[ptr[u]].kind # "free" /\ ptr[u] \in Addresses
      BY <2>1 DEF Frees, Arguments
    <3>2. heap' = heap \/ \E a \in Addresses : \E e : heap[a] = Free /\ heap' = [heap EXCEPT ![a] = e]
      BY <1>13 DEF Malloc
    <3> QED
      BY <3>1, <3>2, AllocationSpares
  <2>3. \A u \in Threads : pc'[u] = "freeRaw" => \A i \in 1..Records : record'[i].storage # ptr[u]
    BY <1>13 DEF Malloc, Frees, TypeOK
  <2> QED
    BY <2>1, <2>2, <2>3, FreesStep
<1>14. ASSUME NEW t \in Threads, Allocate(t)
      PROVE  Frees'
  <2>1. \A u \in Threads \ {t} : pc[u] # "freeRaw"
    BY <1>14, AloneA DEF Allocate, Locks, HoldsA
  <2>2. /\ UNCHANGED ptr
        /\ \A u \in Threads :
             /\ pc'[u] \in FreeLabels => pc[u] \in FreeLabels
             /\ pc'[u] \in {"free", "freeHook", "freeRaw"} =>
                       pc[u] \in {"free", "freeHook", "freeRaw"}
    BY <1>14 DEF Allocate, FreeLabels, TypeOK
  <2>3. \A u \in Threads :
          pc'[u] \in {"free", "freeHook", "freeRaw"} => heap'[ptr[u]].kind = heap[ptr[u]].kind
    <3>1. \A u \in Threads : pc'[u] \in {"free", "freeHook", "freeRaw"} =>
              heap[ptr[u]].kind # "free" /\ ptr[u] \in Addresses
      BY <2>2 DEF Frees, Arguments
    <3>2. heap' = heap \/ \E a \in Addresses : \E e : heap[a] = Free /\ heap' = [heap EXCEPT ![a] = e]
      BY <1>14 DEF Allocate
    <3> QED
      BY <3>1, <3>2, AllocationSpares
  <2>4. \A u \in Threads : pc'[u] = "freeRaw" => \A i \in 1..Records : record'[i].storage # ptr[u]
    <3>0. pc' = [pc EXCEPT ![t] = "idle"]
      BY <1>14 DEF Allocate
    <3>1. \A u \in Threads : pc'[u] # "freeRaw"
      BY <2>1, <3>0 DEF TypeOK
    <3> QED
      BY <3>1
  <2> QED
    BY <2>2, <2>3, <2>4, FreesStep
<1>15. ASSUME NEW t \in Threads, FreeRaw(t)
      PROVE  Frees'
  <2>1. /\ UNCHANGED ptr
        /\ \A u \in Threads :
             /\ pc'[u] \in FreeLabels => pc[u] \in FreeLabels
             /\ pc'[u] \in {"free", "freeHook", "freeRaw"} =>
                       pc[u] \in {"free", "freeHook", "freeRaw"}
    BY <1>15 DEF FreeRaw, FreeLabels, TypeOK
  <2>2. \A u \in Threads :
          pc'[u] \in {"free", "freeHook", "freeRaw"} => heap'[ptr[u]].kind = heap[ptr[u]].kind
    <3>1. heap' = heap \/ heap' = [heap EXCEPT ![ptr[t]] = Free]
      BY <1>15 DEF FreeRaw
    <3>2. pc[t] = "freeRaw" /\ pc' = [pc EXCEPT ![t] = "idle"]
      BY <1>15 DEF FreeRaw
    <3>3. \A u \in Threads : pc'[u] \in {"free", "freeHook", "freeRaw"} =>
              ptr[u] # ptr[t] /\ ptr[u] \in Addresses
      BY <3>2 DEF Frees, FreeLabels, TypeOK, Arguments
    <3> QED
      BY <3>1, <3>3 DEF TypeOK
  <2>3. \A u \in Threads : pc'[u] = "freeRaw" => \A i \in 1..Records : record'[i].storage # ptr[u]
    BY <1>15 DEF FreeRaw, Frees, TypeOK
  <2> QED
    BY <2>1, <2>2, <2>3, FreesStep
<1>16. ASSUME NEW t \in Threads, Invalidate(t)
      PROVE  Frees'
  BY <1>16 DEF Invalidate, Frees, FreeLabels, TypeOK, Describing
<1>17. ASSUME NEW t \in Threads, ReleaseStorage(t)
      PROVE  Frees'
  <2> DEFINE i == rec[t]
  <2>1. /\ pc[t] = "invalidate" /\ i \in 1..Records /\ record[i].ctx = context[t]
        /\ record[i].storage # None /\ (~record[i].array => record[i].storage = ptr[t])
    BY <1>17 DEF ReleaseStorage, Released, Working, HoldsT
  <2>2. ~StaleRecord(record[i].ctx)
    BY <2>1, OwnNotStale
  <2>3. record[i].array => heap[record[i].storage].kind = "array"
    BY <2>1, <2>2 DEF RecordsLive
  <2>4. \A u \in Threads \ {t} :
          pc[u] \in {"free", "freeHook", "freeRaw"} => ptr[u] # record[i].storage
    BY <2>1, <2>3 DEF Frees, FreeLabels
  <2>5. /\ heap' = [heap EXCEPT ![record[i].storage] = Free] /\ UNCHANGED ptr
        /\ record' = [record EXCEPT ![i] = Retire(record[i])] /\ pc' = [pc EXCEPT ![t] = "idle"]
    BY <1>17 DEF ReleaseStorage
  <2>6. \A j \in 1..Records : record'[j].storage \in {record[j].storage, None}
    BY <2>1, <2>5 DEF Retire, NoRecord, TypeOK, TextureRecords
  <2> HIDE DEF i
  <2> QED
    BY <2>1, <2>4, <2>5, <2>6 DEF Frees, FreeLabels, TypeOK, Arguments
<1>18. ASSUME NEW t \in Threads, ViewBorrowed(t)
      PROVE  Frees'
  <2>1. \A u \in Threads \ {t} : pc[u] # "freeRaw"
    BY <1>18, AloneA DEF ViewBorrowed, Locks, HoldsA
  <2>2. /\ UNCHANGED ptr
        /\ \A u \in Threads :
             /\ pc'[u] \in FreeLabels => pc[u] \in FreeLabels
             /\ pc'[u] \in {"free", "freeHook", "freeRaw"} =>
                       pc[u] \in {"free", "freeHook", "freeRaw"}
    BY <1>18 DEF ViewBorrowed, FreeLabels, TypeOK
  <2>3. \A u \in Threads :
          pc'[u] \in {"free", "freeHook", "freeRaw"} => heap'[ptr[u]].kind = heap[ptr[u]].kind
    BY <1>18 DEF ViewBorrowed
  <2>4. \A u \in Threads : pc'[u] = "freeRaw" => \A i \in 1..Records : record'[i].storage # ptr[u]
    <3>0. pc' = [pc EXCEPT ![t] = "idle"] \/ pc' = [pc EXCEPT ![t] = "describeNew"]
      BY <1>18 DEF ViewBorrowed
    <3>1. \A u \in Threads : pc'[u] # "freeRaw"
      BY <2>1, <3>0 DEF TypeOK
    <3> QED
      BY <3>1
  <2> QED
    BY <2>2, <2>3, <2>4, FreesStep
<1>19. ASSUME NEW t \in Threads, DescribeLeaks(t)
      PROVE  Frees'
  BY <1>19 DEF DescribeLeaks, Frees, FreeLabels, TypeOK, Describing
<1>20. ASSUME NEW t \in Threads, Describe(t)
      PROVE  Frees'
  <2>1. rec[t] \in 1..Records
    BY <1>20 DEF Describe, Describing, Working, HoldsT
  <2>2. /\ UNCHANGED <<heap, ptr>> /\ pc' = [pc EXCEPT ![t] = "idle"]
        /\ record' = [record EXCEPT ![rec[t]] = Counted(record[rec[t]])]
    BY <1>20 DEF Describe
  <2>3. \A j \in 1..Records : record'[j].storage = record[j].storage
    BY <2>1, <2>2 DEF Counted, TypeOK, TextureRecords
  <2> QED
    BY <2>2, <2>3 DEF Frees, FreeLabels, TypeOK
<1>21. ASSUME NEW t \in Threads, Destroy(t)
      PROVE  Frees'
  <2> DEFINE i == handle[HandleOf(ptr[t])].allocation
  <2>1. HandleOf(ptr[t]) \in 1..Handles /\ handle[HandleOf(ptr[t])].descriptor # None
    BY <1>21, LookupFacts DEF Destroy, Arguments
  <2>2. i \in 1..Records
    BY <2>1, HandleFacts
  <2>3. /\ UNCHANGED <<heap, ptr>> /\ pc' = [pc EXCEPT ![t] = "idle"]
        /\ record' = [record EXCEPT ![i] = Uncounted(record[i])]
    BY <1>21 DEF Destroy
  <2> HIDE DEF i
  <2>4. \A j \in 1..Records : record'[j].storage \in {record[j].storage, None}
    BY <2>2, <2>3 DEF Uncounted, NoRecord, TypeOK, TextureRecords
  <2> QED
    BY <2>3, <2>4 DEF Frees, FreeLabels, TypeOK, Arguments
<1>22. ASSUME NEW t \in Threads, ResetDevice(t)
      PROVE  Frees'
  <2>1. \A u \in Threads \ {t} :
          pc[u] \in {"free", "freeHook", "freeRaw"} => heap[ptr[u]].ctx # context[t]
    BY <1>22 DEF ResetDevice, Resets, ResetLabels, WorksOn
  <2> QED
    BY <1>22, <2>1 DEF ResetDevice, Frees, FreeLabels, TypeOK, Arguments
<1>23. ASSUME NEW t \in Threads, AfterReset(t)
      PROVE  Frees'
  <2>1. \A j \in 1..Records : record'[j].storage \in {record[j].storage, None}
    BY <1>23 DEF AfterReset, NoRecord
  <2>2. /\ UNCHANGED ptr
        /\ \A u \in Threads :
             /\ pc'[u] \in FreeLabels => pc[u] \in FreeLabels
             /\ pc'[u] \in {"free", "freeHook", "freeRaw"} =>
                       pc[u] \in {"free", "freeHook", "freeRaw"}
    BY <1>23 DEF AfterReset, FreeLabels, TypeOK
  <2>3. \A u \in Threads :
          pc'[u] \in {"free", "freeHook", "freeRaw"} => heap'[ptr[u]].kind = heap[ptr[u]].kind
    BY <1>23 DEF AfterReset
  <2>4. \A u \in Threads : pc'[u] = "freeRaw" => \A i \in 1..Records : record'[i].storage # ptr[u]
    <3>1. \A u \in Threads : pc'[u] = "freeRaw" => pc[u] = "freeRaw" /\ ptr[u] \in Addresses
      BY <1>23 DEF AfterReset, TypeOK, Arguments
    <3> QED
      BY <2>1, <3>1 DEF Frees
  <2> QED
    BY <2>2, <2>3, <2>4, FreesStep
<1>24. ASSUME NEW t \in Threads, ClearOwners(t)
      PROVE  Frees'
  BY <1>24 DEF ClearOwners, Frees, FreeLabels, TypeOK, Describing
<1>25. ASSUME UNCHANGED vars PROVE Frees'
  BY <1>25 DEF vars, Frees
<1> QED
  BY <1>1, <1>2, <1>3, <1>4, <1>5, <1>6, <1>7, <1>8, <1>9, <1>10,
     <1>11, <1>12, <1>13, <1>14, <1>15, <1>16, <1>17, <1>18, <1>19, <1>20,
     <1>21, <1>22, <1>23, <1>24, <1>25
     DEF Next, Step, Quiet

\* The hooks are there before any record or handle is.
LEMMA HooksNext == IInv /\ [Next]_vars => Hooks'
<1> SUFFICES ASSUME IInv, [Next]_vars PROVE Hooks'
  OBVIOUS
<1>0. TypeOK /\ Arguments /\ Working /\ Hooks
  BY DEF IInv
<1> USE <1>0
<1> USE RegistryAssumption DEF GoTo, Return, Unlock, UnlockBoth, tables, ViewRecord
<1>1. ASSUME NEW t \in Threads, Calls(t)
      PROVE  Hooks'
  <2>1. PICK l, x : l \in Labels /\ CallOf(t, l, x)
    BY <1>1, CallShape
  <2>2. UNCHANGED <<heap, desc, owner, record, handle, hooks, aLock, tLock, rec, ret, context>>
        /\ pc[t] = "idle"
    BY <1>1, CallShape
  <2> QED
    BY <2>1, <2>2 DEF CallOf, Hooks, TypeOK
<1>2. ASSUME NEW t \in Threads, NotReady(t)
      PROVE  Hooks'
  BY <1>2 DEF NotReady, Hooks, TypeOK, Describing
<1>3. ASSUME NEW t \in Threads, AllocateLock(t)
      PROVE  Hooks'
  BY <1>3 DEF AllocateLock, Hooks, TypeOK, Describing
<1>4. ASSUME NEW t \in Threads, FreeLock(t)
      PROVE  Hooks'
  BY <1>4 DEF FreeLock, Hooks, TypeOK, Describing
<1>5. ASSUME NEW t \in Threads, FreeHook(t)
      PROVE  Hooks'
  BY <1>5 DEF FreeHook, Hooks, TypeOK, Describing
<1>6. ASSUME NEW t \in Threads, FreeArrayLock(t)
      PROVE  Hooks'
  BY <1>6 DEF FreeArrayLock, Hooks, TypeOK, Describing
<1>7. ASSUME NEW t \in Threads, ReleaseFails(t)
      PROVE  Hooks'
  BY <1>7 DEF ReleaseFails, Hooks, TypeOK, Describing
<1>8. ASSUME NEW t \in Threads, ViewLock(t)
      PROVE  Hooks'
  BY <1>8 DEF ViewLock, Hooks, TypeOK, Describing
<1>9. ASSUME NEW t \in Threads, ViewArray(t)
      PROVE  Hooks'
  BY <1>9 DEF ViewArray, Hooks, TypeOK, Describing
<1>10. ASSUME NEW t \in Threads, ViewPitch(t)
      PROVE  Hooks'
  BY <1>10 DEF ViewPitch, Hooks, TypeOK, Describing
<1>11. ASSUME NEW t \in Threads, DescribeFails(t)
      PROVE  Hooks'
  BY <1>11 DEF DescribeFails, Hooks, TypeOK, Describing
<1>12. ASSUME NEW t \in Threads, DestroyFails(t)
      PROVE  Hooks'
  BY <1>12 DEF DestroyFails, Hooks, TypeOK, Describing
<1>13. ASSUME NEW t \in Threads, Malloc(t)
      PROVE  Hooks'
  BY <1>13 DEF Malloc, Hooks, TypeOK, Describing
<1>14. ASSUME NEW t \in Threads, Allocate(t)
      PROVE  Hooks'
  BY <1>14 DEF Allocate, Hooks, TypeOK
<1>15. ASSUME NEW t \in Threads, FreeRaw(t)
      PROVE  Hooks'
  BY <1>15 DEF FreeRaw, Hooks, TypeOK, Describing
<1>16. ASSUME NEW t \in Threads, Invalidate(t)
      PROVE  Hooks'
  BY <1>16 DEF Invalidate, Hooks, TypeOK, Describing
<1>17. ASSUME NEW t \in Threads, ReleaseStorage(t)
      PROVE  Hooks'
  <2>1. hooks
    BY <1>17 DEF ReleaseStorage, Released, Working, HoldsT, Hooks, NoRecord
  <2> QED
    BY <1>17, <2>1 DEF ReleaseStorage, Hooks, TypeOK
<1>18. ASSUME NEW t \in Threads, ViewBorrowed(t)
      PROVE  Hooks'
  BY <1>18 DEF ViewBorrowed, Hooks, TypeOK, Describing
<1>19. ASSUME NEW t \in Threads, DescribeLeaks(t)
      PROVE  Hooks'
  BY <1>19 DEF DescribeLeaks, Hooks, TypeOK, Describing
<1>20. ASSUME NEW t \in Threads, Describe(t)
      PROVE  Hooks'
  <2>1. hooks
    BY <1>20 DEF Describe, Describing, Working, HoldsT, Hooks, NoRecord
  <2> QED
    BY <1>20, <2>1 DEF Describe, Hooks, TypeOK
<1>21. ASSUME NEW t \in Threads, Destroy(t)
      PROVE  Hooks'
  <2>1. HandleOf(ptr[t]) \in 1..Handles /\ handle[HandleOf(ptr[t])].descriptor # None
    BY <1>21, LookupFacts DEF Destroy, Arguments
  <2>2. hooks
    BY <2>1 DEF Hooks
  <2> QED
    BY <1>21, <2>2 DEF Destroy, Hooks, TypeOK
<1>22. ASSUME NEW t \in Threads, ResetDevice(t)
      PROVE  Hooks'
  BY <1>22 DEF ResetDevice, Hooks, TypeOK, Describing
<1>23. ASSUME NEW t \in Threads, AfterReset(t)
      PROVE  Hooks'
  BY <1>23 DEF AfterReset, Hooks, TypeOK, NoHandle
<1>24. ASSUME NEW t \in Threads, ClearOwners(t)
      PROVE  Hooks'
  BY <1>24 DEF ClearOwners, Hooks, TypeOK, Describing
<1>25. ASSUME UNCHANGED vars PROVE Hooks'
  BY <1>25 DEF vars, Hooks
<1> QED
  BY <1>1, <1>2, <1>3, <1>4, <1>5, <1>6, <1>7, <1>8, <1>9, <1>10,
     <1>11, <1>12, <1>13, <1>14, <1>15, <1>16, <1>17, <1>18, <1>19, <1>20,
     <1>21, <1>22, <1>23, <1>24, <1>25
     DEF Next, Step, Quiet

-----------------------------------------------------------------------------
(* Resets *)

UsesStorage == {"view", "viewLocked", "free", "freeHook", "freeRaw"}
UsesArray == {"viewArray", "viewArrayLocked", "freeArray"}

\* A step leads a call on; it does not turn it into another call.
Onward(l, m) ==
  /\ l # "idle"
  /\ m \in UsesStorage => l \in UsesStorage
  /\ m \in UsesArray => l \in UsesArray
  /\ m = "destroy" => l = "destroy"
  /\ m \in ResetLabels => l \in ResetLabels
  /\ m \in FreeLabels => l \in FreeLabels

\* Every step of a thread leads its call on.
LEMMA StepShape ==
  ASSUME TypeOK, NEW t \in Threads, Step(t)
  PROVE  /\ UNCHANGED <<context, ptr>>
         /\ \E l : pc' = [pc EXCEPT ![t] = l] /\ Onward(pc[t], l)
<1>1. CASE NotReady(t)
  <2>1. UNCHANGED <<context, ptr>>
    BY <1>1 DEF NotReady, ViewRecord
  <2>2. /\ pc[t] \in
                  {"malloc", "allocate", "free", "view", "freeArray", "viewArray", "destroy", "reset"}
        /\ pc' = [pc EXCEPT ![t] = "idle"]
    BY <1>1 DEF NotReady, Released, Describing, GoTo, Return, ViewRecord
  <2>3. Onward(pc[t], "idle")
    BY <2>2 DEF Onward, UsesStorage, UsesArray, ResetLabels, FreeLabels
  <2> QED
    BY <2>1, <2>2, <2>3
<1>2. CASE AllocateLock(t)
  <2>1. UNCHANGED <<context, ptr>>
    BY <1>2 DEF AllocateLock, ViewRecord
  <2>2. /\ pc[t] = "allocate" /\ pc' = [pc EXCEPT ![t] = "allocateLocked"]
    BY <1>2 DEF AllocateLock, Released, Describing, GoTo, Return, ViewRecord
  <2>3. Onward(pc[t], "allocateLocked")
    BY <2>2 DEF Onward, UsesStorage, UsesArray, ResetLabels, FreeLabels
  <2> QED
    BY <2>1, <2>2, <2>3
<1>3. CASE FreeLock(t)
  <2>1. UNCHANGED <<context, ptr>>
    BY <1>3 DEF FreeLock, ViewRecord
  <2>2. /\ pc[t] = "free"
        /\ (\/ pc' = [pc EXCEPT ![t] = "freeHook"]
            \/ pc' = [pc EXCEPT ![t] = "freeRaw"])
    BY <1>3 DEF FreeLock, Released, Describing, GoTo, Return, ViewRecord
  <2>3. Onward(pc[t], "freeHook") /\ Onward(pc[t], "freeRaw")
    BY <2>2 DEF Onward, UsesStorage, UsesArray, ResetLabels, FreeLabels
  <2> QED
    BY <2>1, <2>2, <2>3
<1>4. CASE FreeHook(t)
  <2>1. UNCHANGED <<context, ptr>>
    BY <1>4 DEF FreeHook, ViewRecord
  <2>2. /\ pc[t] = "freeHook"
        /\ (\/ pc' = [pc EXCEPT ![t] = "freeRaw"]
            \/ pc' = [pc EXCEPT ![t] = "idle"]
            \/ pc' = [pc EXCEPT ![t] = "invalidate"])
    BY <1>4 DEF FreeHook, Released, Describing, GoTo, Return, ViewRecord
  <2>3. Onward(pc[t], "freeRaw") /\ Onward(pc[t], "idle") /\ Onward(pc[t], "invalidate")
    BY <2>2 DEF Onward, UsesStorage, UsesArray, ResetLabels, FreeLabels
  <2> QED
    BY <2>1, <2>2, <2>3
<1>5. CASE FreeArrayLock(t)
  <2>1. UNCHANGED <<context, ptr>>
    BY <1>5 DEF FreeArrayLock, ViewRecord
  <2>2. /\ pc[t] = "freeArray"
        /\ (\/ pc' = [pc EXCEPT ![t] = "idle"]
            \/ pc' = [pc EXCEPT ![t] = "invalidate"])
    BY <1>5 DEF FreeArrayLock, Released, Describing, GoTo, Return, ViewRecord
  <2>3. Onward(pc[t], "idle") /\ Onward(pc[t], "invalidate")
    BY <2>2 DEF Onward, UsesStorage, UsesArray, ResetLabels, FreeLabels
  <2> QED
    BY <2>1, <2>2, <2>3
<1>6. CASE ReleaseFails(t)
  <2>1. UNCHANGED <<context, ptr>>
    BY <1>6 DEF ReleaseFails, ViewRecord
  <2>2. /\ pc[t] = "invalidate" /\ pc' = [pc EXCEPT ![t] = "idle"]
    BY <1>6 DEF ReleaseFails, Released, Describing, GoTo, Return, ViewRecord
  <2>3. Onward(pc[t], "idle")
    BY <2>2 DEF Onward, UsesStorage, UsesArray, ResetLabels, FreeLabels
  <2> QED
    BY <2>1, <2>2, <2>3
<1>7. CASE ViewLock(t)
  <2>1. UNCHANGED <<context, ptr>>
    BY <1>7 DEF ViewLock, ViewRecord
  <2>2. /\ (\/ pc[t] = "view" /\ pc' = [pc EXCEPT ![t] = "viewLocked"]
            \/ pc[t] = "viewArray" /\ pc' = [pc EXCEPT ![t] = "viewArrayLocked"])
    BY <1>7 DEF ViewLock, Released, Describing, GoTo, Return, ViewRecord
  <2> QED
    BY <2>1, <2>2 DEF Onward, UsesStorage, UsesArray, ResetLabels, FreeLabels
<1>8. CASE ViewArray(t)
  <2>1. UNCHANGED <<context, ptr>>
    BY <1>8 DEF ViewArray, ViewRecord
  <2>2. /\ pc[t] = "viewArrayLocked"
        /\ (\/ pc' = [pc EXCEPT ![t] = "idle"]
            \/ pc' = [pc EXCEPT ![t] = "describe"])
    BY <1>8 DEF ViewArray, Released, Describing, GoTo, Return, ViewRecord
  <2>3. Onward(pc[t], "idle") /\ Onward(pc[t], "describe")
    BY <2>2 DEF Onward, UsesStorage, UsesArray, ResetLabels, FreeLabels
  <2> QED
    BY <2>1, <2>2, <2>3
<1>9. CASE ViewPitch(t)
  <2>1. UNCHANGED <<context, ptr>>
    BY <1>9 DEF ViewPitch, ViewRecord
  <2>2. /\ pc[t] = "viewLocked"
        /\ (\/ pc' = [pc EXCEPT ![t] = "idle"]
            \/ pc' = [pc EXCEPT ![t] = "describe"])
    BY <1>9 DEF ViewPitch, Released, Describing, GoTo, Return, ViewRecord
  <2>3. Onward(pc[t], "idle") /\ Onward(pc[t], "describe")
    BY <2>2 DEF Onward, UsesStorage, UsesArray, ResetLabels, FreeLabels
  <2> QED
    BY <2>1, <2>2, <2>3
<1>10. CASE DescribeFails(t)
  <2>1. UNCHANGED <<context, ptr>>
    BY <1>10 DEF DescribeFails, ViewRecord
  <2>2. /\ pc[t] \in {"describe", "describeNew"} /\ pc' = [pc EXCEPT ![t] = "idle"]
    BY <1>10 DEF DescribeFails, Released, Describing, GoTo, Return, ViewRecord
  <2>3. Onward(pc[t], "idle")
    BY <2>2 DEF Onward, UsesStorage, UsesArray, ResetLabels, FreeLabels
  <2> QED
    BY <2>1, <2>2, <2>3
<1>11. CASE DestroyFails(t)
  <2>1. UNCHANGED <<context, ptr>>
    BY <1>11 DEF DestroyFails, ViewRecord
  <2>2. /\ pc[t] = "destroy" /\ pc' = [pc EXCEPT ![t] = "idle"]
    BY <1>11 DEF DestroyFails, Released, Describing, GoTo, Return, ViewRecord
  <2>3. Onward(pc[t], "idle")
    BY <2>2 DEF Onward, UsesStorage, UsesArray, ResetLabels, FreeLabels
  <2> QED
    BY <2>1, <2>2, <2>3
<1>12. CASE Malloc(t)
  <2>1. UNCHANGED <<context, ptr>>
    BY <1>12 DEF Malloc, ViewRecord
  <2>2. /\ pc[t] = "malloc" /\ pc' = [pc EXCEPT ![t] = "idle"]
    BY <1>12 DEF Malloc, Released, Describing, GoTo, Return, ViewRecord
  <2>3. Onward(pc[t], "idle")
    BY <2>2 DEF Onward, UsesStorage, UsesArray, ResetLabels, FreeLabels
  <2> QED
    BY <2>1, <2>2, <2>3
<1>13. CASE Allocate(t)
  <2>1. UNCHANGED <<context, ptr>>
    BY <1>13 DEF Allocate, ViewRecord
  <2>2. /\ pc[t] = "allocateLocked" /\ pc' = [pc EXCEPT ![t] = "idle"]
    BY <1>13 DEF Allocate, Released, Describing, GoTo, Return, ViewRecord
  <2>3. Onward(pc[t], "idle")
    BY <2>2 DEF Onward, UsesStorage, UsesArray, ResetLabels, FreeLabels
  <2> QED
    BY <2>1, <2>2, <2>3
<1>14. CASE FreeRaw(t)
  <2>1. UNCHANGED <<context, ptr>>
    BY <1>14 DEF FreeRaw, ViewRecord
  <2>2. /\ pc[t] = "freeRaw" /\ pc' = [pc EXCEPT ![t] = "idle"]
    BY <1>14 DEF FreeRaw, Released, Describing, GoTo, Return, ViewRecord
  <2>3. Onward(pc[t], "idle")
    BY <2>2 DEF Onward, UsesStorage, UsesArray, ResetLabels, FreeLabels
  <2> QED
    BY <2>1, <2>2, <2>3
<1>15. CASE Invalidate(t)
  <2>1. UNCHANGED <<pc, ptr, context>> /\ pc[t] = "invalidate"
    BY <1>15 DEF Invalidate
  <2>2. pc' = [pc EXCEPT ![t] = "invalidate"]
    BY <2>1 DEF TypeOK
  <2> QED
    BY <2>1, <2>2 DEF Onward, UsesStorage, UsesArray, ResetLabels, FreeLabels
<1>16. CASE ReleaseStorage(t)
  <2>1. UNCHANGED <<context, ptr>>
    BY <1>16 DEF ReleaseStorage, ViewRecord
  <2>2. /\ pc[t] = "invalidate" /\ pc' = [pc EXCEPT ![t] = "idle"]
    BY <1>16 DEF ReleaseStorage, Released, Describing, GoTo, Return, ViewRecord
  <2>3. Onward(pc[t], "idle")
    BY <2>2 DEF Onward, UsesStorage, UsesArray, ResetLabels, FreeLabels
  <2> QED
    BY <2>1, <2>2, <2>3
<1>17. CASE ViewBorrowed(t)
  <2>1. UNCHANGED <<context, ptr>>
    BY <1>17 DEF ViewBorrowed, ViewRecord
  <2>2. /\ pc[t] = "viewLocked"
        /\ (\/ pc' = [pc EXCEPT ![t] = "idle"]
            \/ pc' = [pc EXCEPT ![t] = "describeNew"])
    BY <1>17 DEF ViewBorrowed, Released, Describing, GoTo, Return, ViewRecord
  <2>3. Onward(pc[t], "idle") /\ Onward(pc[t], "describeNew")
    BY <2>2 DEF Onward, UsesStorage, UsesArray, ResetLabels, FreeLabels
  <2> QED
    BY <2>1, <2>2, <2>3
<1>18. CASE DescribeLeaks(t)
  <2>1. UNCHANGED <<context, ptr>>
    BY <1>18 DEF DescribeLeaks, ViewRecord
  <2>2. /\ pc[t] \in {"describe", "describeNew"} /\ pc' = [pc EXCEPT ![t] = "idle"]
    BY <1>18 DEF DescribeLeaks, Released, Describing, GoTo, Return, ViewRecord
  <2>3. Onward(pc[t], "idle")
    BY <2>2 DEF Onward, UsesStorage, UsesArray, ResetLabels, FreeLabels
  <2> QED
    BY <2>1, <2>2, <2>3
<1>19. CASE Describe(t)
  <2>1. UNCHANGED <<context, ptr>>
    BY <1>19 DEF Describe, ViewRecord
  <2>2. /\ pc[t] \in {"describe", "describeNew"} /\ pc' = [pc EXCEPT ![t] = "idle"]
    BY <1>19 DEF Describe, Released, Describing, GoTo, Return, ViewRecord
  <2>3. Onward(pc[t], "idle")
    BY <2>2 DEF Onward, UsesStorage, UsesArray, ResetLabels, FreeLabels
  <2> QED
    BY <2>1, <2>2, <2>3
<1>20. CASE Destroy(t)
  <2>1. UNCHANGED <<context, ptr>>
    BY <1>20 DEF Destroy, ViewRecord
  <2>2. /\ pc[t] = "destroy" /\ pc' = [pc EXCEPT ![t] = "idle"]
    BY <1>20 DEF Destroy, Released, Describing, GoTo, Return, ViewRecord
  <2>3. Onward(pc[t], "idle")
    BY <2>2 DEF Onward, UsesStorage, UsesArray, ResetLabels, FreeLabels
  <2> QED
    BY <2>1, <2>2, <2>3
<1>21. CASE ResetDevice(t)
  <2>1. UNCHANGED <<context, ptr>>
    BY <1>21 DEF ResetDevice, ViewRecord
  <2>2. /\ pc[t] = "reset"
        /\ (\/ pc' = [pc EXCEPT ![t] = "afterReset"]
            \/ pc' = [pc EXCEPT ![t] = "clearOwners"])
    BY <1>21 DEF ResetDevice, Released, Describing, GoTo, Return, ViewRecord
  <2>3. Onward(pc[t], "afterReset") /\ Onward(pc[t], "clearOwners")
    BY <2>2 DEF Onward, UsesStorage, UsesArray, ResetLabels, FreeLabels
  <2> QED
    BY <2>1, <2>2, <2>3
<1>22. CASE AfterReset(t)
  <2>1. UNCHANGED <<context, ptr>>
    BY <1>22 DEF AfterReset, ViewRecord
  <2>2. /\ pc[t] = "afterReset" /\ pc' = [pc EXCEPT ![t] = "clearOwners"]
    BY <1>22 DEF AfterReset, Released, Describing, GoTo, Return, ViewRecord
  <2>3. Onward(pc[t], "clearOwners")
    BY <2>2 DEF Onward, UsesStorage, UsesArray, ResetLabels, FreeLabels
  <2> QED
    BY <2>1, <2>2, <2>3
<1>23. CASE ClearOwners(t)
  <2>1. UNCHANGED <<context, ptr>>
    BY <1>23 DEF ClearOwners, ViewRecord
  <2>2. /\ pc[t] = "clearOwners" /\ pc' = [pc EXCEPT ![t] = "idle"]
    BY <1>23 DEF ClearOwners, Released, Describing, GoTo, Return, ViewRecord
  <2>3. Onward(pc[t], "idle")
    BY <2>2 DEF Onward, UsesStorage, UsesArray, ResetLabels, FreeLabels
  <2> QED
    BY <2>1, <2>2, <2>3
<1> QED
  BY <1>1, <1>2, <1>3, <1>4, <1>5, <1>6, <1>7, <1>8, <1>9, <1>10,
     <1>11, <1>12, <1>13, <1>14, <1>15, <1>16, <1>17, <1>18, <1>19, <1>20,
     <1>21, <1>22, <1>23 DEF Step

\* A step puts no thread to work on a context, but may give what it makes the
\* context of its own thread.
LEMMA WorksStep ==
  ASSUME TypeOK, Arguments, NEW t \in Threads, UNCHANGED <<context, ptr>>,
         NEW l, pc' = [pc EXCEPT ![t] = l], Onward(pc[t], l), NEW K,
         \A a \in Addresses : heap'[a].ctx \in {heap[a].ctx, None} \cup K,
         \A d \in Descriptors : desc'[d].ctx \in {desc[d].ctx, None} \cup K,
         \A i \in 1..Records : record'[i].ctx \in {record[i].ctx, None} \cup K,
         NEW u \in Threads, NEW k, k # None, WorksOn(u, k)'
  PROVE  WorksOn(u, k) \/ k \in K
<1>1. pc'[u] = IF u = t THEN l ELSE pc[u]
  BY DEF TypeOK
<1>2. CASE pc'[u] # "idle" /\ context'[u] = k
  BY <1>1, <1>2 DEF WorksOn, Onward
<1>3. CASE pc'[u] \in UsesStorage /\ heap'[ptr'[u]].ctx = k
  <2>1. pc[u] \in UsesStorage
    BY <1>1, <1>3 DEF Onward
  <2>2. ptr[u] \in Addresses
    BY <2>1 DEF Arguments, UsesStorage
  <2> QED
    BY <1>3, <2>1, <2>2 DEF WorksOn, UsesStorage
<1>4. CASE pc'[u] \in UsesArray /\ record'[ptr'[u]].ctx = k
  <2>1. pc[u] \in UsesArray
    BY <1>1, <1>4 DEF Onward
  <2>2. ptr[u] \in 1..Records
    BY <2>1 DEF Arguments, UsesArray
  <2> QED
    BY <1>4, <2>1, <2>2 DEF WorksOn, UsesArray
<1>5. CASE pc'[u] = "destroy" /\ desc'[ptr'[u]].ctx = k
  <2>1. pc[u] = "destroy"
    BY <1>1, <1>5 DEF Onward
  <2>2. ptr[u] \in Descriptors
    BY <2>1 DEF Arguments
  <2> QED
    BY <1>5, <2>1, <2>2 DEF WorksOn
<1> QED
  BY <1>2, <1>3, <1>4, <1>5 DEF WorksOn, UsesStorage, UsesArray

\* What a step must show to respect the resets under way.
LEMMA ResetsKept ==
  ASSUME TypeOK, Arguments, Resets, NEW t \in Threads, Step(t), NEW K,
         \A a \in Addresses : heap'[a].ctx \in {heap[a].ctx, None} \cup K,
         \A d \in Descriptors : desc'[d].ctx \in {desc[d].ctx, None} \cup K,
         \A i \in 1..Records : record'[i].ctx \in {record[i].ctx, None} \cup K,
         K = {} \/ (K = {context[t]} /\ pc'[t] \notin ResetLabels),
         pc'[t] \in {"afterReset", "clearOwners"} =>
           /\ \A a \in Addresses : heap'[a].ctx # context[t]
           /\ \A d \in Descriptors : desc'[d].ctx # context[t]
  PROVE  Resets'
<1>7. UNCHANGED <<context, ptr>>
  BY StepShape
<1>8. PICK l : pc' = [pc EXCEPT ![t] = l] /\ Onward(pc[t], l)
  BY StepShape
<1>9. pc'[t] = l
  BY <1>8 DEF TypeOK
<1> SUFFICES ASSUME NEW v \in Threads
             PROVE  /\ pc'[v] \in ResetLabels =>
                         \A u \in Threads \ {v} : ~WorksOn(u, context[v])'
                    /\ pc'[v] \in {"afterReset", "clearOwners"} =>
                         /\ \A a \in Addresses : heap'[a].ctx # context[v]
                         /\ \A d \in Descriptors : desc'[d].ctx # context[v]
  BY <1>7 DEF Resets
<1>1. pc'[v] = IF v = t THEN l ELSE pc[v]
  BY <1>8 DEF TypeOK
<1>2. context[v] # None /\ context[t] # None
  BY ContextFacts
<1>3. v # t /\ pc[v] \in ResetLabels => context[v] # context[t]
  BY <1>8 DEF Resets, WorksOn, Onward
<1>4. pc'[v] \in ResetLabels => pc[v] \in ResetLabels /\ context[v] \notin K
  BY <1>1, <1>3, <1>8, <1>9 DEF Onward
<1>5. ASSUME pc'[v] \in ResetLabels, NEW u \in Threads \ {v}, WorksOn(u, context[v])'
      PROVE  FALSE
  <2>1. WorksOn(u, context[v]) \/ context[v] \in K
    BY <1>2, <1>5, <1>7, <1>8, WorksStep
  <2> QED
    BY <1>4, <1>5, <1>7, <2>1 DEF Resets
<1>6. ASSUME v # t, pc'[v] \in {"afterReset", "clearOwners"}
      PROVE  /\ \A a \in Addresses : heap'[a].ctx # context[v]
             /\ \A d \in Descriptors : desc'[d].ctx # context[v]
  <2>1. pc[v] \in {"afterReset", "clearOwners"} /\ context[v] \notin K
    BY <1>1, <1>4, <1>6 DEF ResetLabels
  <2>2. /\ \A a \in Addresses : heap[a].ctx # context[v]
        /\ \A d \in Descriptors : desc[d].ctx # context[v]
    BY <2>1 DEF Resets
  <2> QED
    BY <1>2, <2>1, <2>2
<1> QED
  BY <1>1, <1>5, <1>6, <1>9

\* A reset context is nobody else's and has nothing.
LEMMA ResetsNext == IInv /\ [Next]_vars => Resets'
<1> SUFFICES ASSUME IInv, [Next]_vars PROVE Resets'
  OBVIOUS
<1>0. TypeOK /\ Arguments /\ Working /\ Resets
  BY DEF IInv
<1> USE <1>0
<1> USE RegistryAssumption DEF GoTo, Return, Unlock, UnlockBoth, tables, ViewRecord
<1>1. ASSUME NEW t \in Threads, Calls(t)
      PROVE  Resets'
  <2>1. PICK l, x : l \in Labels /\ CallOf(t, l, x)
    BY <1>1, CallShape
  <2>2. UNCHANGED <<heap, desc, owner, record, handle, context>> /\ pc[t] = "idle" /\ ~Resetting(context[t])
    BY <1>1, CallShape
  <2>3. \A u \in Threads \ {t} : pc'[u] = pc[u] /\ ptr'[u] = ptr[u]
    BY <2>1 DEF CallOf, TypeOK
  <2>4. /\ pc'[t] = l /\ ptr'[t] = x
        /\ l \notin {"afterReset", "clearOwners", "viewLocked", "freeHook", "freeRaw", "viewArrayLocked"}
    BY <2>1 DEF CallOf, TypeOK
  <2>5. \A u \in Threads \ {t} : \A k : WorksOn(u, k)' <=> WorksOn(u, k)
    BY <2>2, <2>3 DEF WorksOn
  <2>6. \A k : Resetting(k) => ~WorksOn(t, k)'
    <3>1. l \in {"view", "free"} => ~Resetting(heap[x].ctx)
      BY <2>1 DEF CallOf
    <3>2. l \in {"viewArray", "freeArray"} => ~Resetting(record[x].ctx)
      BY <2>1 DEF CallOf
    <3>3. l = "destroy" => ~Resetting(desc[x].ctx)
      BY <2>1 DEF CallOf
    <3> QED
      BY <2>2, <2>4, <3>1, <3>2, <3>3 DEF WorksOn
  <2>7. \A v \in Threads \ {t} : pc[v] \in ResetLabels => Resetting(context[v])
    BY DEF Resetting, ResetLabels
  <2>8. l = "reset" => \A u \in Threads \ {t} : ~WorksOn(u, context[t])
    BY <2>1 DEF CallOf
  <2>9. ASSUME NEW v \in Threads \ {t}, pc'[v] \in ResetLabels, NEW u \in Threads \ {v}
        PROVE  ~WorksOn(u, context[v])'
    <3>1. pc[v] \in ResetLabels
      BY <2>3, <2>9
    <3>2. CASE u = t
      BY <2>2, <2>6, <2>7, <3>1, <3>2
    <3>3. CASE u # t
      BY <2>2, <2>5, <2>9, <3>1, <3>3 DEF Resets
    <3> QED
      BY <3>2, <3>3
  <2>10. ASSUME pc'[t] \in ResetLabels, NEW u \in Threads \ {t} PROVE ~WorksOn(u, context[t])'
    <3>1. l = "reset"
      BY <2>4, <2>10 DEF ResetLabels
    <3> QED
      BY <2>2, <2>5, <2>8, <3>1
  <2>11. \A v \in Threads : pc'[v] \in {"afterReset", "clearOwners"} =>
            pc[v] \in {"afterReset", "clearOwners"}
    BY <2>3, <2>4
  <2> QED
    BY <2>2, <2>9, <2>10, <2>11 DEF Resets
<1>2. ASSUME NEW t \in Threads, NotReady(t)
      PROVE  Resets'
  <2>1. Step(t) /\ pc'[t] \notin {"reset", "afterReset", "clearOwners"}
    BY <1>2 DEF Step, NotReady, TypeOK, Describing
  <2>2. \A a \in Addresses : heap'[a].ctx \in {heap[a].ctx, None} \cup {}
    BY <1>2 DEF NotReady
  <2>3. \A d \in Descriptors : desc'[d].ctx \in {desc[d].ctx, None} \cup {}
    BY <1>2 DEF NotReady
  <2>4. \A i \in 1..Records : record'[i].ctx \in {record[i].ctx, None} \cup {}
    BY <1>2 DEF NotReady
  <2> QED
    BY <2>1, <2>2, <2>3, <2>4, ResetsKept DEF ResetLabels
<1>3. ASSUME NEW t \in Threads, AllocateLock(t)
      PROVE  Resets'
  <2>1. Step(t) /\ pc'[t] \notin {"reset", "afterReset", "clearOwners"}
    BY <1>3 DEF Step, AllocateLock, TypeOK, Describing
  <2>2. \A a \in Addresses : heap'[a].ctx \in {heap[a].ctx, None} \cup {}
    BY <1>3 DEF AllocateLock
  <2>3. \A d \in Descriptors : desc'[d].ctx \in {desc[d].ctx, None} \cup {}
    BY <1>3 DEF AllocateLock
  <2>4. \A i \in 1..Records : record'[i].ctx \in {record[i].ctx, None} \cup {}
    BY <1>3 DEF AllocateLock
  <2> QED
    BY <2>1, <2>2, <2>3, <2>4, ResetsKept DEF ResetLabels
<1>4. ASSUME NEW t \in Threads, FreeLock(t)
      PROVE  Resets'
  <2>1. Step(t) /\ pc'[t] \notin {"reset", "afterReset", "clearOwners"}
    BY <1>4 DEF Step, FreeLock, TypeOK, Describing
  <2>2. \A a \in Addresses : heap'[a].ctx \in {heap[a].ctx, None} \cup {}
    BY <1>4 DEF FreeLock
  <2>3. \A d \in Descriptors : desc'[d].ctx \in {desc[d].ctx, None} \cup {}
    BY <1>4 DEF FreeLock
  <2>4. \A i \in 1..Records : record'[i].ctx \in {record[i].ctx, None} \cup {}
    BY <1>4 DEF FreeLock
  <2> QED
    BY <2>1, <2>2, <2>3, <2>4, ResetsKept DEF ResetLabels
<1>5. ASSUME NEW t \in Threads, FreeHook(t)
      PROVE  Resets'
  <2>1. Step(t) /\ pc'[t] \notin {"reset", "afterReset", "clearOwners"}
    BY <1>5 DEF Step, FreeHook, TypeOK, Describing
  <2>2. \A a \in Addresses : heap'[a].ctx \in {heap[a].ctx, None} \cup {}
    BY <1>5 DEF FreeHook
  <2>3. \A d \in Descriptors : desc'[d].ctx \in {desc[d].ctx, None} \cup {}
    BY <1>5 DEF FreeHook
  <2>4. \A i \in 1..Records : record'[i].ctx \in {record[i].ctx, None} \cup {}
    BY <1>5 DEF FreeHook
  <2> QED
    BY <2>1, <2>2, <2>3, <2>4, ResetsKept DEF ResetLabels
<1>6. ASSUME NEW t \in Threads, FreeArrayLock(t)
      PROVE  Resets'
  <2>1. Step(t) /\ pc'[t] \notin {"reset", "afterReset", "clearOwners"}
    BY <1>6 DEF Step, FreeArrayLock, TypeOK, Describing
  <2>2. \A a \in Addresses : heap'[a].ctx \in {heap[a].ctx, None} \cup {}
    BY <1>6 DEF FreeArrayLock
  <2>3. \A d \in Descriptors : desc'[d].ctx \in {desc[d].ctx, None} \cup {}
    BY <1>6 DEF FreeArrayLock
  <2>4. \A i \in 1..Records : record'[i].ctx \in {record[i].ctx, None} \cup {}
    BY <1>6 DEF FreeArrayLock
  <2> QED
    BY <2>1, <2>2, <2>3, <2>4, ResetsKept DEF ResetLabels
<1>7. ASSUME NEW t \in Threads, ReleaseFails(t)
      PROVE  Resets'
  <2>1. Step(t) /\ pc'[t] \notin {"reset", "afterReset", "clearOwners"}
    BY <1>7 DEF Step, ReleaseFails, TypeOK, Describing
  <2>2. \A a \in Addresses : heap'[a].ctx \in {heap[a].ctx, None} \cup {}
    BY <1>7 DEF ReleaseFails
  <2>3. \A d \in Descriptors : desc'[d].ctx \in {desc[d].ctx, None} \cup {}
    BY <1>7 DEF ReleaseFails
  <2>4. \A i \in 1..Records : record'[i].ctx \in {record[i].ctx, None} \cup {}
    BY <1>7 DEF ReleaseFails
  <2> QED
    BY <2>1, <2>2, <2>3, <2>4, ResetsKept DEF ResetLabels
<1>8. ASSUME NEW t \in Threads, ViewLock(t)
      PROVE  Resets'
  <2>1. Step(t) /\ pc'[t] \notin {"reset", "afterReset", "clearOwners"}
    BY <1>8 DEF Step, ViewLock, TypeOK, Describing
  <2>2. \A a \in Addresses : heap'[a].ctx \in {heap[a].ctx, None} \cup {}
    BY <1>8 DEF ViewLock
  <2>3. \A d \in Descriptors : desc'[d].ctx \in {desc[d].ctx, None} \cup {}
    BY <1>8 DEF ViewLock
  <2>4. \A i \in 1..Records : record'[i].ctx \in {record[i].ctx, None} \cup {}
    BY <1>8 DEF ViewLock
  <2> QED
    BY <2>1, <2>2, <2>3, <2>4, ResetsKept DEF ResetLabels
<1>9. ASSUME NEW t \in Threads, ViewArray(t)
      PROVE  Resets'
  <2>1. Step(t) /\ pc'[t] \notin {"reset", "afterReset", "clearOwners"}
    BY <1>9 DEF Step, ViewArray, TypeOK, Describing
  <2>2. \A a \in Addresses : heap'[a].ctx \in {heap[a].ctx, None} \cup {}
    BY <1>9 DEF ViewArray
  <2>3. \A d \in Descriptors : desc'[d].ctx \in {desc[d].ctx, None} \cup {}
    BY <1>9 DEF ViewArray
  <2>4. \A i \in 1..Records : record'[i].ctx \in {record[i].ctx, None} \cup {}
    BY <1>9 DEF ViewArray
  <2> QED
    BY <2>1, <2>2, <2>3, <2>4, ResetsKept DEF ResetLabels
<1>10. ASSUME NEW t \in Threads, ViewPitch(t)
      PROVE  Resets'
  <2>1. Step(t) /\ pc'[t] \notin {"reset", "afterReset", "clearOwners"}
    BY <1>10 DEF Step, ViewPitch, TypeOK, Describing
  <2>2. \A a \in Addresses : heap'[a].ctx \in {heap[a].ctx, None} \cup {}
    BY <1>10 DEF ViewPitch
  <2>3. \A d \in Descriptors : desc'[d].ctx \in {desc[d].ctx, None} \cup {}
    BY <1>10 DEF ViewPitch
  <2>4. \A i \in 1..Records : record'[i].ctx \in {record[i].ctx, None} \cup {}
    BY <1>10 DEF ViewPitch
  <2> QED
    BY <2>1, <2>2, <2>3, <2>4, ResetsKept DEF ResetLabels
<1>11. ASSUME NEW t \in Threads, DescribeFails(t)
      PROVE  Resets'
  <2>1. Step(t) /\ pc'[t] \notin {"reset", "afterReset", "clearOwners"}
    BY <1>11 DEF Step, DescribeFails, TypeOK, Describing
  <2>2. \A a \in Addresses : heap'[a].ctx \in {heap[a].ctx, None} \cup {}
    BY <1>11 DEF DescribeFails
  <2>3. \A d \in Descriptors : desc'[d].ctx \in {desc[d].ctx, None} \cup {}
    BY <1>11 DEF DescribeFails
  <2>4. \A i \in 1..Records : record'[i].ctx \in {record[i].ctx, None} \cup {}
    BY <1>11 DEF DescribeFails
  <2> QED
    BY <2>1, <2>2, <2>3, <2>4, ResetsKept DEF ResetLabels
<1>12. ASSUME NEW t \in Threads, DestroyFails(t)
      PROVE  Resets'
  <2>1. Step(t) /\ pc'[t] \notin {"reset", "afterReset", "clearOwners"}
    BY <1>12 DEF Step, DestroyFails, TypeOK, Describing
  <2>2. \A a \in Addresses : heap'[a].ctx \in {heap[a].ctx, None} \cup {}
    BY <1>12 DEF DestroyFails
  <2>3. \A d \in Descriptors : desc'[d].ctx \in {desc[d].ctx, None} \cup {}
    BY <1>12 DEF DestroyFails
  <2>4. \A i \in 1..Records : record'[i].ctx \in {record[i].ctx, None} \cup {}
    BY <1>12 DEF DestroyFails
  <2> QED
    BY <2>1, <2>2, <2>3, <2>4, ResetsKept DEF ResetLabels
<1>13. ASSUME NEW t \in Threads, Malloc(t)
      PROVE  Resets'
  <2>1. Step(t) /\ pc'[t] \notin {"reset", "afterReset", "clearOwners"}
    BY <1>13 DEF Step, Malloc, TypeOK, ResetLabels
  <2>2. \A a \in Addresses : heap'[a].ctx \in {heap[a].ctx, None} \cup {context[t]}
    <3>1. heap' = heap \/ \E a \in Addresses : \E k :
              heap' = [heap EXCEPT ![a] = [kind |-> k, gen |-> NextGen, ctx |-> context[t]]]
      BY <1>13 DEF Malloc
    <3>2. ASSUME NEW a \in Addresses, NEW k,
                 heap' = [heap EXCEPT ![a] = [kind |-> k, gen |-> NextGen, ctx |-> context[t]]],
                 NEW b \in Addresses
          PROVE  heap'[b].ctx \in {heap[b].ctx, context[t]}
      BY <3>2 DEF TypeOK
    <3> QED
      BY <3>1, <3>2
  <2>3. \A d \in Descriptors : desc'[d].ctx \in {desc[d].ctx, None} \cup {context[t]}
    BY <1>13 DEF Malloc
  <2>4. \A i \in 1..Records : record'[i].ctx \in {record[i].ctx, None} \cup {context[t]}
    BY <1>13 DEF Malloc
  <2> QED
    BY <2>1, <2>2, <2>3, <2>4, ResetsKept DEF ResetLabels
<1>14. ASSUME NEW t \in Threads, Allocate(t)
      PROVE  Resets'
  <2>1. Step(t) /\ pc'[t] \notin {"reset", "afterReset", "clearOwners"}
    BY <1>14 DEF Step, Allocate, TypeOK, ResetLabels
  <2>2. \A a \in Addresses : heap'[a].ctx \in {heap[a].ctx, None} \cup {context[t]}
    <3>1. heap' = heap \/ \E a \in Addresses : \E k :
              heap' = [heap EXCEPT ![a] = [kind |-> k, gen |-> NextGen, ctx |-> context[t]]]
      BY <1>14 DEF Allocate
    <3>2. ASSUME NEW a \in Addresses, NEW k,
                 heap' = [heap EXCEPT ![a] = [kind |-> k, gen |-> NextGen, ctx |-> context[t]]],
                 NEW b \in Addresses
          PROVE  heap'[b].ctx \in {heap[b].ctx, context[t]}
      BY <3>2 DEF TypeOK
    <3> QED
      BY <3>1, <3>2
  <2>3. \A d \in Descriptors : desc'[d].ctx \in {desc[d].ctx, None} \cup {context[t]}
    BY <1>14 DEF Allocate
  <2>4. \A i \in 1..Records : record'[i].ctx \in {record[i].ctx, None} \cup {context[t]}
    <3>2. record' = record \/ \E a, b :
            record' = [record EXCEPT ![FreeRecord] =
                      [storage |-> a, ctx |-> context[t], refs |-> 0, array |-> b]]
      BY <1>14 DEF Allocate
    <3>3. ASSUME NEW a, NEW b, NEW i \in 1..Records, record' = [record EXCEPT ![FreeRecord] =
              [storage |-> a, ctx |-> context[t], refs |-> 0, array |-> b]]
          PROVE  record'[i].ctx \in {record[i].ctx, context[t]}
      BY <3>3 DEF TypeOK
    <3> QED
      BY <3>2, <3>3
  <2> QED
    BY <2>1, <2>2, <2>3, <2>4, ResetsKept DEF ResetLabels
<1>15. ASSUME NEW t \in Threads, FreeRaw(t)
      PROVE  Resets'
  <2>1. Step(t) /\ pc'[t] \notin {"reset", "afterReset", "clearOwners"}
    BY <1>15 DEF Step, FreeRaw, TypeOK, ResetLabels
  <2>2. \A a \in Addresses : heap'[a].ctx \in {heap[a].ctx, None} \cup {}
    <3>1. heap' = heap \/ heap' = [heap EXCEPT ![ptr[t]] = Free]
      BY <1>15 DEF FreeRaw
    <3> QED
      BY <3>1 DEF TypeOK, Free
  <2>3. \A d \in Descriptors : desc'[d].ctx \in {desc[d].ctx, None} \cup {}
    BY <1>15 DEF FreeRaw
  <2>4. \A i \in 1..Records : record'[i].ctx \in {record[i].ctx, None} \cup {}
    BY <1>15 DEF FreeRaw
  <2> QED
    BY <2>1, <2>2, <2>3, <2>4, ResetsKept DEF ResetLabels
<1>16. ASSUME NEW t \in Threads, Invalidate(t)
      PROVE  Resets'
  <2>1. Step(t) /\ pc'[t] \notin {"reset", "afterReset", "clearOwners"}
    BY <1>16 DEF Step, Invalidate, TypeOK, ResetLabels
  <2>2. \A a \in Addresses : heap'[a].ctx \in {heap[a].ctx, None} \cup {}
    BY <1>16 DEF Invalidate
  <2>3. \A d \in Descriptors : desc'[d].ctx \in {desc[d].ctx, None} \cup {}
    <3> DEFINE d == handle[First(ToInvalidate(t))].descriptor
    <3>1. desc' = [desc EXCEPT ![d] = [desc[d] EXCEPT !.valid = FALSE]]
      BY <1>16 DEF Invalidate
    <3> HIDE DEF d
    <3> QED
      BY <3>1 DEF TypeOK, Objects
  <2>4. \A i \in 1..Records : record'[i].ctx \in {record[i].ctx, None} \cup {}
    BY <1>16 DEF Invalidate
  <2> QED
    BY <2>1, <2>2, <2>3, <2>4, ResetsKept DEF ResetLabels
<1>17. ASSUME NEW t \in Threads, ReleaseStorage(t)
      PROVE  Resets'
  <2>1. Step(t) /\ pc'[t] \notin {"reset", "afterReset", "clearOwners"}
    BY <1>17 DEF Step, ReleaseStorage, TypeOK, ResetLabels
  <2>2. \A a \in Addresses : heap'[a].ctx \in {heap[a].ctx, None} \cup {}
    <3>1. record[rec[t]].storage \in Addresses
      BY <1>17, ArgumentFacts DEF ReleaseStorage, Released, HoldsT, ArgumentsOK
    <3>2. heap' = [heap EXCEPT ![record[rec[t]].storage] = Free]
      BY <1>17 DEF ReleaseStorage
    <3> QED
      BY <3>1, <3>2 DEF TypeOK, Free
  <2>3. \A d \in Descriptors : desc'[d].ctx \in {desc[d].ctx, None} \cup {}
    BY <1>17 DEF ReleaseStorage
  <2>4. \A i \in 1..Records : record'[i].ctx \in {record[i].ctx, None} \cup {}
    <3>1. rec[t] \in 1..Records
      BY <1>17, LookupFacts, HandleFacts DEF ReleaseStorage, Released, Working, HoldsT
    <3>2. record' = [record EXCEPT ![rec[t]] = Retire(record[rec[t]])]
      BY <1>17 DEF ReleaseStorage
    <3>3. Retire(record[rec[t]]).ctx \in {record[rec[t]].ctx, None}
      BY <3>1 DEF Retire, TypeOK, TextureRecords, NoRecord
    <3> QED
      BY <3>1, <3>2, <3>3 DEF TypeOK
  <2> QED
    BY <2>1, <2>2, <2>3, <2>4, ResetsKept DEF ResetLabels
<1>18. ASSUME NEW t \in Threads, ViewBorrowed(t)
      PROVE  Resets'
  <2>1. Step(t) /\ pc'[t] \notin {"reset", "afterReset", "clearOwners"}
    BY <1>18 DEF Step, ViewBorrowed, TypeOK, ResetLabels
  <2>2. \A a \in Addresses : heap'[a].ctx \in {heap[a].ctx, None} \cup {context[t]}
    BY <1>18 DEF ViewBorrowed
  <2>3. \A d \in Descriptors : desc'[d].ctx \in {desc[d].ctx, None} \cup {context[t]}
    BY <1>18 DEF ViewBorrowed
  <2>4. \A i \in 1..Records : record'[i].ctx \in {record[i].ctx, None} \cup {context[t]}
    <3>2. record' = record \/ \E a, b :
            record' = [record EXCEPT ![FreeRecord] =
                      [storage |-> a, ctx |-> context[t], refs |-> 0, array |-> b]]
      BY <1>18 DEF ViewBorrowed
    <3>3. ASSUME NEW a, NEW b, NEW i \in 1..Records, record' = [record EXCEPT ![FreeRecord] =
              [storage |-> a, ctx |-> context[t], refs |-> 0, array |-> b]]
          PROVE  record'[i].ctx \in {record[i].ctx, context[t]}
      BY <3>3 DEF TypeOK
    <3> QED
      BY <3>2, <3>3
  <2> QED
    BY <2>1, <2>2, <2>3, <2>4, ResetsKept DEF ResetLabels
<1>19. ASSUME NEW t \in Threads, DescribeLeaks(t)
      PROVE  Resets'
  <2>1. Step(t) /\ pc'[t] \notin {"reset", "afterReset", "clearOwners"}
    BY <1>19 DEF Step, DescribeLeaks, TypeOK, ResetLabels
  <2>2. \A a \in Addresses : heap'[a].ctx \in {heap[a].ctx, None} \cup {context[t]}
    BY <1>19 DEF DescribeLeaks
  <2>3. \A d \in Descriptors : desc'[d].ctx \in {desc[d].ctx, None} \cup {context[t]}
    <3>1. \E d \in Descriptors : desc' = [desc EXCEPT ![d] =
              [NoDesc EXCEPT !.live = TRUE, !.ctx = context[t]]]
      BY <1>19 DEF DescribeLeaks
    <3> QED
      BY <3>1 DEF TypeOK, NoDesc
  <2>4. \A i \in 1..Records : record'[i].ctx \in {record[i].ctx, None} \cup {context[t]}
    BY <1>19 DEF DescribeLeaks
  <2> QED
    BY <2>1, <2>2, <2>3, <2>4, ResetsKept DEF ResetLabels
<1>20. ASSUME NEW t \in Threads, Describe(t)
      PROVE  Resets'
  <2>1. Step(t) /\ pc'[t] \notin {"reset", "afterReset", "clearOwners"}
    BY <1>20 DEF Step, Describe, TypeOK, ResetLabels
  <2>2. \A a \in Addresses : heap'[a].ctx \in {heap[a].ctx, None} \cup {context[t]}
    BY <1>20 DEF Describe
  <2>3. \A d \in Descriptors : desc'[d].ctx \in {desc[d].ctx, None} \cup {context[t]}
    BY <1>20 DEF Describe, TypeOK
  <2>4. \A i \in 1..Records : record'[i].ctx \in {record[i].ctx, None} \cup {context[t]}
    <3>1. rec[t] \in 1..Records
      BY <1>20, LookupFacts, HandleFacts DEF Describe, Describing, Working, HoldsT
    <3>2. record' = [record EXCEPT ![rec[t]] = Counted(record[rec[t]])]
      BY <1>20 DEF Describe
    <3>3. Counted(record[rec[t]]).ctx \in {record[rec[t]].ctx, None}
      BY <3>1 DEF Counted, TypeOK, TextureRecords, NoRecord
    <3> QED
      BY <3>1, <3>2, <3>3 DEF TypeOK
  <2> QED
    BY <2>1, <2>2, <2>3, <2>4, ResetsKept DEF ResetLabels
<1>21. ASSUME NEW t \in Threads, Destroy(t)
      PROVE  Resets'
  <2>1. Step(t) /\ pc'[t] \notin {"reset", "afterReset", "clearOwners"}
    BY <1>21 DEF Step, Destroy, TypeOK, ResetLabels
  <2>2. \A a \in Addresses : heap'[a].ctx \in {heap[a].ctx, None} \cup {}
    BY <1>21 DEF Destroy
  <2>3. \A d \in Descriptors : desc'[d].ctx \in {desc[d].ctx, None} \cup {}
    BY <1>21 DEF Destroy, TypeOK, NoDesc
  <2>4. \A i \in 1..Records : record'[i].ctx \in {record[i].ctx, None} \cup {}
    <3>0. HandleOf(ptr[t]) \in 1..Handles /\ handle[HandleOf(ptr[t])].descriptor # None
      BY <1>21, LookupFacts DEF Destroy, Arguments
    <3>1. handle[HandleOf(ptr[t])].allocation \in 1..Records
      BY <3>0, HandleFacts
    <3>2. record' = [record EXCEPT ![handle[HandleOf(ptr[t])].allocation] =
                                        Uncounted(record[handle[HandleOf(ptr[t])].allocation])]
      BY <1>21 DEF Destroy
    <3>3. Uncounted(record[handle[HandleOf(ptr[t])].allocation]).ctx \in
             {record[handle[HandleOf(ptr[t])].allocation].ctx, None}
      BY <3>1 DEF Uncounted, TypeOK, TextureRecords, NoRecord
    <3> QED
      BY <3>1, <3>2, <3>3 DEF TypeOK
  <2> QED
    BY <2>1, <2>2, <2>3, <2>4, ResetsKept DEF ResetLabels
<1>22. ASSUME NEW t \in Threads, ResetDevice(t)
      PROVE  Resets'
  <2>1. /\ \A a \in Addresses : heap'[a].ctx # context[t]
        /\ \A d \in Descriptors : desc'[d].ctx # context[t]
    BY <1>22, ContextFacts DEF ResetDevice, Free, NoDesc
  <2>5. Step(t) /\ UNCHANGED record
    BY <1>22 DEF Step, ResetDevice, TypeOK, ResetLabels
  <2>2. \A a \in Addresses : heap'[a].ctx \in {heap[a].ctx, None} \cup {}
    BY <1>22 DEF ResetDevice, Free
  <2>3. \A d \in Descriptors : desc'[d].ctx \in {desc[d].ctx, None} \cup {}
    BY <1>22 DEF ResetDevice, NoDesc
  <2>4. \A i \in 1..Records : record'[i].ctx \in {record[i].ctx, None} \cup {}
    BY <1>22 DEF ResetDevice
  <2> QED
    BY <2>1, <2>5, <2>2, <2>3, <2>4, ResetsKept 
<1>23. ASSUME NEW t \in Threads, AfterReset(t)
      PROVE  Resets'
  <2>0. pc[t] = "afterReset"
    BY <1>23 DEF AfterReset
  <2>1. Step(t) /\ UNCHANGED <<heap, desc>>
    BY <1>23 DEF Step, AfterReset, TypeOK, ResetLabels
  <2>2. \A a \in Addresses : heap'[a].ctx \in {heap[a].ctx, None} \cup {}
    BY <1>23 DEF AfterReset
  <2>3. \A d \in Descriptors : desc'[d].ctx \in {desc[d].ctx, None} \cup {}
    BY <1>23 DEF AfterReset
  <2>4. \A i \in 1..Records : record'[i].ctx \in {record[i].ctx, None} \cup {}
    BY <1>23 DEF AfterReset, NoRecord
  <2> QED
    BY <2>0, <2>1, <2>2, <2>3, <2>4, ResetsKept DEF Resets
<1>24. ASSUME NEW t \in Threads, ClearOwners(t)
      PROVE  Resets'
  <2>1. Step(t) /\ pc'[t] \notin {"reset", "afterReset", "clearOwners"}
    BY <1>24 DEF Step, ClearOwners, TypeOK, ResetLabels
  <2>2. \A a \in Addresses : heap'[a].ctx \in {heap[a].ctx, None} \cup {}
    BY <1>24 DEF ClearOwners
  <2>3. \A d \in Descriptors : desc'[d].ctx \in {desc[d].ctx, None} \cup {}
    BY <1>24 DEF ClearOwners
  <2>4. \A i \in 1..Records : record'[i].ctx \in {record[i].ctx, None} \cup {}
    BY <1>24 DEF ClearOwners
  <2> QED
    BY <2>1, <2>2, <2>3, <2>4, ResetsKept DEF ResetLabels
<1>25. ASSUME UNCHANGED vars PROVE Resets'
  BY <1>25 DEF vars, Resets, WorksOn
<1> QED
  BY <1>1, <1>2, <1>3, <1>4, <1>5, <1>6, <1>7, <1>8, <1>9, <1>10,
     <1>11, <1>12, <1>13, <1>14, <1>15, <1>16, <1>17, <1>18, <1>19, <1>20,
     <1>21, <1>22, <1>23, <1>24, <1>25
     DEF Next, Step, Quiet

-----------------------------------------------------------------------------
(* The tables and device memory *)

Tables == Heap /\ RecordsLive /\ HandlesNamed /\ RefsCounted /\ ValidViews /\ OwnersLive

\* A step outside a reset changes nothing of which contexts are halfway.
LEMMA StaleSame ==
  ASSUME TypeOK, NEW t \in Threads, Step(t), pc[t] \notin {"afterReset", "clearOwners"},
         pc'[t] \notin {"afterReset", "clearOwners"}
  PROVE  \A k : (StaleRecord(k)' <=> StaleRecord(k)) /\ (StaleOwner(k)' <=> StaleOwner(k))
<1>1. UNCHANGED context
  BY StepShape
<1>2. PICK l : pc' = [pc EXCEPT ![t] = l] /\ Onward(pc[t], l)
  BY StepShape
<1>3. pc'[t] = l
  BY <1>2 DEF TypeOK
<1> QED
  BY <1>1, <1>2, <1>3, StaleKept

\* Steps that leave the tables and device memory alone.
LEMMA SameTables ==
  ASSUME Tables, UNCHANGED <<heap, desc, owner, record, handle>>,
         \A k : (StaleRecord(k)' <=> StaleRecord(k)) /\ (StaleOwner(k)' <=> StaleOwner(k))
  PROVE  Tables'
<1> USE DEF Tables
<1>1. Heap'
  BY DEF Heap
<1>2. RecordsLive'
  BY DEF RecordsLive
<1>3. HandlesNamed'
  BY DEF HandlesNamed
<1>4. RefsCounted'
  BY DEF RefsCounted, Viewing
<1>5. ValidViews'
  BY DEF ValidViews
<1>6. OwnersLive'
  BY DEF OwnersLive
<1> QED
  BY <1>1, <1>2, <1>3, <1>4, <1>5, <1>6

\* What a record says of its storage is an address, if there is one.
LEMMA StorageTypes ==
  TypeOK => \A i \in 1..Records : record[i].storage \in Addresses \cup {None}
  BY DEF TypeOK, TextureRecords

\* The slots that refer to a record are finitely many.
LEMMA ViewingFinite ==
  \A i : IsFiniteSet(Viewing(i)) /\ Cardinality(Viewing(i)) \in Nat
<1> SUFFICES ASSUME NEW i PROVE IsFiniteSet(Viewing(i)) /\ Cardinality(Viewing(i)) \in Nat
  OBVIOUS
<1>1. IsFiniteSet(1..Handles)
  BY FS_Interval, RegistryAssumption
<1>2. Viewing(i) \subseteq 1..Handles
  BY DEF Viewing
<1>3. IsFiniteSet(Viewing(i))
  BY <1>1, <1>2, FS_Subset
<1> QED
  BY <1>3, FS_CardinalityType

\* New storage is at an address that nothing refers to.
LEMMA MallocTables ==
  ASSUME IInv, NEW t \in Threads, Malloc(t)
  PROVE  Tables'
<1>0. TypeOK /\ Arguments /\ Locks /\ Working /\ Frees /\ Resets /\ Hooks /\ Tables
  BY DEF IInv, Tables
<1> USE <1>0 DEF Tables
<1> USE RegistryAssumption
<1>1. \A k : ~StaleRecord(k) /\ ~StaleOwner(k)
  BY NoStale DEF Malloc, Describing, Locks, HoldsA
<1>2. \A k : (StaleRecord(k)' <=> StaleRecord(k)) /\ (StaleOwner(k)' <=> StaleOwner(k))
  <2>1. Step(t) /\ pc[t] \notin {"afterReset", "clearOwners"}
    BY DEF Step, Malloc, Released, Describing
  <2>2. pc'[t] \notin {"afterReset", "clearOwners"}
    BY DEF Malloc, Released, Describing, GoTo, Return, TypeOK
  <2> QED
    BY <2>1, <2>2, StaleSame
<1>3. CASE UNCHANGED <<heap, owner>>
  <2>1. UNCHANGED <<heap, desc, owner, record, handle>>
    BY <1>3 DEF Malloc
  <2> QED
    BY <1>2, <2>1, SameTables
<1>4. ASSUME NEW a \in Addresses, heap[a] = Free,
             heap' = [heap EXCEPT ![a] = [kind |-> "plain", gen |-> NextGen, ctx |-> context[t]]],
             UNCHANGED owner \/ RecordOwner(a, context[t])
      PROVE  Tables'
  <2>1. UNCHANGED <<desc, record, handle>>
    BY DEF Malloc
  <2>2. \A b \in Addresses : b # a => heap'[b] = heap[b]
    BY <1>4 DEF TypeOK
  <2>3. heap'[a] = [kind |-> "plain", gen |-> NextGen, ctx |-> context[t]] /\ NextGen > 0
    BY <1>4 DEF TypeOK, NextGen
  <2>4. Heap'
    BY <2>2, <2>3 DEF Heap
  <2>5. RecordsLive'
    <3>1. \A i \in 1..Records : record[i].storage # None =>
            record[i].storage \in Addresses \ {a}
      BY <1>1, <1>4, StorageTypes DEF RecordsLive, Free
    <3> QED
      BY <1>2, <2>1, <2>2, <3>1 DEF RecordsLive
  <2>6. HandlesNamed'
    BY <1>2, <2>1 DEF HandlesNamed
  <2>7. RefsCounted'
    BY <2>1 DEF RefsCounted, Viewing
  <2>8. ValidViews'
    <3>1. \A d \in Descriptors : desc[d].valid => desc[d].data \in Addresses \ {a}
      BY <1>4 DEF ValidViews, Free
    <3> QED
      BY <2>1, <2>2, <3>1 DEF ValidViews
  <2>9. OwnersLive'
    <3>1. \A i \in 1..Owners : owner[i].pointer # None => owner[i].pointer \in Addresses \ {a}
      BY <1>1, <1>4 DEF OwnersLive, Free, TypeOK, OwnerRecords
    <3>2. CASE UNCHANGED owner
      BY <1>2, <2>2, <3>1, <3>2 DEF OwnersLive
    <3>3. CASE RecordOwner(a, context[t])
      <4>1. FreeOwner \in 1..Owners
        BY <3>3, LookupFacts DEF RecordOwner
      <4>2. /\ owner'[FreeOwner] = [pointer |-> a, gen |-> NextGen, ctx |-> context[t]]
            /\ \A i \in 1..Owners : i # FreeOwner => owner'[i] = owner[i]
        BY <3>3, <4>1 DEF RecordOwner, TypeOK
      <4> QED
        BY <1>2, <2>2, <2>3, <3>1, <4>2 DEF OwnersLive
    <3> QED
      BY <1>4, <3>2, <3>3
  <2> QED
    BY <2>4, <2>5, <2>6, <2>7, <2>8, <2>9
<1> QED
  BY <1>3, <1>4 DEF Malloc

\* So is new texture storage; its record's slot is referred to by no handle.
LEMMA AllocateTables ==
  ASSUME IInv, NEW t \in Threads, Allocate(t)
  PROVE  Tables'
<1>0. TypeOK /\ Arguments /\ Locks /\ Working /\ Frees /\ Resets /\ Hooks /\ Tables
  BY DEF IInv, Tables
<1> USE <1>0 DEF Tables
<1> USE RegistryAssumption
<1>1. \A k : ~StaleRecord(k) /\ ~StaleOwner(k)
  BY NoStale DEF Allocate, Describing, Locks, HoldsA
<1>2. \A k : (StaleRecord(k)' <=> StaleRecord(k)) /\ (StaleOwner(k)' <=> StaleOwner(k))
  <2>1. Step(t) /\ pc[t] \notin {"afterReset", "clearOwners"}
    BY DEF Step, Allocate, Released, Describing
  <2>2. pc'[t] \notin {"afterReset", "clearOwners"}
    BY DEF Allocate, Released, Describing, GoTo, Return, TypeOK
  <2> QED
    BY <2>1, <2>2, StaleSame
<1>3. CASE UNCHANGED <<heap, record>>
  <2>1. UNCHANGED <<heap, desc, owner, record, handle>>
    BY <1>3 DEF Allocate
  <2> QED
    BY <1>2, <2>1, SameTables
<1> DEFINE f == FreeRecord
           new(a) == [storage |-> a, ctx |-> context[t], refs |-> 0, array |-> ptr[t] = "array"]
<1>4. ASSUME NEW a \in Addresses, heap[a] = Free, f # 0,
             heap' = [heap EXCEPT ![a] = [kind |-> ptr[t], gen |-> NextGen, ctx |-> context[t]]],
             record' = [record EXCEPT ![f] = new(a)]
      PROVE  Tables'
  <2>1. UNCHANGED <<desc, owner, handle>>
    BY DEF Allocate
  <2>2. \A b \in Addresses : b # a => heap'[b] = heap[b]
    BY <1>4 DEF TypeOK
  <2>3. heap'[a] = [kind |-> ptr[t], gen |-> NextGen, ctx |-> context[t]] /\ NextGen > 0
        /\ ptr[t] \in {"array", "pitch"}
    BY <1>4 DEF TypeOK, NextGen, Arguments, Allocate
  <2>4. f \in 1..Records /\ record[f].storage = None /\ record[f].refs = 0
    BY <1>4, LookupFacts
  <2>5. record'[f] = new(a) /\ \A i \in 1..Records : i # f => record'[i] = record[i]
    BY <1>4, <2>4 DEF TypeOK
  <2>6. Viewing(f) = {}
    <3>1. Cardinality(Viewing(f)) = 0
      BY <2>4 DEF RefsCounted
    <3> QED
      BY <3>1, ViewingFinite, FS_EmptySet
  <2> HIDE DEF f
  <2>7. Heap'
    BY <2>2, <2>3 DEF Heap
  <2>8. RecordsLive'
    <3>1. \A i \in 1..Records : record[i].storage # None =>
            record[i].storage \in Addresses \ {a}
      BY <1>1, <1>4, StorageTypes DEF RecordsLive, Free
    <3>2. \A i \in 1..Records : i # f /\ record'[i].storage # None =>
            /\ record'[i].storage \in Addresses \ {a} /\ record'[i] = record[i]
            /\ heap'[record'[i].storage] = heap[record[i].storage]
      BY <2>2, <2>5, <3>1
    <3>3. \A i \in 1..Records :
            /\ record'[i].storage # None /\ ~StaleRecord(record[i].ctx)' =>
                 /\ heap'[record'[i].storage].kind \in
                      (IF record'[i].array THEN {"array"} ELSE {"plain", "pitch"})
                 /\ heap'[record'[i].storage].ctx = record'[i].ctx
            /\ record'[i].storage = None /\ record'[i].refs = 0 => record'[i] = NoRecord
      <4> SUFFICES ASSUME NEW i \in 1..Records
                   PROVE  /\ record'[i].storage # None =>
                               /\ heap'[record'[i].storage].kind \in
                                    (IF record'[i].array THEN {"array"} ELSE {"plain", "pitch"})
                               /\ heap'[record'[i].storage].ctx = record'[i].ctx
                          /\ record'[i].storage = None /\ record'[i].refs = 0 =>
                                    record'[i] = NoRecord
        OBVIOUS
      <4>1. CASE i = f
        <5>1. /\ record'[i].storage = a /\ record'[i].ctx = context[t]
              /\ record'[i].array = (ptr[t] = "array")
          BY <2>5, <4>1
        <5>2. heap'[a].kind = ptr[t] /\ heap'[a].ctx = context[t] /\ a # None
          BY <2>3
        <5>3. CASE ptr[t] = "array"
          BY <5>1, <5>2, <5>3
        <5>4. CASE ptr[t] = "pitch"
          BY <5>1, <5>2, <5>4
        <5> QED
          BY <2>3, <5>3, <5>4
      <4>2. CASE i # f
        BY <1>1, <2>5, <3>2, <4>2 DEF RecordsLive
      <4> QED
        BY <4>1, <4>2
    <3>4. \A i, j \in 1..Records :
            record'[i].storage # None /\ record'[i].storage = record'[j].storage => i = j
      BY <2>5, <3>2 DEF RecordsLive
    <3> QED
      BY <3>3, <3>4 DEF RecordsLive
  <2>9. HandlesNamed'
    <3>1. \A h \in 1..Handles : handle[h].descriptor # None =>
            handle[h].allocation \in 1..Records \ {f}
      BY <2>6 DEF HandlesNamed, Viewing
    <3>2. \A h \in 1..Handles : handle[h].descriptor # None =>
            record'[handle[h].allocation] = record[handle[h].allocation]
      BY <2>5, <3>1
    <3> QED
      BY <1>1, <1>2, <2>1, <3>1, <3>2 DEF HandlesNamed
  <2>10. RefsCounted'
    BY <2>1, <2>4, <2>5 DEF RefsCounted, Viewing
  <2>11. ValidViews'
    <3>1. \A d \in Descriptors : desc[d].valid => desc[d].data \in Addresses \ {a}
      BY <1>4 DEF ValidViews, Free
    <3>2. \A h \in 1..Handles : handle[h].descriptor # None =>
            record'[handle[h].allocation] = record[handle[h].allocation]
      BY <2>5, <2>6 DEF HandlesNamed, Viewing
    <3> QED
      BY <2>1, <2>2, <3>1, <3>2 DEF ValidViews
  <2>12. OwnersLive'
    <3>1. \A i \in 1..Owners : owner[i].pointer # None => owner[i].pointer \in Addresses \ {a}
      BY <1>1, <1>4 DEF OwnersLive, Free, TypeOK, OwnerRecords
    <3> QED
      BY <1>2, <2>1, <2>2, <3>1 DEF OwnersLive
  <2> QED
    BY <2>7, <2>8, <2>9, <2>10, <2>11, <2>12
<1> QED
  BY <1>3, <1>4 DEF Allocate

\* A raw free takes storage without a record and forgets its owner.
LEMMA FreeRawTables ==
  ASSUME IInv, NEW t \in Threads, FreeRaw(t)
  PROVE  Tables'
<1>0. TypeOK /\ Arguments /\ Locks /\ Working /\ Frees /\ Resets /\ Hooks /\ Tables
  BY DEF IInv, Tables
<1> USE <1>0 DEF Tables
<1> USE RegistryAssumption
<1>1. \A k : ~StaleRecord(k) /\ ~StaleOwner(k)
  BY NoStale DEF FreeRaw, Describing, Locks, HoldsA
<1>2. \A k : (StaleRecord(k)' <=> StaleRecord(k)) /\ (StaleOwner(k)' <=> StaleOwner(k))
  <2>1. Step(t) /\ pc[t] \notin {"afterReset", "clearOwners"}
    BY DEF Step, FreeRaw, Released, Describing
  <2>2. pc'[t] \notin {"afterReset", "clearOwners"}
    BY DEF FreeRaw, Released, Describing, GoTo, Return, TypeOK
  <2> QED
    BY <2>1, <2>2, StaleSame
<1>3. CASE UNCHANGED <<heap, owner>>
  <2>1. UNCHANGED <<heap, desc, owner, record, handle>>
    BY <1>3 DEF FreeRaw
  <2> QED
    BY <1>2, <2>1, SameTables
<1> DEFINE p == ptr[t]
<1>4. CASE heap' = [heap EXCEPT ![p] = Free] /\ owner' = ForgetOwner(p)
  <2>1. UNCHANGED <<desc, record, handle>> /\ pc[t] = "freeRaw"
    BY DEF FreeRaw
  <2>2. p \in Addresses /\ \A i \in 1..Records : record[i].storage # p
    BY <2>1 DEF Arguments, Frees
  <2>3. heap'[p] = Free /\ \A b \in Addresses : b # p => heap'[b] = heap[b]
    BY <1>4, <2>2 DEF TypeOK
  <2> HIDE DEF p
  <2>4. Heap'
    BY <2>3 DEF Heap, Free
  <2>5. RecordsLive'
    <3>1. \A i \in 1..Records : record[i].storage # None => record[i].storage \in Addresses \ {p}
      BY <2>2, StorageTypes
    <3> QED
      BY <1>2, <2>1, <2>3, <3>1 DEF RecordsLive
  <2>6. HandlesNamed'
    BY <1>2, <2>1 DEF HandlesNamed
  <2>7. RefsCounted'
    BY <2>1 DEF RefsCounted, Viewing
  <2>8. ValidViews'
    <3>1. \A d \in Descriptors : desc[d].valid => desc[d].data \in Addresses \ {p}
      BY <2>2 DEF ValidViews, HandlesNamed
    <3> QED
      BY <2>1, <2>3, <3>1 DEF ValidViews
  <2>9. OwnersLive'
    <3>1. \A i \in 1..Owners : owner'[i] = IF owner[i].pointer = p THEN NoOwner ELSE owner[i]
      BY <1>4 DEF ForgetOwner
    <3>2. \A i \in 1..Owners : owner[i].pointer \in Addresses \cup {None}
      BY DEF TypeOK, OwnerRecords
    <3> QED
      BY <1>1, <1>2, <2>3, <3>1, <3>2 DEF OwnersLive, NoOwner
  <2> QED
    BY <2>4, <2>5, <2>6, <2>7, <2>8, <2>9
<1> QED
  BY <1>3, <1>4 DEF FreeRaw

\* Invalidating a descriptor only makes fewer of them valid.
LEMMA InvalidateTables ==
  ASSUME IInv, NEW t \in Threads, Invalidate(t)
  PROVE  Tables'
<1>0. TypeOK /\ Arguments /\ Locks /\ Working /\ Frees /\ Resets /\ Hooks /\ Tables
  BY DEF IInv, Tables
<1> USE <1>0 DEF Tables
<1> USE RegistryAssumption
<1>2. \A k : (StaleRecord(k)' <=> StaleRecord(k)) /\ (StaleOwner(k)' <=> StaleOwner(k))
  <2>1. Step(t) /\ pc[t] \notin {"afterReset", "clearOwners"}
    BY DEF Step, Invalidate, Released, Describing
  <2>2. pc'[t] \notin {"afterReset", "clearOwners"}
    BY DEF Invalidate, Released, Describing, GoTo, Return, TypeOK
  <2> QED
    BY <2>1, <2>2, StaleSame
<1> DEFINE x == handle[First(ToInvalidate(t))].descriptor
<1>3. UNCHANGED <<heap, owner, record, handle>> /\ desc' = [desc EXCEPT ![x] =
          [desc[x] EXCEPT !.valid = FALSE]]
  BY DEF Invalidate, tables
<1> HIDE DEF x
<1>4. \A d \in Descriptors : /\ desc'[d].live = desc[d].live /\ desc'[d].ctx = desc[d].ctx
                             /\ desc'[d].valid => desc'[d] = desc[d]
  BY <1>3 DEF TypeOK, Objects
<1>5. Heap' /\ RecordsLive' /\ OwnersLive'
  BY <1>2, <1>3 DEF Heap, RecordsLive, OwnersLive
<1>6. HandlesNamed'
  <2>1. \A h \in 1..Handles : handle[h].descriptor \in Descriptors \cup {None}
    BY DEF TypeOK, HandleRecords
  <2> QED
    BY <1>2, <1>3, <1>4, <2>1 DEF HandlesNamed
<1>7. RefsCounted'
  BY <1>3 DEF RefsCounted, Viewing
<1>8. ValidViews'
  BY <1>3, <1>4 DEF ValidViews
<1> QED
  BY <1>5, <1>6, <1>7, <1>8

\* Released storage has no valid view, no other record and no owner left.
LEMMA ReleaseTables ==
  ASSUME IInv, NEW t \in Threads, ReleaseStorage(t)
  PROVE  Tables'
<1>0. TypeOK /\ Arguments /\ Locks /\ Working /\ Frees /\ Resets /\ Hooks /\ Tables
  BY DEF IInv, Tables
<1> USE <1>0 DEF Tables
<1> USE RegistryAssumption
<1>2. \A k : (StaleRecord(k)' <=> StaleRecord(k)) /\ (StaleOwner(k)' <=> StaleOwner(k))
  <2>1. Step(t) /\ pc[t] \notin {"afterReset", "clearOwners"}
    BY DEF Step, ReleaseStorage, Released, Describing
  <2>2. pc'[t] \notin {"afterReset", "clearOwners"}
    BY DEF ReleaseStorage, Released, Describing, GoTo, Return, TypeOK
  <2> QED
    BY <2>1, <2>2, StaleSame
<1> DEFINE i == rec[t]
           s == record[i].storage
<1>3. /\ pc[t] = "invalidate" /\ i \in 1..Records /\ record[i].ctx = context[t] /\ s # None
      /\ \A h \in Viewing(i) : ~desc[handle[h].descriptor].valid
      /\ tLock = t /\ (~record[i].array => aLock = t)
  BY DEF ReleaseStorage, Released, Working, HoldsT, HoldsA, ToInvalidate, Locks
<1>4. /\ heap' = [heap EXCEPT ![s] = Free] /\ record' = [record EXCEPT ![i] = Retire(record[i])]
      /\ owner' = (IF aLock = t THEN ForgetOwner(s) ELSE owner)
      /\ UNCHANGED <<desc, handle>>
  BY DEF ReleaseStorage
<1>5. s \in Addresses
  BY <1>3, StorageTypes
<1>6. ~StaleRecord(context[t])
  BY <1>3, OwnNotStale
<1>7. /\ heap[s].kind \in (IF record[i].array THEN {"array"} ELSE {"plain", "pitch"})
      /\ \A j \in 1..Records : record[j].storage = s => j = i
  BY <1>3, <1>6 DEF RecordsLive
<1>8. /\ record'[i] = Retire(record[i]) /\ \A j \in 1..Records : j # i => record'[j] = record[j]
      /\ heap'[s] = Free /\ \A b \in Addresses : b # s => heap'[b] = heap[b]
  BY <1>3, <1>4, <1>5 DEF TypeOK
<1>9. /\ record'[i].storage = None /\ record'[i].refs = record[i].refs
      /\ record[i].refs = 0 => record'[i] = NoRecord
      /\ record[i].refs # 0 => record'[i].ctx = record[i].ctx
  BY <1>3, <1>8 DEF Retire, NoRecord, TypeOK, TextureRecords
<1> HIDE DEF i, s
<1>10. \A j \in 1..Records : j # i /\ record[j].storage # None =>
          record[j].storage \in Addresses \ {s}
  BY <1>7, StorageTypes
<1>11. Heap'
  BY <1>8 DEF Heap, Free
<1>12. RecordsLive'
  BY <1>2, <1>8, <1>9, <1>10 DEF RecordsLive
<1>13. HandlesNamed'
  <2>1. record[i].refs = 0 => Viewing(i) = {}
    BY <1>3, ViewingFinite, FS_EmptySet DEF RefsCounted
  <2>2. \A h \in 1..Handles : handle[h].descriptor # None =>
          /\ handle[h].allocation \in 1..Records
          /\ record'[handle[h].allocation].ctx = record[handle[h].allocation].ctx
    BY <1>8, <1>9, <2>1 DEF HandlesNamed, Viewing
  <2> QED
    BY <1>2, <1>4, <2>2 DEF HandlesNamed
<1>14. RefsCounted'
  <2>1. \A j \in 1..Records : record'[j].refs = record[j].refs
    BY <1>8, <1>9
  <2> QED
    BY <1>4, <2>1 DEF RefsCounted, Viewing
<1>15. ValidViews'
  <2>1. ASSUME NEW d \in Descriptors, desc[d].valid, NEW h \in 1..Handles,
               handle[h].descriptor = d, record[handle[h].allocation].storage = desc[d].data
        PROVE  /\ record'[handle[h].allocation] = record[handle[h].allocation]
               /\ desc[d].data # s
    <3>1. handle[h].descriptor # None
      BY <2>1
    <3>2. handle[h].allocation \in 1..Records
      BY <3>1, <2>1 DEF HandlesNamed
    <3>3. handle[h].allocation # i
      BY <1>3, <2>1, <3>1 DEF Viewing
    <3> QED
      BY <1>7, <1>8, <2>1, <3>2, <3>3
  <2>2. \A d \in Descriptors : desc[d].valid =>
          /\ desc[d].data \in Addresses /\ desc[d].data # s
          /\ \E h \in 1..Handles :
               /\ handle[h].descriptor = d /\ record'[handle[h].allocation].storage = desc[d].data
               /\ record'[handle[h].allocation].ctx = desc[d].ctx
    BY <2>1 DEF ValidViews
  <2> QED
    BY <1>4, <1>8, <2>2 DEF ValidViews
<1>16. OwnersLive'
  <2>1. CASE aLock = t
    <3>1. \A j \in 1..Owners : owner'[j] = IF owner[j].pointer = s THEN NoOwner ELSE owner[j]
      BY <1>4, <2>1 DEF ForgetOwner
    <3>2. \A j \in 1..Owners : owner[j].pointer \in Addresses \cup {None}
      BY DEF TypeOK, OwnerRecords
    <3> QED
      BY <1>2, <1>8, <3>1, <3>2 DEF OwnersLive, NoOwner
  <2>2. CASE aLock # t
    <3>1. heap[s].kind = "array" /\ owner' = owner
      BY <1>3, <1>4, <1>7, <2>2
    <3>2. \A j \in 1..Owners : owner[j].pointer \in Addresses \cup {None}
      BY DEF TypeOK, OwnerRecords
    <3> QED
      BY <1>2, <1>8, <3>1, <3>2 DEF OwnersLive
  <2> QED
    BY <2>1, <2>2
<1> QED
  BY <1>11, <1>12, <1>13, <1>14, <1>15, <1>16

\* A borrowed record is of a live ordinary allocation that has no record yet.
LEMMA BorrowTables ==
  ASSUME IInv, NEW t \in Threads, ViewBorrowed(t)
  PROVE  Tables'
<1>0. TypeOK /\ Arguments /\ Locks /\ Working /\ Frees /\ Resets /\ Hooks /\ Tables
  BY DEF IInv, Tables
<1> USE <1>0 DEF Tables
<1> USE RegistryAssumption
<1>1. \A k : ~StaleRecord(k) /\ ~StaleOwner(k)
  BY NoStale DEF ViewBorrowed, Describing, Locks, HoldsA
<1>2. \A k : (StaleRecord(k)' <=> StaleRecord(k)) /\ (StaleOwner(k)' <=> StaleOwner(k))
  <2>1. Step(t) /\ pc[t] \notin {"afterReset", "clearOwners"}
    BY DEF Step, ViewBorrowed, Released, Describing
  <2>2. pc'[t] \notin {"afterReset", "clearOwners"}
    BY DEF ViewBorrowed, Released, Describing, GoTo, Return, TypeOK
  <2> QED
    BY <2>1, <2>2, StaleSame
<1>3. CASE UNCHANGED record
  <2>1. UNCHANGED <<heap, desc, owner, record, handle>>
    BY <1>3 DEF ViewBorrowed
  <2> QED
    BY <1>2, <2>1, SameTables
<1> DEFINE f == FreeRecord
           p == ptr[t]
           new == [storage |-> p, ctx |-> context[t], refs |-> 0, array |-> FALSE]
<1>4. CASE /\ OwnerOf(p) # 0 /\ f # 0 /\ owner[OwnerOf(p)].ctx = context[t]
           /\ record' = [record EXCEPT ![f] = new]
  <2>1. UNCHANGED <<heap, desc, owner, handle>> /\ pc[t] = "viewLocked" /\ texturePointer(p) = 0
    BY DEF ViewBorrowed
  <2>2. p \in Addresses
    BY <2>1 DEF Arguments
  <2>3. heap[p].kind = "plain" /\ heap[p].ctx = context[t]
    <3>1. OwnerOf(p) \in 1..Owners /\ owner[OwnerOf(p)].pointer = p
      BY <1>4, LookupFacts
    <3> QED
      BY <1>1, <1>4, <2>2, <3>1 DEF OwnersLive
  <2>4. \A i \in 1..Records : record[i].storage # p
    <3>1. \A i \in 1..Records : record[i].storage = p => record[i].array
      BY <2>1, LookupFacts
    <3> QED
      BY <1>1, <2>2, <2>3, <3>1 DEF RecordsLive
  <2>5. f \in 1..Records /\ record[f].storage = None /\ record[f].refs = 0
    BY <1>4, LookupFacts
  <2>6. record'[f] = new /\ \A i \in 1..Records : i # f => record'[i] = record[i]
    BY <1>4, <2>5 DEF TypeOK
  <2>7. Viewing(f) = {}
    BY <2>5, ViewingFinite, FS_EmptySet DEF RefsCounted
  <2> HIDE DEF f, p
  <2>8. Heap' /\ OwnersLive'
    BY <1>2, <2>1 DEF Heap, OwnersLive
  <2>9. RecordsLive'
    BY <1>1, <1>2, <2>1, <2>2, <2>3, <2>4, <2>6 DEF RecordsLive
  <2>10. \A h \in 1..Handles : handle[h].descriptor # None =>
           /\ handle[h].allocation \in 1..Records
           /\ record'[handle[h].allocation] = record[handle[h].allocation]
    BY <2>6, <2>7 DEF HandlesNamed, Viewing
  <2>11. HandlesNamed'
    BY <1>1, <1>2, <2>1, <2>10 DEF HandlesNamed
  <2>12. RefsCounted'
    BY <2>1, <2>5, <2>6 DEF RefsCounted, Viewing
  <2>13. ValidViews'
    BY <2>1, <2>10 DEF ValidViews
  <2> QED
    BY <2>8, <2>9, <2>11, <2>12, <2>13
<1> QED
  BY <1>3, <1>4 DEF ViewBorrowed

\* A leaked descriptor was nobody's and is never valid.
LEMMA LeakTables ==
  ASSUME IInv, NEW t \in Threads, DescribeLeaks(t)
  PROVE  Tables'
<1>0. TypeOK /\ Arguments /\ Locks /\ Working /\ Frees /\ Resets /\ Hooks /\ Tables
  BY DEF IInv, Tables
<1> USE <1>0 DEF Tables
<1> USE RegistryAssumption
<1>1. \A k : ~StaleRecord(k) /\ ~StaleOwner(k)
  BY NoStale DEF DescribeLeaks, Describing, Locks, HoldsA
<1>2. \A k : (StaleRecord(k)' <=> StaleRecord(k)) /\ (StaleOwner(k)' <=> StaleOwner(k))
  <2>1. Step(t) /\ pc[t] \notin {"afterReset", "clearOwners"}
    BY DEF Step, DescribeLeaks, Released, Describing
  <2>2. pc'[t] \notin {"afterReset", "clearOwners"}
    BY DEF DescribeLeaks, Released, Describing, GoTo, Return, TypeOK
  <2> QED
    BY <2>1, <2>2, StaleSame
<1>3. PICK x \in Descriptors :
        /\ ~desc[x].live
        /\ desc' = [desc EXCEPT ![x] = [NoDesc EXCEPT !.live = TRUE, !.ctx = context[t]]]
  BY DEF DescribeLeaks
<1>4. UNCHANGED <<heap, owner, record, handle>>
  BY DEF DescribeLeaks, tables
<1>5. ~desc'[x].valid /\ \A d \in Descriptors : d # x => desc'[d] = desc[d]
  BY <1>3 DEF TypeOK, NoDesc
<1>6. Heap' /\ RecordsLive' /\ OwnersLive'
  BY <1>2, <1>4 DEF Heap, RecordsLive, OwnersLive
<1>7. HandlesNamed'
  <2>1. \A h \in 1..Handles : handle[h].descriptor # None =>
          desc'[handle[h].descriptor] = desc[handle[h].descriptor]
    BY <1>1, <1>3, <1>5 DEF HandlesNamed, TypeOK, HandleRecords
  <2> QED
    BY <1>1, <1>2, <1>4, <2>1 DEF HandlesNamed
<1>8. RefsCounted'
  BY <1>4 DEF RefsCounted, Viewing
<1>9. ValidViews'
  BY <1>4, <1>5 DEF ValidViews
<1> QED
  BY <1>6, <1>7, <1>8, <1>9

\* A new descriptor is named by a new handle, counted by its record, and reads
\* the record's live storage.
LEMMA DescribeTables ==
  ASSUME IInv, NEW t \in Threads, Describe(t)
  PROVE  Tables'
<1>0. TypeOK /\ Arguments /\ Locks /\ Working /\ Frees /\ Resets /\ Hooks /\ Tables
  BY DEF IInv, Tables
<1> USE <1>0 DEF Tables
<1> USE RegistryAssumption
<1>1. \A k : ~StaleRecord(k) /\ ~StaleOwner(k)
  BY NoStale DEF Describe, Describing, Locks, HoldsA
<1>2. \A k : (StaleRecord(k)' <=> StaleRecord(k)) /\ (StaleOwner(k)' <=> StaleOwner(k))
  <2>1. Step(t) /\ pc[t] \notin {"afterReset", "clearOwners"}
    BY DEF Step, Describe, Released, Describing
  <2>2. pc'[t] \notin {"afterReset", "clearOwners"}
    BY DEF Describe, Released, Describing, GoTo, Return, TypeOK
  <2> QED
    BY <2>1, <2>2, StaleSame
<1> DEFINE i == rec[t]
           s == record[i].storage
           g == FreeHandle
<1>3. i \in 1..Records /\ record[i].ctx = context[t] /\ s # None /\ s \in Addresses
  BY StorageTypes DEF Describe, Describing, Working, HoldsT
<1>4. g \in 1..Handles /\ handle[g].descriptor = None
  BY LookupFacts DEF Describe
<1>5. PICK x \in Descriptors :
        /\ ~desc[x].live
        /\ desc' = [desc EXCEPT ![x] = [live |-> TRUE, valid |-> TRUE, data |-> s, gen |-> heap[s].gen,
                                        ctx |-> context[t]]]
        /\ handle' = [handle EXCEPT ![g] = [descriptor |-> x, allocation |-> i]]
        /\ record' = [record EXCEPT ![i] = Counted(record[i])]
  BY DEF Describe
<1>6. UNCHANGED <<heap, owner>>
  BY DEF Describe
<1>7. heap[s].kind # "free" /\ heap[s].ctx = context[t] /\ heap[s].gen > 0
  BY <1>1, <1>3 DEF RecordsLive, Heap
<1>8. /\ desc'[x] = [live |-> TRUE, valid |-> TRUE, data |-> s, gen |-> heap[s].gen, ctx |-> context[t]]
      /\ \A d \in Descriptors : d # x => desc'[d] = desc[d]
  BY <1>5 DEF TypeOK
<1>9. handle'[g] = [descriptor |-> x, allocation |-> i]
      /\ \A h \in 1..Handles : h # g => handle'[h] = handle[h]
  BY <1>4, <1>5 DEF TypeOK
<1>10. /\ \A j \in 1..Records : j # i => record'[j] = record[j]
       /\ \A j \in 1..Records : /\ record'[j].storage = record[j].storage /\ record'[j].ctx = record[j].ctx
                                /\ record'[j].array = record[j].array
       /\ record'[i].refs = record[i].refs + 1 /\ record[i].refs \in Nat
  BY <1>3, <1>5 DEF TypeOK, TextureRecords, Counted
<1>11. \A h \in 1..Handles : handle[h].descriptor # None =>
         /\ h # g /\ handle[h].descriptor \in Descriptors \ {x}
  BY <1>1, <1>4, <1>5 DEF HandlesNamed, TypeOK, HandleRecords
<1> HIDE DEF i, s, g
<1>12. Heap' /\ OwnersLive'
  BY <1>2, <1>6 DEF Heap, OwnersLive
<1>13. RecordsLive'
  <2>1. \A j \in 1..Records : record'[j].storage = None /\ record'[j].refs = 0 =>
            record'[j] = NoRecord
    BY <1>10 DEF RecordsLive
  <2> QED
    BY <1>1, <1>2, <1>6, <1>10, <2>1 DEF RecordsLive
<1>14. HandlesNamed'
  <2>1. ASSUME NEW h \in 1..Handles, handle'[h].descriptor # None
        PROVE  /\ handle'[h].allocation \in 1..Records
               /\ desc'[handle'[h].descriptor].live
               /\ desc'[handle'[h].descriptor].ctx = record'[handle'[h].allocation].ctx
    <3>1. CASE h = g
      BY <1>3, <1>8, <1>9, <1>10, <3>1
    <3>2. CASE h # g
      BY <1>1, <1>8, <1>9, <1>10, <1>11, <2>1, <3>2 DEF HandlesNamed
    <3> QED
      BY <3>1, <3>2
  <2>2. \A h, k \in 1..Handles :
          h # k /\ handle'[h].descriptor # None => handle'[h].descriptor # handle'[k].descriptor
    BY <1>9, <1>11 DEF HandlesNamed
  <2> QED
    BY <2>1, <2>2 DEF HandlesNamed
<1>15. RefsCounted'
  <2> SUFFICES ASSUME NEW j \in 1..Records PROVE record'[j].refs = Cardinality(Viewing(j)')
    BY DEF RefsCounted
  <2>1. CASE j = i
    <3>1. g \notin Viewing(j) /\ Viewing(j)' = Viewing(j) \cup {g}
      BY <1>4, <1>5, <1>9, <2>1 DEF Viewing
    <3>2. Cardinality(Viewing(j)') = Cardinality(Viewing(j)) + 1
      BY <3>1, ViewingFinite, FS_AddElement
    <3> QED
      BY <1>3, <1>10, <2>1, <3>2 DEF RefsCounted
  <2>2. CASE j # i
    <3>1. Viewing(j)' = Viewing(j)
      BY <1>4, <1>9, <2>2 DEF Viewing
    <3> QED
      BY <1>10, <2>2, <3>1 DEF RefsCounted
  <2> QED
    BY <2>1, <2>2
<1>16. ValidViews'
  <2> SUFFICES ASSUME NEW d \in Descriptors, desc'[d].valid
               PROVE  /\ desc'[d].live /\ desc'[d].data \in Addresses /\ desc'[d].gen > 0
                      /\ heap'[desc'[d].data].gen = desc'[d].gen
                      /\ heap'[desc'[d].data].ctx = desc'[d].ctx
                      /\ \E h \in 1..Handles :
                           /\ handle'[h].descriptor = d
                           /\ record'[handle'[h].allocation].storage = desc'[d].data
                           /\ record'[handle'[h].allocation].ctx = desc'[d].ctx
    BY DEF ValidViews
  <2>1. CASE d = x
    <3>1. /\ handle'[g].descriptor = d
          /\ record'[handle'[g].allocation].storage = desc'[d].data
          /\ record'[handle'[g].allocation].ctx = desc'[d].ctx
      BY <1>3, <1>8, <1>9, <1>10, <2>1 DEF s
    <3>2. /\ desc'[d].live /\ desc'[d].data = s /\ desc'[d].gen = heap[s].gen
          /\ desc'[d].ctx = context[t]
      BY <1>8, <2>1
    <3> QED
      BY <1>3, <1>4, <1>6, <1>7, <3>1, <3>2
  <2>2. CASE d # x
    <3>1. PICK h \in 1..Handles : /\ handle[h].descriptor = d
                                  /\ record[handle[h].allocation].storage = desc[d].data
                                  /\ record[handle[h].allocation].ctx = desc[d].ctx
      BY <1>8, <2>2 DEF ValidViews
    <3>2. h # g /\ handle[h].allocation \in 1..Records
      BY <1>11, <3>1 DEF HandlesNamed
    <3>3. /\ handle'[h].descriptor = d
          /\ record'[handle'[h].allocation].storage = desc'[d].data
          /\ record'[handle'[h].allocation].ctx = desc'[d].ctx
      BY <1>8, <1>9, <1>10, <2>2, <3>1, <3>2
    <3>4. /\ desc[d].live /\ desc[d].data \in Addresses /\ desc[d].gen > 0
          /\ heap[desc[d].data].gen = desc[d].gen /\ heap[desc[d].data].ctx = desc[d].ctx
          /\ desc'[d] = desc[d]
      BY <1>8, <2>2 DEF ValidViews
    <3> QED
      BY <1>6, <3>3, <3>4
  <2> QED
    BY <2>1, <2>2
<1> QED
  BY <1>12, <1>13, <1>14, <1>15, <1>16

\* A destroyed object gives back its handle and its reference, and the record's
\* slot if it was the last one and the storage is gone.
LEMMA DestroyTables ==
  ASSUME IInv, NEW t \in Threads, Destroy(t)
  PROVE  Tables'
<1>0. TypeOK /\ Arguments /\ Locks /\ Working /\ Frees /\ Resets /\ Hooks /\ Tables
  BY DEF IInv, Tables
<1> USE <1>0 DEF Tables
<1> USE RegistryAssumption
<1>2. \A k : (StaleRecord(k)' <=> StaleRecord(k)) /\ (StaleOwner(k)' <=> StaleOwner(k))
  <2>1. Step(t) /\ pc[t] \notin {"afterReset", "clearOwners"}
    BY DEF Step, Destroy, Released, Describing
  <2>2. pc'[t] \notin {"afterReset", "clearOwners"}
    BY DEF Destroy, Released, Describing, GoTo, Return, TypeOK
  <2> QED
    BY <2>1, <2>2, StaleSame
<1> DEFINE g == HandleOf(ptr[t])
           i == handle[g].allocation
           x == ptr[t]
<1>3. g \in 1..Handles /\ handle[g].descriptor = x /\ x \in Descriptors
  BY LookupFacts DEF Destroy, Arguments
<1>4. handle[g].descriptor # None
  BY <1>3
<1>5. i \in 1..Records /\ record[i].refs > 0 /\ g \in Viewing(i)
  BY <1>3, <1>4, HandleFacts
<1>6. /\ desc' = [desc EXCEPT ![x] = NoDesc] /\ handle' = [handle EXCEPT ![g] = NoHandle]
      /\ record' = [record EXCEPT ![i] = Uncounted(record[i])] /\ UNCHANGED <<heap, owner, ptr>>
  BY DEF Destroy
<1> HIDE DEF i, g, x
<1>7. desc'[x] = NoDesc /\ \A d \in Descriptors : d # x => desc'[d] = desc[d]
  BY <1>3, <1>6 DEF TypeOK
<1>8. handle'[g] = NoHandle /\ \A h \in 1..Handles : h # g => handle'[h] = handle[h]
  BY <1>3, <1>6 DEF TypeOK
<1>9. record'[i] = Uncounted(record[i]) /\ \A j \in 1..Records : j # i => record'[j] = record[j]
  BY <1>5, <1>6 DEF TypeOK
<1>10. /\ record[i].refs = 1 /\ record[i].storage = None => record'[i] = NoRecord
       /\ ~(record[i].refs = 1 /\ record[i].storage = None) =>
            /\ record'[i].storage = record[i].storage /\ record'[i].ctx = record[i].ctx
            /\ record'[i].array = record[i].array
       /\ record'[i].refs = record[i].refs - 1 /\ record'[i].storage = record[i].storage
       /\ record[i].refs \in Nat
  <2>1. record[i] \in [storage : Addresses \cup {None}, ctx : Contexts, refs : Nat, array : BOOLEAN]
    BY <1>5 DEF TypeOK, TextureRecords
  <2>2. CASE record[i].refs = 1 /\ record[i].storage = None
    BY <1>9, <2>1, <2>2 DEF Uncounted, NoRecord
  <2>3. CASE ~(record[i].refs = 1 /\ record[i].storage = None)
    <3>1. record'[i] = [record[i] EXCEPT !.refs = @ - 1]
      BY <1>9, <2>3 DEF Uncounted
    <3> QED
      BY <2>1, <2>3, <3>1
  <2> QED
    BY <2>2, <2>3
<1>11. \A h \in 1..Handles : h # g /\ handle[h].descriptor # None =>
         handle[h].descriptor \in Descriptors \ {x}
  BY <1>3 DEF HandlesNamed, TypeOK, HandleRecords
<1>12. Viewing(i) \ {g} = {h \in 1..Handles :
          handle'[h].descriptor # None /\ handle'[h].allocation = i}
  BY <1>3, <1>8 DEF Viewing, NoHandle
<1>13. Cardinality(Viewing(i) \ {g}) = record[i].refs - 1 /\ IsFiniteSet(Viewing(i) \ {g})
  BY <1>5, ViewingFinite, FS_RemoveElement DEF RefsCounted
<1>14. \A h \in 1..Handles : h # g /\ handle[h].descriptor # None =>
         /\ handle[h].allocation \in 1..Records
         /\ record'[handle[h].allocation].ctx = record[handle[h].allocation].ctx
  <2> SUFFICES ASSUME NEW h \in 1..Handles, h # g, handle[h].descriptor # None
               PROVE  /\ handle[h].allocation \in 1..Records
                      /\ record'[handle[h].allocation].ctx = record[handle[h].allocation].ctx
    OBVIOUS
  <2>1. handle[h].allocation \in 1..Records
    BY DEF HandlesNamed
  <2>2. handle[h].allocation = i => record[i].refs # 1
    <3>1. handle[h].allocation = i => h \in Viewing(i) \ {g}
      BY DEF Viewing
    <3> QED
      BY <1>13, <3>1, FS_EmptySet
  <2> QED
    BY <1>9, <1>10, <2>1, <2>2
<1>15. Heap' /\ OwnersLive'
  BY <1>2, <1>6 DEF Heap, OwnersLive
<1>16. RecordsLive'
  <2>1. \A j \in 1..Records :
          /\ record'[j].storage = record[j].storage
          /\ record'[j].storage # None =>
                    record'[j].ctx = record[j].ctx /\ record'[j].array = record[j].array
    BY <1>9, <1>10
  <2>2. \A j \in 1..Records : record'[j].storage = None /\ record'[j].refs = 0 =>
            record'[j] = NoRecord
    BY <1>9, <1>10 DEF RecordsLive
  <2> QED
    BY <1>2, <1>6, <2>1, <2>2 DEF RecordsLive
<1>17. HandlesNamed'
  <2>1. \A h \in 1..Handles : handle'[h].descriptor # None =>
          /\ h # g /\ handle'[h] = handle[h] /\ desc'[handle[h].descriptor] = desc[handle[h].descriptor]
    BY <1>7, <1>8, <1>11 DEF NoHandle
  <2>2. \A h \in 1..Handles : handle'[h].descriptor # None =>
          /\ handle'[h].allocation \in 1..Records
          /\ ~StaleRecord(record'[handle'[h].allocation].ctx) =>
               /\ desc'[handle'[h].descriptor].live
               /\ desc'[handle'[h].descriptor].ctx = record'[handle'[h].allocation].ctx
    BY <1>14, <2>1 DEF HandlesNamed
  <2>3. \A h, k \in 1..Handles :
          h # k /\ handle'[h].descriptor # None => handle'[h].descriptor # handle'[k].descriptor
    BY <1>8, <2>1 DEF HandlesNamed, NoHandle
  <2> QED
    BY <1>2, <2>2, <2>3 DEF HandlesNamed
<1>18. RefsCounted'
  <2> SUFFICES ASSUME NEW j \in 1..Records PROVE record'[j].refs = Cardinality(Viewing(j)')
    BY DEF RefsCounted
  <2>1. CASE j = i
    <3>1. Viewing(j)' = Viewing(i) \ {g}
      BY <1>12, <2>1 DEF Viewing
    <3> QED
      BY <1>10, <1>13, <2>1, <3>1
  <2>2. CASE j # i
    <3>1. g \notin Viewing(j) /\ g \notin Viewing(j)'
      BY <1>5, <1>8, <2>2 DEF Viewing, NoHandle
    <3>2. Viewing(j)' = Viewing(j)
      BY <1>8, <3>1 DEF Viewing
    <3> QED
      BY <1>9, <2>2, <3>2 DEF RefsCounted
  <2> QED
    BY <2>1, <2>2
<1>19. ValidViews'
  <2> SUFFICES ASSUME NEW d \in Descriptors, desc'[d].valid
               PROVE  /\ desc'[d].live /\ desc'[d].data \in Addresses /\ desc'[d].gen > 0
                      /\ heap'[desc'[d].data].gen = desc'[d].gen
                      /\ heap'[desc'[d].data].ctx = desc'[d].ctx
                      /\ \E h \in 1..Handles :
                           /\ handle'[h].descriptor = d
                           /\ record'[handle'[h].allocation].storage = desc'[d].data
                           /\ record'[handle'[h].allocation].ctx = desc'[d].ctx
    BY DEF ValidViews
  <2>1. d # x /\ desc'[d] = desc[d]
    BY <1>7 DEF NoDesc
  <2>2. PICK h \in 1..Handles : /\ handle[h].descriptor = d
                                /\ record[handle[h].allocation].storage = desc[d].data
                                /\ record[handle[h].allocation].ctx = desc[d].ctx
    BY <2>1 DEF ValidViews
  <2>3. h # g /\ handle[h].descriptor # None
    BY <1>3, <2>1, <2>2
  <2>4. handle[h].allocation \in 1..Records
        /\ record'[handle[h].allocation].ctx = record[handle[h].allocation].ctx
    BY <1>14, <2>3
  <2>5. record'[handle[h].allocation].storage = record[handle[h].allocation].storage
    BY <1>9, <1>10, <2>4
  <2>6. /\ handle'[h].descriptor = d
        /\ record'[handle'[h].allocation].storage = desc'[d].data
        /\ record'[handle'[h].allocation].ctx = desc'[d].ctx
    BY <1>8, <2>1, <2>2, <2>3, <2>4, <2>5
  <2>7. /\ desc[d].live /\ desc[d].data \in Addresses /\ desc[d].gen > 0
        /\ heap[desc[d].data].gen = desc[d].gen /\ heap[desc[d].data].ctx = desc[d].ctx
    BY <2>1 DEF ValidViews
  <2> QED
    BY <1>6, <2>1, <2>6, <2>7
<1> QED
  BY <1>15, <1>16, <1>17, <1>18, <1>19

\* After the reset of a device only that device's entries are out of date.
LEMMA ResetTables ==
  ASSUME IInv, NEW t \in Threads, ResetDevice(t)
  PROVE  Tables'
<1>0. TypeOK /\ Arguments /\ Locks /\ Working /\ Frees /\ Resets /\ Hooks /\ Tables
  BY DEF IInv, Tables
<1> USE <1>0 DEF Tables
<1> USE RegistryAssumption
<1>1. \A k : ~StaleRecord(k) /\ ~StaleOwner(k)
  BY NoStale DEF ResetDevice, Describing, Locks, HoldsA
<1>2. /\ \A a \in Addresses : heap'[a] = IF heap[a].ctx = context[t] THEN Free ELSE heap[a]
      /\ \A d \in Descriptors : desc'[d] = IF desc[d].ctx = context[t] THEN NoDesc ELSE desc[d]
      /\ UNCHANGED <<owner, record, handle, context>> /\ pc[t] = "reset"
  BY DEF ResetDevice, tables
<1>3. /\ StaleOwner(context[t])' /\ \A k : k # context[t] => ~StaleRecord(k)'
      /\ hooks => StaleRecord(context[t])'
  <2>1. pc' = [pc EXCEPT ![t] = IF hooks THEN "afterReset" ELSE "clearOwners"]
    BY DEF ResetDevice, GoTo
  <2>2. \A u \in Threads \ {t} : pc'[u] = pc[u]
    BY <2>1 DEF TypeOK
  <2>3. pc'[t] = IF hooks THEN "afterReset" ELSE "clearOwners"
    BY <2>1 DEF TypeOK
  <2> QED
    BY <1>1, <1>2, <2>2, <2>3 DEF StaleOwner, StaleRecord
<1>4. Heap'
  BY <1>2 DEF Heap, Free
<1>5. RecordsLive'
  <2>1. \A i \in 1..Records : record[i].storage # None /\ ~StaleRecord(record[i].ctx)' =>
          /\ record[i].ctx # context[t] /\ record[i].storage \in Addresses
    BY <1>2, <1>3, StorageTypes DEF Hooks, NoRecord
  <2> QED
    BY <1>1, <1>2, <2>1 DEF RecordsLive
<1>6. HandlesNamed'
  <2>1. \A h \in 1..Handles : handle[h].descriptor # None =>
          /\ handle[h].descriptor \in Descriptors
          /\ ~StaleRecord(record[handle[h].allocation].ctx)' =>
               record[handle[h].allocation].ctx # context[t]
    BY <1>2, <1>3 DEF Hooks, TypeOK, HandleRecords
  <2> QED
    BY <1>1, <1>2, <2>1 DEF HandlesNamed
<1>7. RefsCounted'
  BY <1>2 DEF RefsCounted, Viewing
<1>8. ValidViews'
  <2>1. \A d \in Descriptors : desc'[d].valid =>
          /\ desc'[d] = desc[d] /\ desc[d].data \in Addresses
          /\ heap'[desc[d].data] = heap[desc[d].data]
    BY <1>2 DEF NoDesc, ValidViews
  <2> QED
    BY <1>2, <2>1 DEF ValidViews
<1>9. OwnersLive'
  <2>1. \A i \in 1..Owners : owner[i].pointer # None /\ ~StaleOwner(owner[i].ctx)' =>
          owner[i].ctx # context[t] /\ owner[i].pointer \in Addresses
    BY <1>2, <1>3 DEF TypeOK, OwnerRecords
  <2> QED
    BY <1>1, <1>2, <2>1 DEF OwnersLive
<1> QED
  BY <1>4, <1>5, <1>6, <1>7, <1>8, <1>9

\* textureAfterReset takes every record and handle of the device, which no valid
\* descriptor reads.
LEMMA ForgetTables ==
  ASSUME IInv, NEW t \in Threads, AfterReset(t)
  PROVE  Tables'
<1>0. TypeOK /\ Arguments /\ Locks /\ Working /\ Frees /\ Resets /\ Hooks /\ Tables
  BY DEF IInv, Tables
<1> USE <1>0 DEF Tables
<1> USE RegistryAssumption
<1>2. \A u \in Threads \ {t} : pc[u] \notin {"afterReset", "clearOwners"}
  BY AloneA DEF HoldsA, Locks, AfterReset
<1>3. /\ \A h \in 1..Handles : handle'[h] =
           IF handle[h].descriptor # None /\ record[handle[h].allocation].ctx = context[t]
           THEN NoHandle ELSE handle[h]
      /\ \A i \in 1..Records : record'[i] =
           IF record[i].ctx = context[t] THEN NoRecord ELSE record[i]
      /\ UNCHANGED <<heap, desc, owner, context>> /\ pc[t] = "afterReset"
  BY DEF AfterReset, textureOwned, Discarded
<1>4. /\ \A k : StaleOwner(k) => StaleOwner(k)'
      /\ \A k : StaleRecord(k) => k = context[t]
  <2>1. pc' = [pc EXCEPT ![t] = "clearOwners"]
    BY DEF AfterReset, GoTo
  <2>2. pc'[t] = "clearOwners"
    BY <2>1 DEF TypeOK
  <2> QED
    BY <1>2, <1>3, <2>2 DEF StaleOwner, StaleRecord
<1>5. Heap' /\ OwnersLive'
  BY <1>3, <1>4 DEF Heap, OwnersLive
<1>6. RecordsLive'
  <2>1. \A i \in 1..Records : record'[i].storage # None =>
          record'[i] = record[i] /\ ~StaleRecord(record[i].ctx)
    BY <1>3, <1>4 DEF NoRecord
  <2>2. \A i \in 1..Records : record'[i].storage = None /\ record'[i].refs = 0 =>
            record'[i] = NoRecord
    BY <1>3 DEF RecordsLive
  <2> QED
    BY <1>3, <2>1, <2>2 DEF RecordsLive
<1>7. \A h \in 1..Handles : handle'[h].descriptor # None =>
        /\ handle'[h] = handle[h] /\ handle[h].allocation \in 1..Records
        /\ record[handle[h].allocation].ctx # context[t]
        /\ record'[handle[h].allocation] = record[handle[h].allocation]
  BY <1>3 DEF HandlesNamed, NoHandle
<1>8. HandlesNamed'
  <2>1. \A h \in 1..Handles : handle'[h].descriptor # None =>
          ~StaleRecord(record[handle[h].allocation].ctx)
    BY <1>4, <1>7
  <2>2. \A h, k \in 1..Handles :
          h # k /\ handle'[h].descriptor # None => handle'[h].descriptor # handle'[k].descriptor
    BY <1>3, <1>7 DEF HandlesNamed, NoHandle
  <2> QED
    BY <1>3, <1>7, <2>1, <2>2 DEF HandlesNamed
<1>9. RefsCounted'
  <2> SUFFICES ASSUME NEW i \in 1..Records PROVE record'[i].refs = Cardinality(Viewing(i)')
    BY DEF RefsCounted
  <2>1. CASE record[i].ctx = context[t]
    <3>1. Viewing(i)' = {}
      BY <1>7, <2>1 DEF Viewing
    <3> QED
      BY <1>3, <2>1, <3>1, FS_EmptySet DEF NoRecord
  <2>2. CASE record[i].ctx # context[t]
    <3>1. Viewing(i)' = Viewing(i)
      BY <1>3, <1>7, <2>2 DEF Viewing
    <3> QED
      BY <1>3, <2>2, <3>1 DEF RefsCounted
  <2> QED
    BY <2>1, <2>2
<1>10. ValidViews'
  <2> SUFFICES ASSUME NEW d \in Descriptors, desc[d].valid
               PROVE  \E h \in 1..Handles :
                        /\ handle'[h].descriptor = d
                        /\ record'[handle'[h].allocation].storage = desc[d].data
                        /\ record'[handle'[h].allocation].ctx = desc[d].ctx
    BY <1>3 DEF ValidViews
  <2>1. PICK h \in 1..Handles : /\ handle[h].descriptor = d
                                /\ record[handle[h].allocation].storage = desc[d].data
                                /\ record[handle[h].allocation].ctx = desc[d].ctx
    BY DEF ValidViews
  <2>2. desc[d].ctx # context[t]
    BY <1>3 DEF Resets
  <2>3. handle'[h] = handle[h] /\ handle[h].descriptor # None
    BY <1>3, <2>1, <2>2
  <2> QED
    BY <1>7, <2>1, <2>3
<1> QED
  BY <1>5, <1>6, <1>8, <1>9, <1>10

\* Clearing the owners of the device ends the reset.
LEMMA ClearTables ==
  ASSUME IInv, NEW t \in Threads, ClearOwners(t)
  PROVE  Tables'
<1>0. TypeOK /\ Arguments /\ Locks /\ Working /\ Frees /\ Resets /\ Hooks /\ Tables
  BY DEF IInv, Tables
<1> USE <1>0 DEF Tables
<1> USE RegistryAssumption
<1>2. \A u \in Threads \ {t} : pc[u] \notin {"afterReset", "clearOwners"}
  BY AloneA DEF HoldsA, Locks, ClearOwners
<1>3. /\ \A i \in 1..Owners : owner'[i] = IF owner[i].ctx = context[t] THEN NoOwner ELSE owner[i]
      /\ UNCHANGED <<heap, desc, record, handle, context>> /\ pc[t] = "clearOwners"
  BY DEF ClearOwners
<1>4. \A k : /\ ~StaleRecord(k) /\ (StaleRecord(k)' <=> StaleRecord(k))
             /\ StaleOwner(k) => k = context[t]
  <2>1. pc' = [pc EXCEPT ![t] = "idle"]
    BY DEF ClearOwners, Return
  <2>2. \A u \in Threads : pc'[u] \notin {"afterReset"} /\ pc[u] # "afterReset"
    BY <1>2, <1>3, <2>1 DEF TypeOK
  <2> QED
    BY <1>2, <2>2 DEF StaleOwner, StaleRecord
<1>5. Heap' /\ RefsCounted' /\ ValidViews'
  BY <1>3 DEF Heap, RefsCounted, Viewing, ValidViews
<1>6. RecordsLive' /\ HandlesNamed'
  BY <1>3, <1>4 DEF RecordsLive, HandlesNamed
<1>7. OwnersLive'
  BY <1>3, <1>4 DEF OwnersLive, NoOwner
<1> QED
  BY <1>5, <1>6, <1>7

\* Every step keeps the tables and device memory in agreement.
LEMMA TablesNext == IInv /\ [Next]_vars => Tables'
<1> SUFFICES ASSUME IInv, [Next]_vars PROVE Tables'
  OBVIOUS
<1>0. TypeOK /\ Tables
  BY DEF IInv, Tables
<1> USE <1>0
<1> USE RegistryAssumption DEF GoTo, Return, Unlock, UnlockBoth, tables, ViewRecord
<1>1. ASSUME NEW t \in Threads, Calls(t)
      PROVE  Tables'
  <2>1. PICK l, x : l \in Labels /\ CallOf(t, l, x)
    BY <1>1, CallShape
  <2>2. UNCHANGED <<heap, desc, owner, record, handle, context>> /\ pc[t] = "idle"
    BY <1>1, CallShape
  <2>3. pc' = [pc EXCEPT ![t] = l] /\ l \notin {"afterReset", "clearOwners"}
    BY <2>1 DEF CallOf
  <2>4. \A k : (StaleRecord(k)' <=> StaleRecord(k)) /\ (StaleOwner(k)' <=> StaleOwner(k))
    BY <2>2, <2>3, StaleKept
  <2> QED
    BY <2>2, <2>4, SameTables
<1>2. ASSUME NEW t \in Threads, NotReady(t)
      PROVE  Tables'
  <2>1. UNCHANGED <<heap, desc, owner, record, handle>>
    BY <1>2 DEF NotReady
  <2>2. Step(t) /\ pc[t] \notin {"afterReset", "clearOwners"}
    BY <1>2 DEF Step, NotReady, Describing
  <2>3. pc'[t] \notin {"afterReset", "clearOwners"}
    BY <1>2 DEF NotReady, TypeOK
  <2> QED
    BY <2>1, <2>2, <2>3, StaleSame, SameTables
<1>3. ASSUME NEW t \in Threads, AllocateLock(t)
      PROVE  Tables'
  <2>1. UNCHANGED <<heap, desc, owner, record, handle>>
    BY <1>3 DEF AllocateLock
  <2>2. Step(t) /\ pc[t] \notin {"afterReset", "clearOwners"}
    BY <1>3 DEF Step, AllocateLock, Describing
  <2>3. pc'[t] \notin {"afterReset", "clearOwners"}
    BY <1>3 DEF AllocateLock, TypeOK
  <2> QED
    BY <2>1, <2>2, <2>3, StaleSame, SameTables
<1>4. ASSUME NEW t \in Threads, FreeLock(t)
      PROVE  Tables'
  <2>1. UNCHANGED <<heap, desc, owner, record, handle>>
    BY <1>4 DEF FreeLock
  <2>2. Step(t) /\ pc[t] \notin {"afterReset", "clearOwners"}
    BY <1>4 DEF Step, FreeLock, Describing
  <2>3. pc'[t] \notin {"afterReset", "clearOwners"}
    BY <1>4 DEF FreeLock, TypeOK
  <2> QED
    BY <2>1, <2>2, <2>3, StaleSame, SameTables
<1>5. ASSUME NEW t \in Threads, FreeHook(t)
      PROVE  Tables'
  <2>1. UNCHANGED <<heap, desc, owner, record, handle>>
    BY <1>5 DEF FreeHook
  <2>2. Step(t) /\ pc[t] \notin {"afterReset", "clearOwners"}
    BY <1>5 DEF Step, FreeHook, Describing
  <2>3. pc'[t] \notin {"afterReset", "clearOwners"}
    BY <1>5 DEF FreeHook, TypeOK
  <2> QED
    BY <2>1, <2>2, <2>3, StaleSame, SameTables
<1>6. ASSUME NEW t \in Threads, FreeArrayLock(t)
      PROVE  Tables'
  <2>1. UNCHANGED <<heap, desc, owner, record, handle>>
    BY <1>6 DEF FreeArrayLock
  <2>2. Step(t) /\ pc[t] \notin {"afterReset", "clearOwners"}
    BY <1>6 DEF Step, FreeArrayLock, Describing
  <2>3. pc'[t] \notin {"afterReset", "clearOwners"}
    BY <1>6 DEF FreeArrayLock, TypeOK
  <2> QED
    BY <2>1, <2>2, <2>3, StaleSame, SameTables
<1>7. ASSUME NEW t \in Threads, ReleaseFails(t)
      PROVE  Tables'
  <2>1. UNCHANGED <<heap, desc, owner, record, handle>>
    BY <1>7 DEF ReleaseFails
  <2>2. Step(t) /\ pc[t] \notin {"afterReset", "clearOwners"}
    BY <1>7 DEF Step, ReleaseFails, Describing
  <2>3. pc'[t] \notin {"afterReset", "clearOwners"}
    BY <1>7 DEF ReleaseFails, TypeOK
  <2> QED
    BY <2>1, <2>2, <2>3, StaleSame, SameTables
<1>8. ASSUME NEW t \in Threads, ViewLock(t)
      PROVE  Tables'
  <2>1. UNCHANGED <<heap, desc, owner, record, handle>>
    BY <1>8 DEF ViewLock
  <2>2. Step(t) /\ pc[t] \notin {"afterReset", "clearOwners"}
    BY <1>8 DEF Step, ViewLock, Describing
  <2>3. pc'[t] \notin {"afterReset", "clearOwners"}
    BY <1>8 DEF ViewLock, TypeOK
  <2> QED
    BY <2>1, <2>2, <2>3, StaleSame, SameTables
<1>9. ASSUME NEW t \in Threads, ViewArray(t)
      PROVE  Tables'
  <2>1. UNCHANGED <<heap, desc, owner, record, handle>>
    BY <1>9 DEF ViewArray
  <2>2. Step(t) /\ pc[t] \notin {"afterReset", "clearOwners"}
    BY <1>9 DEF Step, ViewArray, Describing
  <2>3. pc'[t] \notin {"afterReset", "clearOwners"}
    BY <1>9 DEF ViewArray, TypeOK
  <2> QED
    BY <2>1, <2>2, <2>3, StaleSame, SameTables
<1>10. ASSUME NEW t \in Threads, ViewPitch(t)
      PROVE  Tables'
  <2>1. UNCHANGED <<heap, desc, owner, record, handle>>
    BY <1>10 DEF ViewPitch
  <2>2. Step(t) /\ pc[t] \notin {"afterReset", "clearOwners"}
    BY <1>10 DEF Step, ViewPitch, Describing
  <2>3. pc'[t] \notin {"afterReset", "clearOwners"}
    BY <1>10 DEF ViewPitch, TypeOK
  <2> QED
    BY <2>1, <2>2, <2>3, StaleSame, SameTables
<1>11. ASSUME NEW t \in Threads, DescribeFails(t)
      PROVE  Tables'
  <2>1. UNCHANGED <<heap, desc, owner, record, handle>>
    BY <1>11 DEF DescribeFails
  <2>2. Step(t) /\ pc[t] \notin {"afterReset", "clearOwners"}
    BY <1>11 DEF Step, DescribeFails, Describing
  <2>3. pc'[t] \notin {"afterReset", "clearOwners"}
    BY <1>11 DEF DescribeFails, TypeOK
  <2> QED
    BY <2>1, <2>2, <2>3, StaleSame, SameTables
<1>12. ASSUME NEW t \in Threads, DestroyFails(t)
      PROVE  Tables'
  <2>1. UNCHANGED <<heap, desc, owner, record, handle>>
    BY <1>12 DEF DestroyFails
  <2>2. Step(t) /\ pc[t] \notin {"afterReset", "clearOwners"}
    BY <1>12 DEF Step, DestroyFails, Describing
  <2>3. pc'[t] \notin {"afterReset", "clearOwners"}
    BY <1>12 DEF DestroyFails, TypeOK
  <2> QED
    BY <2>1, <2>2, <2>3, StaleSame, SameTables
<1>13. ASSUME NEW t \in Threads, Malloc(t)
      PROVE  Tables'
  BY <1>13, MallocTables
<1>14. ASSUME NEW t \in Threads, Allocate(t)
      PROVE  Tables'
  BY <1>14, AllocateTables
<1>15. ASSUME NEW t \in Threads, FreeRaw(t)
      PROVE  Tables'
  BY <1>15, FreeRawTables
<1>16. ASSUME NEW t \in Threads, Invalidate(t)
      PROVE  Tables'
  BY <1>16, InvalidateTables
<1>17. ASSUME NEW t \in Threads, ReleaseStorage(t)
      PROVE  Tables'
  BY <1>17, ReleaseTables
<1>18. ASSUME NEW t \in Threads, ViewBorrowed(t)
      PROVE  Tables'
  BY <1>18, BorrowTables
<1>19. ASSUME NEW t \in Threads, DescribeLeaks(t)
      PROVE  Tables'
  BY <1>19, LeakTables
<1>20. ASSUME NEW t \in Threads, Describe(t)
      PROVE  Tables'
  BY <1>20, DescribeTables
<1>21. ASSUME NEW t \in Threads, Destroy(t)
      PROVE  Tables'
  BY <1>21, DestroyTables
<1>22. ASSUME NEW t \in Threads, ResetDevice(t)
      PROVE  Tables'
  BY <1>22, ResetTables
<1>23. ASSUME NEW t \in Threads, AfterReset(t)
      PROVE  Tables'
  BY <1>23, ForgetTables
<1>24. ASSUME NEW t \in Threads, ClearOwners(t)
      PROVE  Tables'
  BY <1>24, ClearTables
<1>25. ASSUME UNCHANGED vars PROVE Tables'
  <2>1. UNCHANGED <<heap, desc, owner, record, handle>>
    BY <1>25 DEF vars, tables
  <2>2. \A k : (StaleRecord(k)' <=> StaleRecord(k)) /\ (StaleOwner(k)' <=> StaleOwner(k))
    BY <1>25 DEF vars, StaleRecord, StaleOwner
  <2> QED
    BY <2>1, <2>2, SameTables
<1> QED
  BY <1>1, <1>2, <1>3, <1>4, <1>5, <1>6, <1>7, <1>8, <1>9, <1>10,
     <1>11, <1>12, <1>13, <1>14, <1>15, <1>16, <1>17, <1>18, <1>19, <1>20,
     <1>21, <1>22, <1>23, <1>24, <1>25
     DEF Next, Step, Quiet

-----------------------------------------------------------------------------
(* The theorems *)

\* The invariant is inductive.
LEMMA IInvNext == IInv /\ [Next]_vars => IInv'
  BY TypeNext, ArgumentsNext, LocksNext, WorkingNext, FreesNext, ResetsNext, HooksNext, TablesNext
     DEF IInv, Tables

\* It holds of every behaviour.
LEMMA IInvAlways == Spec => []IInv
<1>1. Init => IInv
  BY IInvInit
<1>2. IInv /\ [Next]_vars => IInv'
  BY IInvNext
<1> QED
  BY <1>1, <1>2, PTL DEF Spec

\* Tables, locks, device memory and threads keep their types, however many
\* threads call and whichever call of ACL fails.
THEOREM TypeCorrect == Spec => []TypeOK
<1>1. IInv => TypeOK
  BY DEF IInv
<1> QED
  BY <1>1, IInvAlways, PTL

\* A view that the device would still accept reads the allocation it was created
\* on: storage is only freed once textureReleaseStorage has invalidated its views,
\* or when nothing but a raw pointer refers to it.
THEOREM ViewsStayHome == Spec => []NoRetarget
<1>1. IInv => NoRetarget
  BY DEF IInv, ValidViews, NoRetarget
<1> QED
  BY <1>1, IInvAlways, PTL

\* Between calls references are counted, handles name live descriptors of their
\* own, and when everything is gone every slot of the three tables is empty.
THEOREM TablesConsistent == Spec => []TablesAgree
<1>1. IInv => CountsAgree
  <2> SUFFICES ASSUME IInv, tLock = None, \A t \in Threads : pc[t] \notin {"afterReset"}
               PROVE  /\ \A i \in 1..Records : record[i].refs = Cardinality(Viewing(i))
                      /\ \A h \in 1..Handles :
                           handle[h].descriptor # None => desc[handle[h].descriptor].live
                      /\ \A g, h \in 1..Handles :
                           g # h /\ handle[g].descriptor # None
                             => handle[g].descriptor # handle[h].descriptor
    BY DEF CountsAgree
  <2>1. RefsCounted /\ HandlesNamed
    BY DEF IInv
  <2>2. \A k : ~StaleRecord(k)
    BY DEF StaleRecord
  <2> QED
    BY <2>1, <2>2 DEF RefsCounted, HandlesNamed
<1>2. IInv => SlotsReturn
  <2> SUFFICES ASSUME IInv, aLock = None, \A a \in Addresses : heap[a] = Free,
                      \A h \in 1..Handles : handle[h] = NoHandle
               PROVE  /\ \A i \in 1..Records : record[i] = NoRecord
                      /\ \A i \in 1..Owners : owner[i] = NoOwner
    BY DEF SlotsReturn
  <2>1. TypeOK /\ Locks /\ RecordsLive /\ RefsCounted /\ OwnersLive
    BY DEF IInv
  <2>2. \A k : ~StaleRecord(k) /\ ~StaleOwner(k)
    BY <2>1, NoStale
  <2>3. ASSUME NEW i \in 1..Records PROVE record[i] = NoRecord
    <3>1. record[i].storage = None
      <4>1. record[i].storage \in Addresses \cup {None}
        BY <2>1, StorageTypes
      <4> QED
        BY <2>1, <2>2, <4>1 DEF RecordsLive, Free
    <3>2. Viewing(i) = {}
      BY DEF Viewing, NoHandle
    <3>3. record[i].refs = 0
      BY <2>1, <3>2, FS_EmptySet DEF RefsCounted
    <3> QED
      BY <2>1, <3>1, <3>3 DEF RecordsLive
  <2>4. ASSUME NEW i \in 1..Owners PROVE owner[i] = NoOwner
    <3>1. owner[i].pointer \in Addresses \cup {None}
      BY <2>1 DEF TypeOK, OwnerRecords
    <3> QED
      BY <2>1, <2>2, <3>1 DEF OwnersLive, Free
  <2> QED
    BY <2>3, <2>4
<1>3. IInv => TablesAgree
  BY <1>1, <1>2 DEF TablesAgree
<1> QED
  BY <1>3, IInvAlways, PTL

\* While nobody holds the allocation lock, the owner recorded for a pointer is
\* the allocation that is at this address now.
THEOREM OwnersCurrent == Spec => []ProvenanceCurrent
<1>1. IInv => ProvenanceCurrent
  <2> SUFFICES ASSUME IInv, aLock = None, NEW i \in 1..Owners, owner[i].pointer # None
               PROVE  heap[owner[i].pointer].gen = owner[i].gen
    BY DEF ProvenanceCurrent
  <2>1. Locks /\ OwnersLive
    BY DEF IInv
  <2>2. \A k : ~StaleOwner(k)
    BY <2>1, NoStale
  <2> QED
    BY <2>1, <2>2 DEF OwnersLive
<1> QED
  BY <1>1, IInvAlways, PTL

=============================================================================
