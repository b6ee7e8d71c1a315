----------------------------- MODULE StoreProofs ------------------------------
(***************************************************************************)
(* Proofs about StoreImpl.                                                 *)
(***************************************************************************)
EXTENDS StoreImpl, FiniteSetTheorems, TLAPS

-----------------------------------------------------------------------------
(* Memory.  The proofs of the steps know BuffersOf by these facts alone.   *)

\* Data reaches the buffers of its fields.
LEMMA ReachesFields ==
  ASSUME NEW d \in Refs, NEW f \in Fields
  PROVE  d[f] \in BuffersOf(d) /\ d[f] \in Buffers
BY DEF Refs, BuffersOf

\* A variable that is not in use reaches nothing.
LEMMA ReachesNothing == BuffersOf(NoData) = {} /\ BuffersOf(NoEntry) = {}
BY StoreAssumption DEF Refs, BuffersOf

\* NoData and NoEntry are no data.
LEMMA NotRefs == NoData \notin Refs /\ NoEntry \notin Refs
BY StoreAssumption DEF Refs

\* New buffers are reached from nowhere.
LEMMA FreshIsApart ==
  ASSUME NEW d \in Fresh
  PROVE  /\ d \in Refs
         /\ \A k \in Keys : Apart(d, store[k])
         /\ \A c \in Callers : Apart(d, own[c]) /\ Apart(d, src[c]) /\ Apart(d, dst[c])
<1>1. d \in Refs /\ \A b \in BuffersOf(d) : b \notin Reachable
  BY DEF Fresh, BuffersOf
<1>2. \A k \in Keys : BuffersOf(store[k]) \subseteq Reachable
  BY DEF Reachable
<1>3. \A c \in Callers : BuffersOf(own[c]) \cup BuffersOf(src[c]) \cup BuffersOf(dst[c]) \subseteq Reachable
  BY DEF Reachable
<1> QED
  BY <1>1, <1>2, <1>3 DEF Apart

\* Apart is symmetric.
LEMMA ApartSymmetric ==
  ASSUME NEW d, NEW e, Apart(d, e)
  PROVE  Apart(e, d)
BY DEF Apart

\* Taking buffers back changes no data that is apart from them.
LEMMA FreeKeeps ==
  ASSUME NEW d, heap \in [Buffers -> Contents], Free(d)
  PROVE  /\ heap' \in [Buffers -> Contents]
         /\ \A e \in Refs : Apart(d, e) => \A f \in Fields : heap'[e[f]] = heap[e[f]]
<1>1. heap' \in [Buffers -> Contents]
  BY StoreAssumption DEF Free
<1>2. ASSUME NEW e \in Refs, Apart(d, e), NEW f \in Fields
      PROVE  heap'[e[f]] = heap[e[f]]
  BY <1>2, ReachesFields DEF Free, Apart
<1> QED
  BY <1>1, <1>2

\* A write to one field changes no other data, and no other field.
LEMMA StoreByteKeeps ==
  ASSUME NEW d \in Refs, NEW f \in Fields, NEW x \in Contents,
         heap \in [Buffers -> Contents], heap' = [heap EXCEPT ![d[f]] = x]
  PROVE  /\ heap' \in [Buffers -> Contents]
         /\ heap'[d[f]] = x
         /\ \A g \in Fields : g # f => heap'[d[g]] = heap[d[g]]
         /\ \A e \in Refs : Apart(d, e) => \A g \in Fields : heap'[e[g]] = heap[e[g]]
<1>1. heap' \in [Buffers -> Contents] /\ heap'[d[f]] = x
  BY ReachesFields
<1>2. ASSUME NEW g \in Fields, g # f PROVE heap'[d[g]] = heap[d[g]]
  BY <1>2, ReachesFields DEF Refs
<1>3. ASSUME NEW e \in Refs, Apart(d, e), NEW g \in Fields
      PROVE  heap'[e[g]] = heap[e[g]]
  BY <1>3, ReachesFields DEF Apart
<1> QED
  BY <1>1, <1>2, <1>3

-----------------------------------------------------------------------------
(* What the steps that change memory leave alone. *)

Kept(d) == d \in Refs => \A f \in Fields : heap'[d[f]] = heap[d[f]]

\* A field is copied into memory only the copying caller reaches.
LEMMA CopyFieldMemory ==
  ASSUME Inv, NEW c \in Callers, CopyField(c)
  PROVE  /\ heap' \in [Buffers -> Contents]
         /\ \E f \in todo[c] :
              /\ todo' = [todo EXCEPT ![c] = @ \ {f}]
              /\ heap'[dst[c][f]] = heap[src[c][f]]
              /\ \A g \in Fields : g # f => heap'[dst[c][g]] = heap[dst[c][g]]
         /\ \A e \in Callers : Kept(own[e]) /\ Kept(src[e]) /\ (e # c => Kept(dst[e]))
         /\ \A k \in Keys : Kept(store[k])
<1> USE StoreAssumption, NotRefs DEF Inv, CopyField
<1>1. PICK f \in todo[c] :
        /\ heap' = [heap EXCEPT ![dst[c][f]] = heap[src[c][f]]]
        /\ todo' = [todo EXCEPT ![c] = @ \ {f}]
  OBVIOUS
<1>2. src[c] \in Refs /\ dst[c] \in Refs /\ f \in Fields /\ heap[src[c][f]] \in Contents
  BY ReachesFields DEF TypeOK, CopyOK
<1>3. /\ heap' \in [Buffers -> Contents]
      /\ heap'[dst[c][f]] = heap[src[c][f]]
      /\ \A g \in Fields : g # f => heap'[dst[c][g]] = heap[dst[c][g]]
      /\ \A e \in Refs : Apart(dst[c], e) => \A g \in Fields : heap'[e[g]] = heap[e[g]]
  BY <1>1, <1>2, StoreByteKeeps DEF TypeOK
<1>4. /\ \A e \in Callers : Apart(dst[c], own[e]) /\ (e # c => Apart(dst[c], dst[e]))
      /\ \A k \in Keys : Apart(dst[c], store[k])
  BY ApartSymmetric DEF Isolated
<1>5. \A e \in Callers : src[e] \in Refs => Apart(dst[c], src[e])
  BY <1>4 DEF CallOK, CopyOK, Copying
<1> QED
  BY <1>1, <1>3, <1>4, <1>5 DEF Kept

\* A caller that changes its bytes changes nobody else's.
LEMMA OwnBytesMemory ==
  ASSUME Inv, NEW c \in Callers, OwnBytesChange(c)
  PROVE  /\ heap' \in [Buffers -> Contents]
         /\ \A e \in Callers : Kept(src[e]) /\ Kept(dst[e]) /\ (e # c => Kept(own[e]))
         /\ \A k \in Keys : Kept(store[k])
<1> USE StoreAssumption, NotRefs DEF Inv, OwnBytesChange
<1>1. PICK f \in Fields, x \in Contents : heap' = [heap EXCEPT ![own[c][f]] = x]
  OBVIOUS
<1>2. own[c] \in Refs
  BY DEF TypeOK
<1>3. /\ heap' \in [Buffers -> Contents]
      /\ \A e \in Refs : Apart(own[c], e) => \A g \in Fields : heap'[e[g]] = heap[e[g]]
  BY <1>1, <1>2, StoreByteKeeps DEF TypeOK
<1>4. /\ \A e \in Callers : Apart(own[c], dst[e]) /\ (e # c => Apart(own[c], own[e]))
      /\ \A k \in Keys : Apart(own[c], store[k])
  BY DEF Isolated
<1>5. \A e \in Callers : src[e] \in Refs => Apart(own[c], src[e])
  BY <1>4 DEF CallOK, CopyOK, Copying
<1> QED
  BY <1>3, <1>4, <1>5 DEF Kept

\* An entry that goes takes no memory of others with it: nobody is copying
\* it, because the lock is held.
LEMMA EntryGoesMemory ==
  ASSUME Inv, NEW c \in Callers, pc[c] = "access", key[c] \in Keys, Free(store[key[c]])
  PROVE  /\ heap' \in [Buffers -> Contents]
         /\ \A e \in Callers : Kept(own[e]) /\ Kept(src[e]) /\ Kept(dst[e])
         /\ \A k \in Keys : k # key[c] => Kept(store[k])
<1> USE StoreAssumption, NotRefs DEF Inv
<1>1. heap' \in [Buffers -> Contents] /\ \A e \in Refs : Apart(store[key[c]], e) => Kept(e)
  BY FreeKeeps DEF TypeOK, Kept
<1>2. /\ \A e \in Callers : Apart(store[key[c]], own[e]) /\ Apart(store[key[c]], dst[e])
      /\ \A k \in Keys : k # key[c] => Apart(store[key[c]], store[k])
  BY ApartSymmetric DEF Isolated
<1>3. \A e \in Callers : src[e] \in Refs => src[e] = own[e]
  BY DEF LockOK, CopyOK
<1> QED
  BY <1>1, <1>2, <1>3 DEF Kept

\* What a caller had before is its own, and no copy of it is under way.
LEMMA OwnGoesMemory ==
  ASSUME Inv, NEW c \in Callers, ReturnData(c)
  PROVE  /\ heap' \in [Buffers -> Contents]
         /\ \A e \in Callers : Kept(src[e]) /\ Kept(dst[e]) /\ (e # c => Kept(own[e]))
         /\ \A k \in Keys : Kept(store[k])
<1> USE StoreAssumption, NotRefs DEF Inv, ReturnData
<1>1. heap' \in [Buffers -> Contents] /\ \A e \in Refs : Apart(own[c], e) => Kept(e)
  BY FreeKeeps DEF TypeOK, Kept
<1>2. /\ \A e \in Callers : Apart(own[c], dst[e]) /\ (e # c => Apart(own[c], own[e]))
      /\ \A k \in Keys : Apart(own[c], store[k])
  BY DEF Isolated
<1>3. \A e \in Callers : src[e] \in Refs => Apart(own[c], src[e])
  BY <1>2 DEF CallOK, CopyOK, Copying
<1> QED
  BY <1>1, <1>2, <1>3 DEF Kept

-----------------------------------------------------------------------------
(* The inductive invariant. *)

\* It holds before the first call.
LEMMA InitInv == Init => Inv
<1> SUFFICES ASSUME Init PROVE Inv
  OBVIOUS
<1> USE StoreAssumption
<1>1. TypeOK
  BY DEF Init, TypeOK, Callers, Copying
<1>2. Isolated
  BY ReachesNothing DEF Init, Isolated, Apart
<1>3. LockOK
  BY DEF Init, LockOK
<1>4. ASSUME NEW c \in Callers PROVE CallOK(c) /\ CopyOK(c)
  BY NotRefs DEF Init, CallOK, CopyOK, Copying, Callers
<1> QED
  BY <1>1, <1>2, <1>3, <1>4 DEF Inv

\* A Write that is called holds its copy alone.
LEMMA CallWriteInv ==
  ASSUME Inv, NEW c \in Writers, CallWrite(c)
  PROVE  Inv'
<1> USE StoreAssumption, NotRefs DEF Inv, CallWrite, lockVars, callVars, copyVars, Call
<1>w. c \in Callers
  BY DEF Callers
<1> USE <1>w
<1>a. PICK d \in Fresh : dst' = [dst EXCEPT ![c] = d]
  BY DEF CopyStarts
<1>b. /\ d \in Refs
      /\ \A k \in Keys : Apart(d, store[k])
      /\ \A e \in Callers : Apart(d, own[e]) /\ Apart(d, src[e]) /\ Apart(d, dst[e])
  BY FreshIsApart
<1>c. /\ src' = [src EXCEPT ![c] = own[c]]
      /\ todo' = [todo EXCEPT ![c] = Fields]
      /\ pc' = [pc EXCEPT ![c] = "copyIn"]
  BY DEF CopyStarts
<1> USE <1>a, <1>b, <1>c
<1>1. TypeOK'
  BY DEF TypeOK, CallOK, CopyOK, Copying
<1>2. Isolated'
  BY DEF TypeOK, CallOK, CopyOK, Isolated, Apart
<1>3. LockOK'
  BY DEF TypeOK, LockOK, Copying
<1>4. ASSUME NEW e \in Callers
      PROVE  CallOK(e)' /\ CopyOK(e)'
  <2>1. CallOK(e)'
    BY DEF TypeOK, CallOK, CopyOK, Copying
  <2>2. CopyOK(e)'
    BY DEF TypeOK, Isolated, LockOK, CallOK, CopyOK, Copying
  <2> QED
    BY <2>1, <2>2
<1> QED
  BY <1>1, <1>2, <1>3, <1>4

\* Delete is called.
LEMMA CallDeleteInv ==
  ASSUME Inv, NEW c \in Writers, CallDelete(c)
  PROVE  Inv'
<1> USE StoreAssumption, NotRefs DEF Inv, CallDelete, lockVars, callVars, copyVars, Call
<1>w. c \in Callers
  BY DEF Callers
<1> USE <1>w
<1>1. TypeOK'
  BY DEF TypeOK, CallOK, CopyOK, Copying
<1>2. Isolated'
  BY DEF TypeOK, CallOK, CopyOK, Isolated, Apart
<1>3. LockOK'
  BY DEF TypeOK, LockOK, Copying
<1>4. \A e \in Callers : CallOK(e)' /\ CopyOK(e)'
  BY DEF TypeOK, LockOK, CallOK, CopyOK, Copying
<1> QED
  BY <1>1, <1>2, <1>3, <1>4

\* Read is called.
LEMMA CallReadInv ==
  ASSUME Inv, NEW c \in Readers, CallRead(c)
  PROVE  Inv'
<1> USE StoreAssumption, NotRefs DEF Inv, CallRead, lockVars, callVars, copyVars, Call
<1>w. c \in Callers
  BY DEF Callers
<1> USE <1>w
<1>1. TypeOK'
  BY DEF TypeOK, CallOK, CopyOK, Copying
<1>2. Isolated'
  BY DEF TypeOK, CallOK, CopyOK, Isolated, Apart
<1>3. LockOK'
  BY DEF TypeOK, LockOK, Copying
<1>4. \A e \in Callers : CallOK(e)' /\ CopyOK(e)'
  BY DEF TypeOK, LockOK, CallOK, CopyOK, Copying
<1> QED
  BY <1>1, <1>2, <1>3, <1>4

\* Len is called.
LEMMA CallLenInv ==
  ASSUME Inv, NEW c \in Readers, CallLen(c)
  PROVE  Inv'
<1> USE StoreAssumption, NotRefs DEF Inv, CallLen, lockVars, callVars, copyVars, Call
<1>w. c \in Callers
  BY DEF Callers
<1> USE <1>w
<1>1. TypeOK'
  BY DEF TypeOK, CallOK, CopyOK, Copying
<1>2. Isolated'
  BY DEF TypeOK, CallOK, CopyOK, Isolated, Apart
<1>3. LockOK'
  BY DEF TypeOK, LockOK, Copying
<1>4. \A e \in Callers : CallOK(e)' /\ CopyOK(e)'
  BY DEF TypeOK, LockOK, CallOK, CopyOK, Copying
<1> QED
  BY <1>1, <1>2, <1>3, <1>4

\* A writer keeps others from locking.
LEMMA LockInv ==
  ASSUME Inv, NEW c \in Callers, Lock(c)
  PROVE  Inv'
<1> USE StoreAssumption, NotRefs DEF Inv, Lock, lockVars, callVars, copyVars
<1>1. TypeOK'
  BY DEF TypeOK, CallOK, CopyOK, Copying
<1>2. Isolated'
  BY DEF TypeOK, CallOK, CopyOK, Isolated, Apart
<1>3. LockOK'
  BY DEF TypeOK, LockOK, Copying
<1>4. \A e \in Callers : CallOK(e)' /\ CopyOK(e)'
  BY DEF TypeOK, LockOK, CallOK, CopyOK, Copying
<1> QED
  BY <1>1, <1>2, <1>3, <1>4

\* A reader keeps writers from the map.
LEMMA RLockInv ==
  ASSUME Inv, NEW c \in Callers, RLock(c)
  PROVE  Inv'
<1> USE StoreAssumption, NotRefs DEF Inv, RLock, lockVars, callVars, copyVars
<1>1. TypeOK'
  BY DEF TypeOK, CallOK, CopyOK, Copying
<1>2. Isolated'
  BY DEF TypeOK, CallOK, CopyOK, Isolated, Apart
<1>3. LockOK'
  BY DEF TypeOK, LockOK, Copying
<1>4. \A e \in Callers : CallOK(e)' /\ CopyOK(e)'
  BY DEF TypeOK, LockOK, CallOK, CopyOK, Copying
<1> QED
  BY <1>1, <1>2, <1>3, <1>4

\* No reader is left.
LEMMA ReadersLeftInv ==
  ASSUME Inv, NEW c \in Callers, ReadersLeft(c)
  PROVE  Inv'
<1> USE StoreAssumption, NotRefs DEF Inv, ReadersLeft, lockVars, callVars, copyVars
<1>1. TypeOK'
  BY DEF TypeOK, CallOK, CopyOK, Copying
<1>2. Isolated'
  BY DEF TypeOK, CallOK, CopyOK, Isolated, Apart
<1>3. LockOK'
  BY DEF TypeOK, LockOK, Copying
<1>4. \A e \in Callers : CallOK(e)' /\ CopyOK(e)'
  BY DEF TypeOK, LockOK, CallOK, CopyOK, Copying
<1> QED
  BY <1>1, <1>2, <1>3, <1>4

\* A field is copied into buffers nobody else reaches.
LEMMA CopyFieldInv ==
  ASSUME Inv, NEW c \in Callers, CopyField(c)
  PROVE  Inv'
<1> USE StoreAssumption, NotRefs DEF Inv, CopyField, lockVars, callVars, copyVars
<1>a. PICK f \in todo[c] :
        /\ todo' = [todo EXCEPT ![c] = @ \ {f}]
        /\ heap'[dst[c][f]] = heap[src[c][f]]
        /\ \A g \in Fields : g # f => heap'[dst[c][g]] = heap[dst[c][g]]
  BY CopyFieldMemory
<1>1. TypeOK'
  BY <1>a, CopyFieldMemory DEF TypeOK
<1>2. Isolated'
  BY DEF TypeOK, CallOK, CopyOK, Isolated, Apart
<1>3. LockOK'
  BY DEF TypeOK, LockOK, Copying
<1>4. ASSUME NEW e \in Callers
      PROVE  CallOK(e)' /\ CopyOK(e)'
  <2>1. CallOK(e)'
    BY DEF TypeOK, CallOK, CopyOK, Copying
  <2>2. Kept(own[e]) /\ Kept(src[e]) /\ (e # c => Kept(dst[e]))
    BY CopyFieldMemory
  <2>3. CASE e # c
    BY <1>a, <2>2, <2>3 DEF Kept, TypeOK, CallOK, CopyOK, Copying
  <2>4. CASE e = c
    BY <1>a, <2>2, <2>4 DEF Kept, TypeOK, CallOK, CopyOK, Copying
  <2> QED
    BY <2>1, <2>3, <2>4
<1> QED
  BY <1>1, <1>2, <1>3, <1>4

\* The copy is complete.
LEMMA CopyEndsInv ==
  ASSUME Inv, NEW c \in Callers, CopyEnds(c)
  PROVE  Inv'
<1> USE StoreAssumption, NotRefs DEF Inv, CopyEnds, lockVars, callVars, copyVars
<1>1. TypeOK'
  BY DEF TypeOK, CallOK, CopyOK, Copying
<1>2. Isolated'
  BY DEF TypeOK, CallOK, CopyOK, Isolated, Apart
<1>3. LockOK'
  BY DEF TypeOK, LockOK, Copying
<1>4. \A e \in Callers : CallOK(e)' /\ CopyOK(e)'
  BY DEF TypeOK, LockOK, CallOK, CopyOK, Copying
<1> QED
  BY <1>1, <1>2, <1>3, <1>4

\* The copy becomes the entry.
LEMMA AssignInv ==
  ASSUME Inv, NEW c \in Callers, Assign(c)
  PROVE  Inv'
<1> USE StoreAssumption, NotRefs DEF Inv, Assign, lockVars, callVars, copyVars
<1>a. key[c] \in Keys
  BY DEF CallOK
<1>1. TypeOK'
  BY <1>a, EntryGoesMemory DEF TypeOK, CallOK, CopyOK, Copying
<1>2. Isolated'
  BY <1>a, ReachesNothing DEF TypeOK, CallOK, CopyOK, Isolated, Apart
<1>3. LockOK'
  BY DEF TypeOK, LockOK, Copying
<1>4. ASSUME NEW e \in Callers
      PROVE  CallOK(e)' /\ CopyOK(e)'
  <2>1. CallOK(e)'
    BY DEF TypeOK, CallOK, CopyOK, Copying
  <2>2. CopyOK(e)'
    BY <1>a, EntryGoesMemory DEF Kept, TypeOK, Isolated, LockOK, CallOK, CopyOK, Copying
  <2> QED
    BY <2>1, <2>2
<1> QED
  BY <1>1, <1>2, <1>3, <1>4

\* The entry goes.
LEMMA RemoveInv ==
  ASSUME Inv, NEW c \in Callers, Remove(c)
  PROVE  Inv'
<1> USE StoreAssumption, NotRefs DEF Inv, Remove, lockVars, callVars, copyVars
<1>a. key[c] \in Keys
  BY DEF CallOK
<1>1. TypeOK'
  BY <1>a, EntryGoesMemory DEF TypeOK, CallOK, CopyOK, Copying
<1>2. Isolated'
  BY <1>a, ReachesNothing DEF TypeOK, CallOK, CopyOK, Isolated, Apart
<1>3. LockOK'
  BY DEF TypeOK, LockOK, Copying
<1>4. ASSUME NEW e \in Callers
      PROVE  CallOK(e)' /\ CopyOK(e)'
  <2>1. CallOK(e)'
    BY DEF TypeOK, CallOK, CopyOK, Copying
  <2>2. CopyOK(e)'
    BY <1>a, EntryGoesMemory DEF Kept, TypeOK, Isolated, LockOK, CallOK, CopyOK, Copying
  <2> QED
    BY <2>1, <2>2
<1> QED
  BY <1>1, <1>2, <1>3, <1>4

\* The copy that Read starts is held alone.
LEMMA HitInv ==
  ASSUME Inv, NEW c \in Callers, Hit(c)
  PROVE  Inv'
<1> USE StoreAssumption, NotRefs DEF Inv, Hit, lockVars, callVars, copyVars
<1>a. PICK d \in Fresh : dst' = [dst EXCEPT ![c] = d]
  BY DEF CopyStarts
<1>b. /\ d \in Refs
      /\ \A k \in Keys : Apart(d, store[k])
      /\ \A e \in Callers : Apart(d, own[e]) /\ Apart(d, src[e]) /\ Apart(d, dst[e])
  BY FreshIsApart
<1>c. /\ src' = [src EXCEPT ![c] = store[key[c]]]
      /\ todo' = [todo EXCEPT ![c] = Fields]
      /\ pc' = [pc EXCEPT ![c] = "copyOut"]
  BY DEF CopyStarts
<1> USE <1>a, <1>b, <1>c
<1>1. TypeOK'
  BY DEF TypeOK, CallOK, CopyOK, Copying
<1>2. Isolated'
  BY DEF TypeOK, CallOK, CopyOK, Isolated, Apart
<1>3. LockOK'
  BY DEF TypeOK, LockOK, Copying
<1>4. ASSUME NEW e \in Callers
      PROVE  CallOK(e)' /\ CopyOK(e)'
  <2>1. CallOK(e)'
    BY DEF TypeOK, CallOK, CopyOK, Copying
  <2>2. CopyOK(e)'
    BY DEF TypeOK, Isolated, LockOK, CallOK, CopyOK, Copying
  <2> QED
    BY <2>1, <2>2
<1> QED
  BY <1>1, <1>2, <1>3, <1>4

\* Read finds nothing.
LEMMA MissInv ==
  ASSUME Inv, NEW c \in Callers, Miss(c)
  PROVE  Inv'
<1> USE StoreAssumption, NotRefs DEF Inv, Miss, lockVars, callVars, copyVars
<1>1. TypeOK'
  BY DEF TypeOK, CallOK, CopyOK, Copying
<1>2. Isolated'
  BY DEF TypeOK, CallOK, CopyOK, Isolated, Apart
<1>3. LockOK'
  BY DEF TypeOK, LockOK, Copying
<1>4. \A e \in Callers : CallOK(e)' /\ CopyOK(e)'
  BY DEF TypeOK, LockOK, CallOK, CopyOK, Copying
<1> QED
  BY <1>1, <1>2, <1>3, <1>4

\* Len counts.
LEMMA LenInv ==
  ASSUME Inv, NEW c \in Callers, Len(c)
  PROVE  Inv'
<1> USE StoreAssumption, NotRefs DEF Inv, Len, lockVars, callVars, copyVars
<1>f. Cardinality({k \in Keys : store[k] # NoEntry}) \in Nat
  BY FS_Subset, FS_CardinalityType
<1>1. TypeOK'
  BY <1>f DEF TypeOK, CallOK, CopyOK, Copying
<1>2. Isolated'
  BY DEF TypeOK, CallOK, CopyOK, Isolated, Apart
<1>3. LockOK'
  BY DEF TypeOK, LockOK, Copying
<1>4. \A e \in Callers : CallOK(e)' /\ CopyOK(e)'
  BY DEF TypeOK, LockOK, CallOK, CopyOK, Copying
<1> QED
  BY <1>1, <1>2, <1>3, <1>4

\* A reader leaves.
LEMMA RUnlockInv ==
  ASSUME Inv, NEW c \in Callers, RUnlock(c)
  PROVE  Inv'
<1> USE StoreAssumption, NotRefs DEF Inv, RUnlock, lockVars, callVars, copyVars
<1>1. TypeOK'
  BY DEF TypeOK, CallOK, CopyOK, Copying
<1>2. Isolated'
  BY DEF TypeOK, CallOK, CopyOK, Isolated, Apart
<1>3. LockOK'
  BY DEF TypeOK, LockOK, Copying
<1>4. \A e \in Callers : CallOK(e)' /\ CopyOK(e)'
  BY DEF TypeOK, LockOK, CallOK, CopyOK, Copying
<1> QED
  BY <1>1, <1>2, <1>3, <1>4

\* A call without data returns.
LEMMA ReturnInv ==
  ASSUME Inv, NEW c \in Callers, Return(c)
  PROVE  Inv'
<1> USE StoreAssumption, NotRefs DEF Inv, Return, lockVars, callVars, copyVars
<1>1. TypeOK'
  BY DEF TypeOK, CallOK, CopyOK, Copying
<1>2. Isolated'
  BY DEF TypeOK, CallOK, CopyOK, Isolated, Apart
<1>3. LockOK'
  BY DEF TypeOK, LockOK, Copying
<1>4. \A e \in Callers : CallOK(e)' /\ CopyOK(e)'
  BY DEF TypeOK, LockOK, CallOK, CopyOK, Copying
<1> QED
  BY <1>1, <1>2, <1>3, <1>4

\* The caller gets the copy.
LEMMA ReturnDataInv ==
  ASSUME Inv, NEW c \in Callers, ReturnData(c)
  PROVE  Inv'
<1> USE StoreAssumption, NotRefs DEF Inv, ReturnData, lockVars, callVars, copyVars
<1>1. TypeOK'
  BY OwnGoesMemory DEF TypeOK, CallOK, CopyOK, Copying
<1>2. Isolated'
  BY ReachesNothing DEF TypeOK, CallOK, CopyOK, Isolated, Apart
<1>3. LockOK'
  BY DEF TypeOK, LockOK, Copying
<1>4. ASSUME NEW e \in Callers
      PROVE  CallOK(e)' /\ CopyOK(e)'
  <2>1. CallOK(e)'
    BY DEF TypeOK, CallOK, CopyOK, Copying
  <2>2. Kept(src[e]) /\ Kept(dst[e]) /\ (e # c => Kept(own[e]))
    BY OwnGoesMemory
  <2>3. CASE e # c
    BY <2>2, <2>3 DEF Kept, TypeOK, CallOK, CopyOK, Copying
  <2>4. CASE e = c
    BY <2>2, <2>4 DEF Kept, TypeOK, CallOK, CopyOK, Copying
  <2> QED
    BY <2>1, <2>3, <2>4
<1> QED
  BY <1>1, <1>2, <1>3, <1>4

\* Bytes of a caller's own data change.
LEMMA OwnBytesChangeInv ==
  ASSUME Inv, NEW c \in Callers, OwnBytesChange(c)
  PROVE  Inv'
<1> USE StoreAssumption, NotRefs DEF Inv, OwnBytesChange, lockVars, callVars, copyVars
<1>1. TypeOK'
  BY OwnBytesMemory DEF TypeOK, CallOK, CopyOK, Copying
<1>2. Isolated'
  BY DEF TypeOK, CallOK, CopyOK, Isolated, Apart
<1>3. LockOK'
  BY DEF TypeOK, LockOK, Copying
<1>4. ASSUME NEW e \in Callers
      PROVE  CallOK(e)' /\ CopyOK(e)'
  <2>1. CallOK(e)'
    BY DEF TypeOK, CallOK, CopyOK, Copying
  <2>2. Kept(src[e]) /\ Kept(dst[e]) /\ (e # c => Kept(own[e]))
    BY OwnBytesMemory
  <2>3. CASE e # c
    BY <2>2, <2>3 DEF Kept, TypeOK, CallOK, CopyOK, Copying
  <2>4. CASE e = c
    BY <2>2, <2>4 DEF Kept, TypeOK, CallOK, CopyOK, Copying
  <2> QED
    BY <2>1, <2>3, <2>4
<1> QED
  BY <1>1, <1>2, <1>3, <1>4

\* Every step of every caller keeps it.
LEMMA NextInv == Inv /\ [Next]_vars => Inv'
<1> SUFFICES ASSUME Inv, [Next]_vars PROVE Inv'
  OBVIOUS
<1>1. CASE UNCHANGED vars
  <2> USE <1>1 DEF vars, lockVars, callVars, copyVars, Inv
  <2>1. TypeOK'
    BY DEF TypeOK
  <2>2. Isolated'
    BY DEF Isolated
  <2>3. LockOK'
    BY DEF LockOK
  <2>4. \A e \in Callers : CallOK(e)' /\ CopyOK(e)'
    BY DEF CallOK, CopyOK
  <2> QED
    BY <2>1, <2>2, <2>3, <2>4
<1>2. CASE Next
  <2>1. PICK c \in Callers : Calls(c) \/ Acquires(c) \/ Runs(c) \/ OwnBytesChange(c)
    BY <1>2 DEF Next
  <2>2. CASE Calls(c)
    BY <2>2, CallWriteInv, CallDeleteInv, CallReadInv, CallLenInv DEF Calls
  <2>3. CASE Acquires(c)
    BY <2>3, LockInv, RLockInv DEF Acquires
  <2>4. CASE Runs(c)
    BY <2>4, CopyFieldInv, CopyEndsInv, ReadersLeftInv, AssignInv, RemoveInv, HitInv,
       MissInv, LenInv, RUnlockInv, ReturnInv, ReturnDataInv DEF Runs
  <2>5. CASE OwnBytesChange(c)
    BY <2>5, OwnBytesChangeInv
  <2> QED
    BY <2>1, <2>2, <2>3, <2>4, <2>5
<1> QED
  BY <1>1, <1>2

\* The invariant holds throughout.
LEMMA Invariance == Spec => []Inv
BY InitInv, NextInv, PTL DEF Spec

\* The variables of the store keep their types.
THEOREM TypeCorrect == Spec => []TypeOK
<1>1. Inv => TypeOK
  BY DEF Inv
<1> QED
  BY <1>1, Invariance, PTL

\* For any goroutines, keys and memory: no entry is reached from outside.
THEOREM EntriesAreIsolated == Spec => []Isolated
<1>1. Inv => Isolated
  BY DEF Inv
<1> QED
  BY <1>1, Invariance, PTL

\* For any number of readers and writers, the Go map is never accessed while
\* it is assigned.
THEOREM AccessIsExclusive == Spec => []MapAccessExclusive
<1>1. Inv => MapAccessExclusive
  BY DEF Inv, LockOK, MapAccessExclusive
<1> QED
  BY <1>1, Invariance, PTL

\* Whoever waits for the lock waits for calls that are running, and those in
\* the end wait for nobody.
THEOREM WaitingEnds == Spec => []WaitsEnd
<1>1. ASSUME Inv, NEW c \in Callers, NEW d \in WaitsFor(c)
      PROVE  /\ d \in Callers
             /\ \/ pc[d] \in {"drain", "access"} /\ pc[c] \in {"lock", "rlock"}
                \/ pc[d] \in {"raccess", "copyOut", "runlock"}
  <2>1. CASE pc[c] \in {"lock", "rlock"}
    <3>1. d = writer /\ writer # None
      BY <1>1, <2>1 DEF WaitsFor
    <3> QED
      BY <1>1, <2>1, <3>1 DEF Inv, TypeOK, LockOK
  <2>2. CASE pc[c] = "drain"
    <3>1. d \in readers
      BY <1>1, <2>2 DEF WaitsFor
    <3> QED
      BY <1>1, <3>1 DEF Inv, TypeOK, LockOK
  <2> QED
    BY <1>1, <2>1, <2>2 DEF WaitsFor
<1>2. \A c : pc[c] \in {"raccess", "copyOut", "runlock", "access"} => WaitsFor(c) = {}
  BY DEF WaitsFor
<1>3. Inv => WaitsEnd
  <2> SUFFICES ASSUME Inv, NEW c \in Callers, NEW d \in WaitsFor(c)
               PROVE  /\ pc[d] # "idle"
                      /\ \A e \in WaitsFor(d) : pc[e] # "idle" /\ WaitsFor(e) = {}
    BY DEF WaitsEnd
  <2>1. d \in Callers /\ pc[d] # "idle" /\ pc[d] \notin {"lock", "rlock"}
    BY <1>1
  <2>2. ASSUME NEW e \in WaitsFor(d) PROVE pc[e] \in {"raccess", "copyOut", "runlock"}
    BY <1>1, <2>1, <2>2
  <2> QED
    BY <1>2, <2>1, <2>2
<1> QED
  BY <1>3, Invariance, PTL

-----------------------------------------------------------------------------
(* StoreImpl implements Store. *)

\* The content of data whose buffers are kept is kept.
LEMMA KeptContent ==
  ASSUME NEW d \in Refs, Kept(d)
  PROVE  Content(d)' = [f \in Fields |-> heap[d[f]]]
BY DEF Kept, Content

\* What Store sees of a caller is kept by the steps of others.
LEMMA OthersKeep ==
  ASSUME Inv, NEW e \in Callers, pc'[e] = pc[e], op'[e] = op[e], key'[e] = key[e],
         own'[e] = own[e], src'[e] = src[e], dst'[e] = dst[e], todo'[e] = todo[e],
         count'[e] = count[e], Kept(own[e]), Kept(src[e]), Kept(dst[e])
  PROVE  callBar(e)' = callBar(e)
<1> USE StoreAssumption, NotRefs DEF Inv
<1>1. TookEffect(e)' = TookEffect(e)
  BY DEF TookEffect
<1>2. op[e] = "Write" => Content(own[e])' = Content(own[e])
  BY DEF Content, Kept, CallOK, TypeOK
<1>3. ASSUME TookEffect(e), op[e] = "Read" PROVE ReadAnswer(e)' = ReadAnswer(e)
  <2>1. CASE dst[e] = NoData
    BY <2>1 DEF ReadAnswer
  <2>2. CASE dst[e] # NoData
    <3>1. dst[e] \in Refs /\ \A f \in todo[e] : src[e] \in Refs /\ f \in Fields
      BY <1>3, <2>2 DEF TypeOK, CopyOK
    <3> QED
      BY <2>2, <3>1 DEF ReadAnswer, Kept
  <2> QED
    BY <2>1, <2>2
<1> QED
  BY <1>1, <1>2, <1>3 DEF callBar

\* The abstract entries are kept by the steps that keep the entries.
LEMMA EntriesKeep ==
  ASSUME Inv, store' = store, \A k \in Keys : Kept(store[k])
  PROVE  entriesBar' = entriesBar
BY DEF Inv, TypeOK, entriesBar, Content, Kept

\* The initial states.
LEMMA InitRefines == Init => Abstract!Init
BY StoreAssumption DEF Init, Abstract!Init, Abstract!Idle, entriesBar, callsBar, callBar, TookEffect

\* A caller that a step leaves alone.
Untouched(e) ==
    /\ pc'[e] = pc[e] /\ op'[e] = op[e] /\ key'[e] = key[e] /\ own'[e] = own[e]
    /\ src'[e] = src[e] /\ dst'[e] = dst[e] /\ todo'[e] = todo[e] /\ count'[e] = count[e]
    /\ Kept(own[e]) /\ Kept(src[e]) /\ Kept(dst[e])

\* What Store sees of a step of c.
LEMMA CallsChange ==
  ASSUME Inv, NEW c \in Callers, \A e \in Callers \ {c} : Untouched(e)
  PROVE  callsBar' = [callsBar EXCEPT ![c] = callBar(c)']
<1>1. \A e \in Callers \ {c} : callBar(e)' = callBar(e)
  BY OthersKeep DEF Untouched
<1> QED
  BY <1>1 DEF callsBar

\* A step that Store does not see.
LEMMA Stutters ==
  ASSUME Inv, NEW c \in Callers, \A e \in Callers \ {c} : Untouched(e),
         callBar(c)' = callBar(c), entriesBar' = entriesBar
  PROVE  UNCHANGED Abstract!vars
<1>1. callsBar' = callsBar
  BY CallsChange DEF callsBar
<1> QED
  BY <1>1 DEF Abstract!vars

\* Locking is not seen, nor is the end of a copy.
LEMMA LockRefines ==
  ASSUME Inv, NEW c \in Callers,
         Lock(c) \/ RLock(c) \/ ReadersLeft(c) \/ RUnlock(c) \/ CopyEnds(c)
  PROVE  UNCHANGED Abstract!vars
<1> USE DEF Inv, Lock, RLock, ReadersLeft, RUnlock, CopyEnds, lockVars, callVars, copyVars
<1>1. \A e \in Callers \ {c} : Untouched(e)
  BY DEF TypeOK, Untouched, Kept
<1>2. callBar(c)' = callBar(c)
  BY DEF TypeOK, CallOK, CopyOK, callBar, TookEffect, ReadAnswer, Content, Copying
<1>3. entriesBar' = entriesBar
  BY EntriesKeep DEF Kept
<1> QED
  BY <1>1, <1>2, <1>3, Stutters

\* The caller's answer is complete before the copy is.
LEMMA CopyFieldRefines ==
  ASSUME Inv, NEW c \in Callers, CopyField(c)
  PROVE  UNCHANGED Abstract!vars
<1> USE StoreAssumption, NotRefs DEF Inv, lockVars, callVars
<1>1. PICK f \in todo[c] :
        /\ todo' = [todo EXCEPT ![c] = @ \ {f}]
        /\ heap'[dst[c][f]] = heap[src[c][f]]
        /\ \A g \in Fields : g # f => heap'[dst[c][g]] = heap[dst[c][g]]
  BY CopyFieldMemory
<1>2. \A e \in Callers \ {c} : Untouched(e)
  BY <1>1, CopyFieldMemory DEF CopyField, TypeOK, Untouched
<1>3. callBar(c)' = callBar(c)
  <2>1. Kept(own[c]) /\ Kept(src[c])
    BY CopyFieldMemory
  <2>2. own[c] \in Refs \cup {NoData} /\ src[c] \in Refs
    BY DEF CopyField, TypeOK, CopyOK
  <2>3. op[c] = "Write" => Content(own[c])' = Content(own[c])
    BY <2>1, <2>2 DEF CopyField, Content, Kept, CallOK
  <2>4. ReadAnswer(c)' = ReadAnswer(c)
    BY <1>1, <2>1, <2>2 DEF CopyField, ReadAnswer, Kept, TypeOK
  <2> QED
    BY <2>3, <2>4 DEF CopyField, callBar, TookEffect
<1>4. entriesBar' = entriesBar
  BY CopyFieldMemory, EntriesKeep DEF CopyField
<1> QED
  BY <1>2, <1>3, <1>4, Stutters

\* Nobody sees a caller change its own bytes.
LEMMA OwnBytesRefines ==
  ASSUME Inv, NEW c \in Callers, OwnBytesChange(c)
  PROVE  UNCHANGED Abstract!vars
<1> USE DEF Inv, OwnBytesChange, lockVars, callVars, copyVars
<1>1. \A e \in Callers \ {c} : Untouched(e)
  BY OwnBytesMemory DEF Untouched
<1>2. callBar(c)' = callBar(c)
  BY StoreAssumption DEF CallOK, callBar, TookEffect
<1>3. entriesBar' = entriesBar
  BY OwnBytesMemory, EntriesKeep
<1> QED
  BY <1>1, <1>2, <1>3, Stutters

\* A call starts.
LEMMA CallRefines ==
  ASSUME Inv, NEW c \in Callers, Calls(c)
  PROVE  Abstract!Next
<1> USE StoreAssumption, NotRefs DEF Inv, lockVars, callVars, copyVars
<1>1. \A e \in Callers \ {c} : Untouched(e)
  BY DEF Calls, CallWrite, CallDelete, CallRead, CallLen, Call, CopyStarts, TypeOK, Untouched, Kept
<1>2. callsBar' = [callsBar EXCEPT ![c] = callBar(c)']
  BY <1>1, CallsChange
<1>3. entriesBar' = entriesBar
  BY EntriesKeep DEF Calls, CallWrite, CallDelete, CallRead, CallLen, Kept
<1>4. pc[c] = "idle"
  BY DEF Calls, CallWrite, CallDelete, CallRead, CallLen, Call
<1>5. callsBar[c] = Abstract!Idle
  BY <1>4 DEF callsBar, callBar, Abstract!Idle, CallOK, TookEffect
<1>6. CASE c \in Writers /\ CallWrite(c)
  <2>1. PICK k \in Keys : Call(c, "Write", k)
    BY <1>6 DEF CallWrite
  <2>2. Content(own[c]) \in [Fields -> Contents]
    BY <1>6, ReachesFields DEF Content, CallOK, TypeOK
  <2>3. callBar(c)' = Abstract!Called("Write", k, Content(own[c]))
    BY <1>6, <2>1 DEF CallWrite, Call, CopyStarts, TypeOK, callBar, TookEffect, Content, Abstract!Called
  <2> QED
    BY <1>2, <1>3, <1>5, <2>2, <2>3 DEF Abstract!Next, Abstract!Invoke
<1>7. CASE CallDelete(c) \/ CallRead(c)
  <2>1. PICK k \in Keys, name \in {"Read", "Delete"} : Call(c, name, k)
    BY <1>7 DEF CallDelete, CallRead
  <2>2. callBar(c)' = Abstract!Called(name, k, None)
    BY <1>7, <2>1 DEF CallDelete, CallRead, Call, TypeOK, callBar, TookEffect, Abstract!Called
  <2> QED
    BY <1>2, <1>3, <1>5, <2>2 DEF Abstract!Next, Abstract!Invoke
<1>8. CASE CallLen(c)
  <2>1. callBar(c)' = Abstract!Called("Len", None, None)
    BY <1>8 DEF CallLen, Call, TypeOK, callBar, TookEffect, Abstract!Called
  <2> QED
    BY <1>2, <1>3, <1>5, <2>1 DEF Abstract!Next, Abstract!Invoke
<1> QED
  BY <1>6, <1>7, <1>8 DEF Calls

Progress(c, status, x) ==
    [status |-> status, op |-> op[c], key |-> key[c],
     data |-> IF op[c] = "Write" THEN Content(own[c]) ELSE None, answer |-> x]

\* A call takes effect.
LEMMA Performs ==
  ASSUME Inv, NEW c \in Callers, NEW x, \A e \in Callers \ {c} : Untouched(e),
         callBar(c) = Progress(c, "called", None), callBar(c)' = Progress(c, "done", x)
  PROVE  /\ callsBar' = [callsBar EXCEPT ![c] =
                         [status |-> "done", op |-> @.op, key |-> @.key, data |-> @.data, answer |-> x]]
         /\ callsBar[c].status = "called" /\ callsBar[c].op = op[c] /\ callsBar[c].key = key[c]
         /\ op[c] = "Write" => callsBar[c].data = Content(own[c])
<1>1. callsBar' = [callsBar EXCEPT ![c] = callBar(c)']
  BY CallsChange
<1>2. callsBar[c] = Progress(c, "called", None)
  BY DEF callsBar
<1> QED
  BY <1>1, <1>2 DEF Progress

\* Before a call takes effect Store knows its arguments.
LEMMA Awaits ==
  ASSUME Inv, NEW c \in Callers, pc[c] # "idle", ~TookEffect(c)
  PROVE  callBar(c) = Progress(c, "called", None)
BY DEF callBar, Progress

\* Read finds the key: from here on the answer is fixed.
LEMMA HitRefines ==
  ASSUME Inv, NEW c \in Callers, Hit(c)
  PROVE  Abstract!Next
<1> USE StoreAssumption, NotRefs DEF Inv, Hit, lockVars, callVars
<1>1. PICK d \in Fresh : dst' = [dst EXCEPT ![c] = d]
  BY DEF CopyStarts
<1>2. d \in Refs
  BY FreshIsApart
<1>3. /\ src' = [src EXCEPT ![c] = store[key[c]]]
      /\ todo' = [todo EXCEPT ![c] = Fields]
      /\ pc' = [pc EXCEPT ![c] = "copyOut"]
  BY DEF CopyStarts
<1>4. \A e \in Callers \ {c} : Untouched(e)
  BY <1>1, <1>3 DEF TypeOK, Untouched, Kept
<1>6. entriesBar' = entriesBar
  BY EntriesKeep DEF Kept
<1>7. key[c] \in Keys
  BY DEF CallOK
<1>8. entriesBar[key[c]] = Content(store[key[c]])
  BY <1>7 DEF entriesBar
<1>9. PICK x : x = entriesBar[key[c]]
  OBVIOUS
<1>10. callBar(c)' = Progress(c, "done", x)
  BY <1>1, <1>2, <1>3, <1>8, <1>9 DEF TypeOK, callBar, TookEffect, ReadAnswer, Content, Progress
<1>11. /\ callsBar' = [callsBar EXCEPT ![c] =
                         [status |-> "done", op |-> @.op, key |-> @.key, data |-> @.data, answer |-> x]]
       /\ callsBar[c].status = "called" /\ callsBar[c].op = op[c] /\ callsBar[c].key = key[c]
  BY <1>4, <1>10, Awaits, Performs DEF TookEffect
<1> QED
  BY <1>6, <1>9, <1>11 DEF Abstract!Next, Abstract!Perform, Abstract!Answer

\* Read finds nothing.
LEMMA MissRefines ==
  ASSUME Inv, NEW c \in Callers, Miss(c)
  PROVE  Abstract!Next
<1> USE StoreAssumption, NotRefs DEF Inv, Miss, lockVars, callVars, copyVars
<1>1. \A e \in Callers \ {c} : Untouched(e)
  BY DEF TypeOK, Untouched, Kept
<1>3. entriesBar' = entriesBar
  BY EntriesKeep DEF Kept
<1>4. entriesBar[key[c]] = NoEntry
  BY DEF CallOK, entriesBar
<1>5. callBar(c)' = Progress(c, "done", NoEntry)
  BY DEF TypeOK, CopyOK, callBar, TookEffect, ReadAnswer, Progress, Content
<1>6. /\ callsBar' = [callsBar EXCEPT ![c] =
                         [status |-> "done", op |-> @.op, key |-> @.key, data |-> @.data, answer |-> NoEntry]]
      /\ callsBar[c].status = "called" /\ callsBar[c].op = op[c] /\ callsBar[c].key = key[c]
      /\ op[c] = "Write" => callsBar[c].data = Content(own[c])
  BY <1>1, <1>5, Awaits, Performs DEF TookEffect
<1> QED
  BY <1>3, <1>4, <1>6 DEF Abstract!Next, Abstract!Perform, Abstract!Answer

\* Len counts.
LEMMA LenRefines ==
  ASSUME Inv, NEW c \in Callers, Len(c)
  PROVE  Abstract!Next
<1> USE StoreAssumption, NotRefs DEF Inv, Len, lockVars, callVars, copyVars
<1> DEFINE n == Cardinality({k \in Keys : store[k] # NoEntry})
<1>1. \A e \in Callers \ {c} : Untouched(e)
  BY DEF TypeOK, Untouched, Kept
<1>3. entriesBar' = entriesBar
  BY EntriesKeep DEF Kept
<1>4. \A k \in Keys : entriesBar[k] # NoEntry <=> store[k] # NoEntry
  <2>1. \A k \in Keys : store[k] # NoEntry => Content(store[k]) \in [Fields -> Contents]
    BY ReachesFields DEF Content, TypeOK
  <2> QED
    BY <2>1 DEF entriesBar
<1>5. n = Abstract!Cardinality({k \in Keys : entriesBar[k] # NoEntry})
  <2>1. {k \in Keys : store[k] # NoEntry} = {k \in Keys : entriesBar[k] # NoEntry}
    BY <1>4
  <2> QED
    BY <2>1 DEF Cardinality, Abstract!Cardinality
<1>6. callBar(c)' = Progress(c, "done", n)
  BY DEF TypeOK, callBar, TookEffect, Progress, Content
<1>7. /\ callsBar' = [callsBar EXCEPT ![c] =
                         [status |-> "done", op |-> @.op, key |-> @.key, data |-> @.data, answer |-> n]]
      /\ callsBar[c].status = "called" /\ callsBar[c].op = op[c] /\ callsBar[c].key = key[c]
      /\ op[c] = "Write" => callsBar[c].data = Content(own[c])
  BY <1>1, <1>6, Awaits, Performs DEF TookEffect
<1> QED
  BY <1>3, <1>5, <1>7 DEF Abstract!Next, Abstract!Perform, Abstract!Answer

\* Write takes effect: what becomes the entry is what the caller passed.
LEMMA AssignRefines ==
  ASSUME Inv, NEW c \in Callers, Assign(c)
  PROVE  Abstract!Next
<1> USE StoreAssumption, NotRefs DEF Inv, Assign, lockVars, callVars
<1>1. key[c] \in Keys /\ own[c] \in Refs /\ dst[c] \in Refs
  BY DEF CallOK, CopyOK, TypeOK
<1>2. /\ \A e \in Callers : Kept(own[e]) /\ Kept(src[e]) /\ Kept(dst[e])
      /\ \A k \in Keys : k # key[c] => Kept(store[k])
  BY <1>1, EntryGoesMemory
<1>3. \A e \in Callers \ {c} : Untouched(e)
  BY <1>2 DEF TypeOK, Untouched
<1>5. callBar(c)' = Progress(c, "done", None)
  BY <1>1, <1>2 DEF TypeOK, callBar, TookEffect, Content, Kept, Progress
<1>6. /\ callsBar' = [callsBar EXCEPT ![c] =
                         [status |-> "done", op |-> @.op, key |-> @.key, data |-> @.data, answer |-> None]]
      /\ callsBar[c].status = "called" /\ callsBar[c].op = op[c] /\ callsBar[c].key = key[c]
      /\ op[c] = "Write" => callsBar[c].data = Content(own[c])
  BY <1>3, <1>5, Awaits, Performs DEF TookEffect
<1>8. entriesBar' = [entriesBar EXCEPT ![key[c]] = Content(own[c])]
  <2>1. \A k \in Keys : k # key[c] => entriesBar'[k] = entriesBar[k]
    BY <1>1, <1>2 DEF entriesBar, Content, Kept, TypeOK
  <2>2. entriesBar'[key[c]] = Content(own[c])
    BY <1>1, <1>2 DEF CopyOK, entriesBar, Content, Kept, TypeOK
  <2> QED
    BY <1>1, <2>1, <2>2 DEF entriesBar
<1> QED
  BY <1>6, <1>8 DEF Abstract!Next, Abstract!Perform, Abstract!Answer

\* Delete takes effect.
LEMMA RemoveRefines ==
  ASSUME Inv, NEW c \in Callers, Remove(c)
  PROVE  Abstract!Next
<1> USE StoreAssumption, NotRefs DEF Inv, Remove, lockVars, callVars, copyVars
<1>1. key[c] \in Keys
  BY DEF CallOK
<1>2. /\ \A e \in Callers : Kept(own[e]) /\ Kept(src[e]) /\ Kept(dst[e])
      /\ \A k \in Keys : k # key[c] => Kept(store[k])
  BY <1>1, EntryGoesMemory
<1>3. \A e \in Callers \ {c} : Untouched(e)
  BY <1>2 DEF TypeOK, Untouched
<1>5. callBar(c)' = Progress(c, "done", None)
  BY DEF TypeOK, callBar, TookEffect, Progress, Content
<1>6. /\ callsBar' = [callsBar EXCEPT ![c] =
                         [status |-> "done", op |-> @.op, key |-> @.key, data |-> @.data, answer |-> None]]
      /\ callsBar[c].status = "called" /\ callsBar[c].op = op[c] /\ callsBar[c].key = key[c]
      /\ op[c] = "Write" => callsBar[c].data = Content(own[c])
  BY <1>3, <1>5, Awaits, Performs DEF TookEffect
<1>7. entriesBar' = [entriesBar EXCEPT ![key[c]] = NoEntry]
  <2>1. \A k \in Keys : k # key[c] => entriesBar'[k] = entriesBar[k]
    BY <1>1, <1>2 DEF entriesBar, Content, Kept, TypeOK
  <2>2. entriesBar'[key[c]] = NoEntry
    BY <1>1 DEF entriesBar, TypeOK
  <2> QED
    BY <1>1, <2>1, <2>2 DEF entriesBar
<1> QED
  BY <1>6, <1>7 DEF Abstract!Next, Abstract!Perform, Abstract!Answer

\* A call returns.
LEMMA ReturnRefines ==
  ASSUME Inv, NEW c \in Callers, Return(c) \/ ReturnData(c)
  PROVE  Abstract!Next
<1> USE StoreAssumption, NotRefs DEF Inv, lockVars, callVars, copyVars
<1>1. \A e \in Callers \ {c} : Untouched(e)
  BY OwnGoesMemory DEF Return, ReturnData, TypeOK, Untouched, Kept
<1>2. callsBar' = [callsBar EXCEPT ![c] = callBar(c)']
  BY <1>1, CallsChange
<1>3. entriesBar' = entriesBar
  <2>1. store' = store /\ \A k \in Keys : Kept(store[k])
    BY OwnGoesMemory DEF Return, ReturnData, Kept
  <2> QED
    BY <2>1, EntriesKeep
<1>4. callBar(c)' = Abstract!Idle
  BY DEF Return, ReturnData, TypeOK, callBar, TookEffect, Abstract!Idle
<1>5. callsBar[c].status = "done"
  BY DEF Return, ReturnData, callsBar, callBar, TookEffect
<1> QED
  BY <1>2, <1>3, <1>4, <1>5 DEF Abstract!Next, Abstract!Return

\* Every step is one of Store, or one that Store does not see.
LEMMA NextRefines == Inv /\ [Next]_vars => [Abstract!Next]_(Abstract!vars)
<1> SUFFICES ASSUME Inv, [Next]_vars PROVE Abstract!Next \/ UNCHANGED Abstract!vars
  OBVIOUS
<1>1. CASE UNCHANGED vars
  BY <1>1 DEF vars, lockVars, callVars, copyVars, Abstract!vars, entriesBar, callsBar, callBar,
     TookEffect, ReadAnswer, Content
<1>2. CASE Next
  <2>1. PICK c \in Callers : Calls(c) \/ Acquires(c) \/ Runs(c) \/ OwnBytesChange(c)
    BY <1>2 DEF Next
  <2>2. CASE Calls(c)
    BY <2>2, CallRefines
  <2>3. CASE Acquires(c)
    BY <2>3, LockRefines DEF Acquires
  <2>4. CASE Runs(c)
    BY <2>4, CopyFieldRefines, LockRefines, AssignRefines, RemoveRefines, HitRefines,
       MissRefines, LenRefines, ReturnRefines DEF Runs
  <2>5. CASE OwnBytesChange(c)
    BY <2>5, OwnBytesRefines
  <2> QED
    BY <2>1, <2>2, <2>3, <2>4, <2>5
<1> QED
  BY <1>1, <1>2

\* For any goroutines, keys and data, the locked map of references to memory
\* is for its callers an atomic map of values.
THEOREM ImplementsAtomicMap == Spec => IsAtomicMap
<1> QED
  BY InitRefines, NextRefines, Invariance, PTL DEF Spec, IsAtomicMap, Abstract!Spec
=============================================================================
