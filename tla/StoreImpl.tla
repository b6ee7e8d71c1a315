------------------------------ MODULE StoreImpl -------------------------------
(***************************************************************************)
(* internal/store: a Go map behind a sync.RWMutex whose values hold byte   *)
(* slices.  A slice is a reference to a buffer, so that data is copied     *)
(* into buffers of its own when it goes in and when it comes out.  What a  *)
(* caller passed to Write or got from Read stays in its hands, and it may  *)
(* change those bytes whenever it is not inside a call.                    *)
(*                                                                         *)
(*  heap     the content of each buffer                                    *)
(*  store    the Go map: one buffer per field of Data, or NoEntry          *)
(*  writer   the caller that locked the mutex, it may still wait for the   *)
(*           readers to leave; None if there is none                       *)
(*  readers  the callers that hold the read lock                           *)
(*  pc, op, key   the running call of each caller                          *)
(*  own      the data in the hands of each caller                          *)
(*  src, dst the data the running copyFunc reads, and its result; NoData   *)
(*           when there is none                                            *)
(*  todo     the fields the running copyFunc has not copied yet            *)
(*  count    what Len read                                                 *)
(***************************************************************************)
EXTENDS Naturals, FiniteSets

CONSTANTS
    Writers,   \* goroutines that call Write and Delete: the reconcilers
    Readers,   \* goroutines that call Read and Len: the HTTP handlers
    Keys,      \* keys of the map
    Fields,    \* the byte slices of Data: Config and JWKS, or CABundle
    Contents,  \* contents a byte slice may have
    Buffers,   \* the memory, enough that it is never exhausted
    Zero,      \* the content of memory nobody wrote
    FirstOwn,  \* the data each caller starts with
    NoEntry,   \* the map has no value for a key
    NoData,    \* a variable of type Data that is not in use
    None       \* no caller, no answer

VARIABLES heap, store, writer, readers, pc, op, key, own, src, dst, todo, count

Callers == Writers \cup Readers

lockVars == <<writer, readers>>
callVars == <<op, key>>
copyVars == <<src, dst, todo>>
vars == <<heap, store, lockVars, pc, callVars, own, copyVars, count>>

\* A value of type Data: one buffer per field, no two of them the same.
Refs == {d \in [Fields -> Buffers] : \A f, g \in Fields : d[f] = d[g] => f = g}

BuffersOf(d) == IF d \in Refs THEN {d[f] : f \in Fields} ELSE {}

ASSUME StoreAssumption ==
    /\ IsFiniteSet(Keys)
    /\ Fields # {}
    /\ NoEntry \notin [Fields -> Buffers]
    /\ NoEntry \notin [Fields -> Contents]
    /\ NoData \notin [Fields -> Buffers]
    /\ None \notin Callers \cup Keys \cup {"Write", "Delete", "Read", "Len"}
    /\ Zero \in Contents
    /\ FirstOwn \in [Callers -> Refs \cup {NoData}]
    /\ \A c \in Writers : FirstOwn[c] # NoData
    /\ \A c, d \in Callers : c # d => BuffersOf(FirstOwn[c]) \cap BuffersOf(FirstOwn[d]) = {}

Copying == {"copyIn", "copyOut"}

TypeOK ==
    /\ heap \in [Buffers -> Contents]
    /\ store \in [Keys -> Refs \cup {NoEntry}]
    /\ writer \in Callers \cup {None}
    /\ readers \subseteq Callers
    /\ pc \in [Callers -> {"idle", "lock", "drain", "access", "rlock", "raccess",
                           "runlock", "return"} \cup Copying]
    /\ op \in [Callers -> {"Write", "Delete", "Read", "Len", None}]
    /\ key \in [Callers -> Keys \cup {None}]
    /\ own \in [Callers -> Refs \cup {NoData}]
    /\ src \in [Callers -> Refs \cup {NoData}]
    /\ dst \in [Callers -> Refs \cup {NoData}]
    /\ todo \in [Callers -> SUBSET Fields]
    /\ count \in [Callers -> Nat]

-----------------------------------------------------------------------------
(* Memory. *)

\* What the garbage collector keeps.
Reachable ==
    UNION ({BuffersOf(store[k]) : k \in Keys}
           \cup {BuffersOf(own[c]) \cup BuffersOf(src[c]) \cup BuffersOf(dst[c]) : c \in Callers})

Fresh == LET free == Buffers \ Reachable IN {d \in Refs : \A f \in Fields : d[f] \in free}

\* What nobody refers to any more is taken back.
Free(d) == heap' = [b \in Buffers |-> IF b \in BuffersOf(d) THEN Zero ELSE heap[b]]

\* Faulty variant: copyFunc returns what it was given.
CopyAliases(c, data, step) ==
    /\ src' = [src EXCEPT ![c] = data]
    /\ dst' = [dst EXCEPT ![c] = data]
    /\ todo' = [todo EXCEPT ![c] = {}]
    /\ pc' = [pc EXCEPT ![c] = step]

\* Faulty variant: copyFunc forgets to clone one of the slices.
CopyForgetsOneField(c, data, step) ==
    /\ Fresh # {}
    /\ src' = [src EXCEPT ![c] = data]
    /\ \E f \in Fields :
         /\ dst' = [dst EXCEPT ![c] = [(CHOOSE d \in Fresh : TRUE) EXCEPT ![f] = data[f]]]
         /\ todo' = [todo EXCEPT ![c] = Fields \ {f}]
    /\ pc' = [pc EXCEPT ![c] = step]

\* copyFunc allocates the buffers of its result; it then copies one field
\* after the other.
CopyStarts(c, data, step) ==
    /\ Fresh # {}
    /\ src' = [src EXCEPT ![c] = data]
    /\ dst' = [dst EXCEPT ![c] = CHOOSE d \in Fresh : TRUE]
    /\ todo' = [todo EXCEPT ![c] = Fields]
    /\ pc' = [pc EXCEPT ![c] = step]

CopyField(c) ==
    /\ pc[c] \in Copying
    /\ \E f \in todo[c] :
         /\ heap' = [heap EXCEPT ![dst[c][f]] = heap[src[c][f]]]
         /\ todo' = [todo EXCEPT ![c] = @ \ {f}]
    /\ UNCHANGED <<store, lockVars, pc, callVars, own, src, dst, count>>

\* copyFunc returns: Write locks the mutex next, Read unlocks it.
CopyEnds(c) ==
    /\ pc[c] \in Copying
    /\ todo[c] = {}
    /\ src' = [src EXCEPT ![c] = NoData]
    /\ pc' = [pc EXCEPT ![c] = IF @ = "copyIn" THEN "lock" ELSE "runlock"]
    /\ UNCHANGED <<heap, store, lockVars, callVars, own, dst, todo, count>>

-----------------------------------------------------------------------------
(* The calls. *)

Call(c, name, k) ==
    /\ pc[c] = "idle"
    /\ op' = [op EXCEPT ![c] = name]
    /\ key' = [key EXCEPT ![c] = k]

CallWrite(c) ==
    /\ \E k \in Keys : Call(c, "Write", k)
    /\ CopyStarts(c, own[c], "copyIn")
    /\ UNCHANGED <<heap, store, lockVars, own, count>>

CallDelete(c) ==
    /\ \E k \in Keys : Call(c, "Delete", k)
    /\ pc' = [pc EXCEPT ![c] = "lock"]
    /\ UNCHANGED <<heap, store, lockVars, own, copyVars, count>>

CallRead(c) ==
    /\ \E k \in Keys : Call(c, "Read", k)
    /\ pc' = [pc EXCEPT ![c] = "rlock"]
    /\ UNCHANGED <<heap, store, lockVars, own, copyVars, count>>

CallLen(c) ==
    /\ Call(c, "Len", None)
    /\ pc' = [pc EXCEPT ![c] = "rlock"]
    /\ UNCHANGED <<heap, store, lockVars, own, copyVars, count>>

\* RWMutex.Lock: no reader gets the lock any more, ...
Lock(c) ==
    /\ pc[c] = "lock"
    /\ writer = None
    /\ writer' = c
    /\ pc' = [pc EXCEPT ![c] = "drain"]
    /\ UNCHANGED <<heap, store, readers, callVars, own, copyVars, count>>

\* Faulty variant: the readers are not waited for.
LockIgnoresReaders(c) ==
    /\ pc[c] = "drain"
    /\ pc' = [pc EXCEPT ![c] = "access"]
    /\ UNCHANGED <<heap, store, lockVars, callVars, own, copyVars, count>>

\* Faulty variant: the lock is polled for instead of waited for.
LockPolls(c) ==
    /\ pc[c] = "drain"
    /\ \/ readers = {} /\ pc' = [pc EXCEPT ![c] = "access"] /\ UNCHANGED writer
       \/ readers # {} /\ pc' = [pc EXCEPT ![c] = "lock"] /\ writer' = None
    /\ UNCHANGED <<heap, store, readers, callVars, own, copyVars, count>>

\* ... and those that have it are waited for.
ReadersLeft(c) ==
    /\ pc[c] = "drain"
    /\ readers = {}
    /\ pc' = [pc EXCEPT ![c] = "access"]
    /\ UNCHANGED <<heap, store, lockVars, callVars, own, copyVars, count>>

Assign(c) ==
    /\ pc[c] = "access"
    /\ op[c] = "Write"
    /\ store' = [store EXCEPT ![key[c]] = dst[c]]
    /\ Free(store[key[c]])
    /\ dst' = [dst EXCEPT ![c] = NoData]
    /\ writer' = None
    /\ pc' = [pc EXCEPT ![c] = "return"]
    /\ UNCHANGED <<readers, callVars, own, src, todo, count>>

\* Faulty variant: the key stays, with a zero value.
RemoveKeepsKey(c) ==
    /\ pc[c] = "access"
    /\ op[c] = "Delete"
    /\ store' = [store EXCEPT ![key[c]] = NoData]
    /\ writer' = None
    /\ pc' = [pc EXCEPT ![c] = "return"]
    /\ UNCHANGED <<heap, readers, callVars, own, copyVars, count>>

Remove(c) ==
    /\ pc[c] = "access"
    /\ op[c] = "Delete"
    /\ store' = [store EXCEPT ![key[c]] = NoEntry]
    /\ Free(store[key[c]])
    /\ writer' = None
    /\ pc' = [pc EXCEPT ![c] = "return"]
    /\ UNCHANGED <<readers, callVars, own, copyVars, count>>

RLock(c) ==
    /\ pc[c] = "rlock"
    /\ writer = None
    /\ readers' = readers \cup {c}
    /\ pc' = [pc EXCEPT ![c] = "raccess"]
    /\ UNCHANGED <<heap, store, writer, callVars, own, copyVars, count>>

Hit(c) ==
    /\ pc[c] = "raccess"
    /\ op[c] = "Read"
    /\ store[key[c]] # NoEntry
    /\ CopyStarts(c, store[key[c]], "copyOut")
    /\ UNCHANGED <<heap, store, lockVars, callVars, own, count>>

\* Faulty variant: Read returns without unlocking if it finds nothing.
MissKeepsLock(c) ==
    /\ pc[c] = "raccess"
    /\ op[c] = "Read"
    /\ store[key[c]] = NoEntry
    /\ pc' = [pc EXCEPT ![c] = "return"]
    /\ UNCHANGED <<heap, store, lockVars, callVars, own, copyVars, count>>

Miss(c) ==
    /\ pc[c] = "raccess"
    /\ op[c] = "Read"
    /\ store[key[c]] = NoEntry
    /\ pc' = [pc EXCEPT ![c] = "runlock"]
    /\ UNCHANGED <<heap, store, lockVars, callVars, own, copyVars, count>>

Len(c) ==
    /\ pc[c] = "raccess"
    /\ op[c] = "Len"
    /\ count' = [count EXCEPT ![c] = Cardinality({k \in Keys : store[k] # NoEntry})]
    /\ pc' = [pc EXCEPT ![c] = "runlock"]
    /\ UNCHANGED <<heap, store, lockVars, callVars, own, copyVars>>

RUnlock(c) ==
    /\ pc[c] = "runlock"
    /\ readers' = readers \ {c}
    /\ pc' = [pc EXCEPT ![c] = "return"]
    /\ UNCHANGED <<heap, store, writer, callVars, own, copyVars, count>>

\* Write and Delete return, and Read that found nothing and Len.
Return(c) ==
    /\ pc[c] = "return"
    /\ dst[c] = NoData
    /\ pc' = [pc EXCEPT ![c] = "idle"]
    /\ op' = [op EXCEPT ![c] = None]
    /\ key' = [key EXCEPT ![c] = None]
    /\ count' = [count EXCEPT ![c] = 0]
    /\ UNCHANGED <<heap, store, lockVars, own, copyVars>>

\* Read returns a copy, which takes the place of what the caller had before.
ReturnData(c) ==
    /\ pc[c] = "return"
    /\ dst[c] # NoData
    /\ pc' = [pc EXCEPT ![c] = "idle"]
    /\ op' = [op EXCEPT ![c] = None]
    /\ key' = [key EXCEPT ![c] = None]
    /\ own' = [own EXCEPT ![c] = dst[c]]
    /\ Free(own[c])
    /\ dst' = [dst EXCEPT ![c] = NoData]
    /\ UNCHANGED <<store, lockVars, src, todo, count>>

\* A caller changes bytes of the data in its hands.
OwnBytesChange(c) ==
    /\ pc[c] = "idle"
    /\ own[c] # NoData
    /\ \E f \in Fields : \E x \in Contents : heap' = [heap EXCEPT ![own[c][f]] = x]
    /\ UNCHANGED <<store, lockVars, pc, callVars, own, copyVars, count>>

-----------------------------------------------------------------------------
Init ==
    /\ heap = [b \in Buffers |-> Zero]
    /\ own = FirstOwn
    /\ store = [k \in Keys |-> NoEntry]
    /\ writer = None
    /\ readers = {}
    /\ pc = [c \in Callers |-> "idle"]
    /\ op = [c \in Callers |-> None]
    /\ key = [c \in Callers |-> None]
    /\ src = [c \in Callers |-> NoData]
    /\ dst = [c \in Callers |-> NoData]
    /\ todo = [c \in Callers |-> {}]
    /\ count = [c \in Callers |-> 0]

Calls(c) ==
    \/ c \in Writers /\ (CallWrite(c) \/ CallDelete(c))
    \/ c \in Readers /\ (CallRead(c) \/ CallLen(c))

Acquires(c) == Lock(c) \/ RLock(c)

Runs(c) ==
    \/ CopyField(c) \/ CopyEnds(c)
    \/ ReadersLeft(c) \/ Assign(c) \/ Remove(c)
    \/ Hit(c) \/ Miss(c) \/ Len(c) \/ RUnlock(c)
    \/ Return(c) \/ ReturnData(c)

Next == \E c \in Callers : Calls(c) \/ Acquires(c) \/ Runs(c) \/ OwnBytesChange(c)

Spec == Init /\ [][Next]_vars

\* A goroutine inside a call runs.  The mutex is handed to those who wait:
\* to the readers when a writer leaves, to a writer when it waited longest.
FairSpec ==
    /\ Spec
    /\ \A c \in Callers : WF_vars(Runs(c)) /\ SF_vars(Acquires(c))

-----------------------------------------------------------------------------
(* Properties. *)

\* The content of the map, and what each caller is doing, as Store has them:
\* a call takes effect when the map is read or assigned under the lock.
Content(d) == [f \in Fields |-> heap[d[f]]]

entriesBar == [k \in Keys |-> IF store[k] = NoEntry THEN NoEntry ELSE Content(store[k])]

TookEffect(c) == pc[c] \in {"copyOut", "runlock", "return"}

\* What Read is going to return: a field that is not copied yet will be
\* what it is now.
ReadAnswer(c) ==
    IF dst[c] = NoData THEN NoEntry
    ELSE [f \in Fields |-> IF f \in todo[c] THEN heap[src[c][f]] ELSE heap[dst[c][f]]]

callBar(c) ==
    [status |-> IF pc[c] = "idle" THEN "idle" ELSE IF TookEffect(c) THEN "done" ELSE "called",
     op |-> op[c],
     key |-> key[c],
     data |-> IF op[c] = "Write" THEN Content(own[c]) ELSE None,
     answer |-> IF ~TookEffect(c) THEN None
                ELSE CASE op[c] = "Read" -> ReadAnswer(c)
                       [] op[c] = "Len" -> count[c]
                       [] OTHER -> None]

callsBar == [c \in Callers |-> callBar(c)]

Abstract == INSTANCE Store WITH
    Data <- [Fields -> Contents], entries <- entriesBar, calls <- callsBar

\* For its callers the store is an atomic map of values.  Read copies under
\* the lock and Write before it, and between the two nobody may change the
\* bytes of an entry although both sides keep what they passed or got.
IsAtomicMap == Abstract!Spec

Apart(d, e) == BuffersOf(d) \cap BuffersOf(e) = {}

\* No buffer is reached from two places: not from two entries, not from an
\* entry and a caller, not from two callers.  So nobody changes an entry but
\* Write, whatever the callers do with the slices they passed or got.
Isolated ==
    /\ \A k, l \in Keys : k # l => Apart(store[k], store[l])
    /\ \A c, d \in Callers :
         /\ c # d => Apart(own[c], own[d]) /\ Apart(dst[c], dst[d])
         /\ Apart(own[c], dst[d])
    /\ \A c \in Callers : \A k \in Keys : Apart(own[c], store[k]) /\ Apart(dst[c], store[k])

\* The Go map is not read or assigned while it is assigned: the runtime would
\* end the process.
MapAccessExclusive ==
    \A c, d \in Callers : pc[c] = "access" /\ d # c => pc[d] \notin {"access", "raccess"}

\* The calls that must go on before that of c can.
WaitsFor(c) ==
    CASE pc[c] \in {"lock", "rlock"} -> {writer} \ {None}
      [] pc[c] = "drain" -> readers
      [] OTHER -> {}

\* Nobody waits for a call that is over, nor in a circle: a call waits for a
\* writer, which waits for readers, which wait for nobody.  So all calls can
\* return, of however many goroutines.
WaitsEnd ==
    \A c \in Callers : \A d \in WaitsFor(c) :
        /\ pc[d] # "idle"
        /\ \A e \in WaitsFor(d) : pc[e] # "idle" /\ WaitsFor(e) = {}

\* Every call returns, on every path of it: the lock is released.
CallsReturn == \A c \in Callers : pc[c] # "idle" ~> pc[c] = "idle"

-----------------------------------------------------------------------------
(* The inductive invariant: where a call may be, what it holds there.      *)

CallOK(c) ==
    /\ op[c] = None <=> pc[c] = "idle"
    /\ op[c] = "Write" => c \in Writers /\ pc[c] \in {"copyIn", "lock", "drain", "access", "return"}
    /\ op[c] = "Delete" => pc[c] \in {"lock", "drain", "access", "return"}
    /\ op[c] = "Read" => pc[c] \in {"rlock", "raccess", "copyOut", "runlock", "return"}
    /\ op[c] = "Len" => pc[c] \in {"rlock", "raccess", "runlock", "return"}
    /\ IF op[c] \in {"Write", "Delete", "Read"} THEN key[c] \in Keys ELSE key[c] = None
    /\ count[c] # 0 => op[c] = "Len" /\ pc[c] \in {"runlock", "return"}
    /\ c \in Writers => own[c] # NoData

\* What a copy reads, and that it has copied the fields it is done with.
CopyOK(c) ==
    /\ src[c] = IF pc[c] = "copyIn" THEN own[c]
                ELSE IF pc[c] = "copyOut" THEN store[key[c]] ELSE NoData
    /\ pc[c] \in Copying => src[c] # NoData
    /\ pc[c] \notin Copying => todo[c] = {}
    /\ pc[c] \in Copying => \A f \in Fields \ todo[c] : heap[dst[c][f]] = heap[src[c][f]]
    /\ IF dst[c] = NoData
       THEN pc[c] \notin Copying /\ ~(op[c] = "Write" /\ pc[c] # "return")
       ELSE \/ op[c] = "Write" /\ pc[c] # "return"
            \/ op[c] = "Read" /\ pc[c] \in {"copyOut", "runlock", "return"}
    /\ op[c] = "Write" /\ pc[c] \in {"lock", "drain", "access"} =>
         \A f \in Fields : heap[dst[c][f]] = heap[own[c][f]]

LockOK ==
    /\ writer # None => pc[writer] \in {"drain", "access"}
    /\ \A c \in Callers :
         /\ pc[c] \in {"drain", "access"} => writer = c
         /\ c \in readers <=> pc[c] \in {"raccess", "copyOut", "runlock"}
         /\ pc[c] = "access" => readers = {}

Inv ==
    /\ TypeOK
    /\ Isolated
    /\ LockOK
    /\ \A c \in Callers : CallOK(c) /\ CopyOK(c)
=============================================================================
