-------------------------------- MODULE Store ---------------------------------
(***************************************************************************)
(* What internal/store promises its callers: an atomic map.  A call is     *)
(* invoked, takes effect at one instant, and returns; data goes in and     *)
(* comes out by value.  StoreImpl has the lock and the buffers.            *)
(*                                                                         *)
(*  entries  the data of each key, NoEntry if there is none                *)
(*  calls    what each caller is doing                                     *)
(***************************************************************************)
EXTENDS FiniteSets

CONSTANTS
    Callers,   \* goroutines: reconcilers and HTTP handlers
    Keys,      \* keys of the map
    Data,      \* values of the map
    NoEntry,   \* the map has no value for a key
    None       \* an argument or an answer that a call does not have

VARIABLES entries, calls

vars == <<entries, calls>>

Idle == [status |-> "idle", op |-> None, key |-> None, data |-> None, answer |-> None]

Called(op, k, v) ==
    [status |-> "called", op |-> op, key |-> k, data |-> v, answer |-> None]

Init ==
    /\ entries = [k \in Keys |-> NoEntry]
    /\ calls = [c \in Callers |-> Idle]

Invoke(c) ==
    /\ calls[c] = Idle
    /\ \/ \E k \in Keys : \E v \in Data : calls' = [calls EXCEPT ![c] = Called("Write", k, v)]
       \/ \E k \in Keys : \E op \in {"Read", "Delete"} :
            calls' = [calls EXCEPT ![c] = Called(op, k, None)]
       \/ calls' = [calls EXCEPT ![c] = Called("Len", None, None)]
    /\ UNCHANGED entries

Answer(c, x) ==
    calls' = [calls EXCEPT ![c] =
                [status |-> "done", op |-> @.op, key |-> @.key, data |-> @.data, answer |-> x]]

\* The instant at which the call of c takes effect.
Perform(c) ==
    /\ calls[c].status = "called"
    /\ \/ /\ calls[c].op = "Read"
          /\ Answer(c, entries[calls[c].key])
          /\ UNCHANGED entries
       \/ /\ calls[c].op = "Len"
          /\ Answer(c, Cardinality({k \in Keys : entries[k] # NoEntry}))
          /\ UNCHANGED entries
       \/ /\ calls[c].op = "Write"
          /\ Answer(c, None)
          /\ entries' = [entries EXCEPT ![calls[c].key] = calls[c].data]
       \/ /\ calls[c].op = "Delete"
          /\ Answer(c, None)
          /\ entries' = [entries EXCEPT ![calls[c].key] = NoEntry]

Return(c) ==
    /\ calls[c].status = "done"
    /\ calls' = [calls EXCEPT ![c] = Idle]
    /\ UNCHANGED entries

Next == \E c \in Callers : Invoke(c) \/ Perform(c) \/ Return(c)

Spec == Init /\ [][Next]_vars
=============================================================================
