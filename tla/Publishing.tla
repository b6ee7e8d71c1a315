------------------------------ MODULE Publishing ------------------------------
(***************************************************************************)
(* What a reconciler of the discovery server promises: it publishes for    *)
(* each object what the caches say about it, as if each of its passes read *)
(* all caches and acted at one instant.  This is so for every pass during  *)
(* which no cache changes.  Another pass may mix what it read before a     *)
(* change with what it read after it, and publish something that each      *)
(* cache has endorsed, though maybe not at the same time; nothing else is  *)
(* ever published.                                                         *)
(*                                                                         *)
(*  expected     what ought to be published for each object, Nothing if it *)
(*               is not valid                                              *)
(*  published    what is published for it                                  *)
(*  passing      the objects of the passes that have not acted yet         *)
(*  undisturbed  those among them since the start of which no cache has    *)
(*               changed                                                   *)
(***************************************************************************)
CONSTANTS
    Keys,      \* the objects
    Endorsed,  \* what may be published for each of them
    Nothing    \* nothing is published

VARIABLES expected, published, passing, undisturbed

vars == <<expected, published, passing, undisturbed>>

Init ==
    /\ DOMAIN expected = Keys
    /\ \A k \in Keys : expected[k] \in Endorsed[k] \cup {Nothing}
    /\ published = [k \in Keys |-> Nothing]
    /\ passing = {}
    /\ undisturbed = {}

Begin(k) ==
    /\ k \notin passing
    /\ passing' = passing \cup {k}
    /\ undisturbed' = undisturbed \cup {k}
    /\ UNCHANGED <<expected, published>>

Leave(k) ==
    /\ k \in passing
    /\ passing' = passing \ {k}
    /\ undisturbed' = undisturbed \ {k}
    /\ UNCHANGED expected

\* A pass that nothing disturbed publishes or withdraws.
Settle(k) ==
    /\ Leave(k)
    /\ k \in undisturbed
    /\ published' = [published EXCEPT ![k] = expected[k]]

\* A pass that was disturbed does so.
SettleStale(k) ==
    /\ Leave(k)
    /\ k \notin undisturbed
    /\ \E x \in Endorsed[k] \cup {Nothing} : published' = [published EXCEPT ![k] = x]

\* A pass ends with an error.
Fail(k) == Leave(k) /\ UNCHANGED published

\* Caches change, which disturbs at least the passes it matters to.
SourcesChange ==
    /\ DOMAIN expected' = Keys
    /\ \A k \in Keys : expected'[k] \in Endorsed[k] \cup {Nothing}
    /\ undisturbed' \subseteq {k \in undisturbed : expected'[k] = expected[k]}
    /\ UNCHANGED <<published, passing>>

\* The process stops and starts again.
Restart ==
    /\ published' = [k \in Keys |-> Nothing]
    /\ passing' = {}
    /\ undisturbed' = {}
    /\ UNCHANGED expected

Next ==
    \/ \E k \in Keys : Begin(k) \/ Settle(k) \/ SettleStale(k) \/ Fail(k)
    \/ SourcesChange
    \/ Restart

Spec == Init /\ [][Next]_vars
=============================================================================
