------------------------------ MODULE Controller ------------------------------
(***************************************************************************)
(* The controller runtime that drives a Reconciler: the informer that      *)
(* notifies it of changed objects, the rate limiting work queue and the    *)
(* workers that take keys from it.  The code is a library                  *)
(* (sigs.k8s.io/controller-runtime); it is modelled as                     *)
(* SetupWithManager of both reconcilers configures and uses it.            *)
(*                                                                         *)
(*  - A change is in the cache before its notification is delivered.       *)
(*    pending[k] counts the notifications about k that pass the            *)
(*    predicate and have not been delivered; the others have no effect.    *)
(*  - queued[k] is the one entry the queue holds for k: none, ready now,   *)
(*    or due later, after a failure ("retry") or for the periodic resync   *)
(*    ("resync").  Adding k again keeps the earlier of the two times.      *)
(*  - pc[k] is the step of the pass that is reconciling k, "idle" if       *)
(*    there is none.  The queue never hands out a key being processed;     *)
(*    what arrives meanwhile stays queued.                                 *)
(***************************************************************************)
EXTENDS Naturals, FiniteSets

CONSTANTS
    Keys,                     \* the objects' names, the reconcile requests
    MaxConcurrentReconciles,  \* number of workers
    ResyncPeriod              \* delay after a successful pass

\* Options.Validate rejects a resync period that is not positive, and
\* SetupWithManager starts 50 workers.
ASSUME ControllerAssumption ==
    /\ MaxConcurrentReconciles \in Nat \ {0}
    /\ ResyncPeriod \in Nat \ {0}

VARIABLES pending, queued, pc

controllerVars == <<pending, queued, pc>>

\* How a pass ends: reconcile.Result{}, Result{RequeueAfter: ResyncPeriod},
\* or an error (a recovered panic included).
Results == {"forget", "requeueAfter", "rateLimited"}

\* The queue as a pass leaves it.  A RequeueAfter of zero requeues nothing.
\* A key that became ready during the pass stays ready.
QueuedAfter(result, entry) ==
    IF entry = "now" THEN "now"
    ELSE IF result = "rateLimited" THEN "retry"
    ELSE IF result = "requeueAfter" /\ ResyncPeriod > 0 THEN "resync"
    ELSE entry

ControllerTypeOK(steps) ==
    /\ pending \in [Keys -> Nat]
    /\ queued \in [Keys -> {"no", "now", "retry", "resync"}]
    /\ pc \in [Keys -> {"idle"} \cup steps \cup Results]

\* The informer records a notification that passes the predicate.
Notify(k, passes) ==
    pending' = IF passes THEN [pending EXCEPT ![k] = @ + 1] ELSE pending

Goto(k, step) == pc' = [pc EXCEPT ![k] = step]

-----------------------------------------------------------------------------
\* The event handler receives a notification and adds the key.
Deliver(k) ==
    /\ pending[k] > 0
    /\ pending' = [pending EXCEPT ![k] = @ - 1]
    /\ queued' = [queued EXCEPT ![k] = "now"]
    /\ UNCHANGED pc

\* The delay of a queued key has passed.
TimerFires(k) ==
    /\ queued[k] \in {"retry", "resync"}
    /\ queued' = [queued EXCEPT ![k] = "now"]
    /\ UNCHANGED <<pending, pc>>

\* A free worker takes a ready key that nobody is processing.
Dequeue(k, first) ==
    /\ queued[k] = "now"
    /\ pc[k] = "idle"
    /\ Cardinality({j \in Keys : pc[j] # "idle"}) < MaxConcurrentReconciles
    /\ queued' = [queued EXCEPT ![k] = "no"]
    /\ Goto(k, first)
    /\ UNCHANGED pending

\* The worker hands the result back to the queue and is done with the key.
Finish(k) ==
    /\ pc[k] \in Results
    /\ queued' = [queued EXCEPT ![k] = QueuedAfter(pc[k], @)]
    /\ Goto(k, "idle")
    /\ UNCHANGED pending

\* The controller of a process that has just started.  The first list of
\* the informer is notified as one creation per object.
ControllerStart(created) ==
    /\ pending' = [k \in Keys |-> IF created[k] THEN 1 ELSE 0]
    /\ queued' = [k \in Keys |-> "no"]
    /\ pc' = [k \in Keys |-> "idle"]
=============================================================================
