------------------------- MODULE CertificatePublishing -------------------------
(***************************************************************************)
(* The cluster-ca reconciler seen as an implementation of Publishing: what *)
(* it publishes for a ConfigMap is the mapping, the store key under which  *)
(* the bundle is served.                                                   *)
(*                                                                         *)
(*  fresh   history: the keys in a pass that has not changed the mapping   *)
(*          yet, since the start of which no cache changed                 *)
(***************************************************************************)
EXTENDS Certificate

VARIABLE fresh

historyVars == <<vars, fresh>>

\* The steps of a pass before it has mapped or unmapped.
BeforeMapping == Steps \ {"write"}

HistoryInit == Init /\ fresh = {}

HistoryNext ==
    /\ Next
    /\ fresh' = {k \in Keys :
         /\ pc'[k] \in BeforeMapping
         /\ pc[k] = "idle" \/ k \in fresh
         /\ configmap'[k] = configmap[k]
         /\ UNCHANGED <<namespace, project, shoot>>}

HistorySpec == HistoryInit /\ [][HistoryNext]_historyVars

\* The store key that k should be mapped to.
Expected(k) ==
    LET d == <<namespace[k[1]], configmap[k].shootUID>>
    IN  IF ConfigMapValid(k) /\ d \in DataKeys /\ PublishableAs(k, d) THEN d ELSE EmptyKey

\* To Publishing, a pass is one step: the one that maps or unmaps.
Published == INSTANCE Publishing WITH
    Nothing <- EmptyKey,
    expected <- [k \in Keys |-> Expected(k)],
    published <- storeMapping,
    passing <- {k \in Keys : pc[k] \in BeforeMapping},
    undisturbed <- fresh

\* The four reads of a pass and the change of the mapping are one read of all
\* caches and a change, if no cache changes meanwhile; otherwise the pass
\* leaves no mapping or one that has been valid in each cache.  Nobody but a
\* pass and a restart maps and unmaps.
FollowsTheCaches == Published!Spec

-----------------------------------------------------------------------------
(* The inductive invariant. *)

\* As long as no cache changed, the verdict of each step still holds.
PassIsExact(k) ==
    k \in fresh =>
        /\ pc[k] \in BeforeMapping
        /\ pc[k] \in Checked => snap[k] = configmap[k]
        /\ pc[k] \in {"getProject", "getShoot", "createMapping"} => projectName[k] = namespace[k[1]]
        /\ pc[k] \in {"getShoot", "createMapping"} => ProjectChecks(k)
        /\ pc[k] = "createMapping" => ShootChecks(k)
        /\ pc[k] \in {"deleteMapping", "unmap"} => Expected(k) = EmptyKey

HistoryInv ==
    /\ Inv
    /\ fresh \subseteq Keys
    /\ \A k \in Keys : PassIsExact(k)
=============================================================================
