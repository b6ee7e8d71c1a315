--------------------------- MODULE OpenIDMetaProofs ---------------------------
(***************************************************************************)
(* Proofs about OpenIDMeta, for any set of Secrets, any contents of the    *)
(* caches, any number of workers and any number of disturbances.           *)
(***************************************************************************)
EXTENDS OpenIDMeta, TLAPS

USE ControllerAssumption, OpenIDMetaAssumption

-----------------------------------------------------------------------------
(* Type correctness. *)

\* The queue entry that a finished pass leaves is one the queue can hold.
LEMMA QueuedAfterType ==
    ASSUME NEW result \in Results,
           NEW entry \in {"no", "now", "retry", "resync"}
    PROVE  QueuedAfter(result, entry) \in {"no", "now", "retry", "resync"}
BY DEF QueuedAfter, Results

\* The variables keep their types when a process starts.
LEMMA InitType == Init => TypeOK
BY DEF Init, TypeOK, ControllerTypeOK

\* Every step keeps the variables in their types.  What is written is of
\* the right type because the pass that writes has found the Secret.
LEMMA NextType ==
    ASSUME TypeOK, \A k \in Keys : PassIsValidated(k), [Next]_vars
    PROVE  TypeOK'
<1> USE DEF TypeOK, ControllerTypeOK, Steps, Reads, Results
<1>1. ASSUME NEW k \in Keys, Pass(k) PROVE TypeOK'
  <2>1. CASE GetSecret(k)
    BY <2>1 DEF GetSecret, reconcilerUnchanged, Goto, clusterVars
  <2>2. CASE GetProject(k)
    BY <2>2 DEF GetProject, reconcilerUnchanged, Goto, clusterVars
  <2>3. CASE GetShoot(k)
    <3>1. AfterContentChecks(snap[k]) \in {"delete", "rateLimited", "write"}
      BY DEF AfterContentChecks
    <3> QED
      BY <2>3, <3>1 DEF GetShoot, reconcilerUnchanged, Goto, clusterVars
  <2>4. CASE WriteEntry(k)
    <3>1. snap[k] \in SecretValues
      BY <2>4 DEF WriteEntry, PassIsValidated, SecretChecks
    <3>2. DataOf(snap[k]) \in Data
      BY <3>1 DEF Data
    <3> QED
      BY <2>4, <3>2 DEF WriteEntry, reconcilerUnchanged, Goto, clusterVars
  <2>5. CASE DeleteEntry(k)
    BY <2>5 DEF DeleteEntry, reconcilerUnchanged, Goto, clusterVars
  <2>6. CASE End(k)
    BY <2>6, QueuedAfterType DEF End, Finish, Goto, clusterVars
  <2> QED
    BY <1>1, <2>1, <2>2, <2>3, <2>4, <2>5, <2>6 DEF Pass
<1>2. ASSUME NEW k \in Keys, GetFails(k) PROVE TypeOK'
  BY <1>2 DEF GetFails, Goto, clusterVars
<1>3. ASSUME NEW k \in Keys, Start(k) PROVE TypeOK'
  BY <1>3 DEF Start, Dequeue, Goto, clusterVars
<1>4. ASSUME NEW k \in Keys, EventDelivered(k) PROVE TypeOK'
  BY <1>4 DEF EventDelivered, Deliver, clusterVars
<1>5. ASSUME NEW k \in Keys, DelayPasses(k) PROVE TypeOK'
  BY <1>5 DEF DelayPasses, TimerFires, clusterVars
<1>6. ASSUME NEW k \in Keys, SecretChanges(k) PROVE TypeOK'
  BY <1>6 DEF SecretChanges, Notify
<1>7. ASSUME NEW k \in Keys, InformerResync(k) PROVE TypeOK'
  BY <1>7 DEF InformerResync, Notify, clusterVars
<1>8. CASE ProjectChanges
  BY <1>8 DEF ProjectChanges, controllerVars
<1>9. CASE ShootChanges
  BY <1>9 DEF ShootChanges, controllerVars
<1>10. CASE Restart
  BY <1>10 DEF Restart, ControllerStart, clusterVars
<1>11. CASE UNCHANGED vars
  BY <1>11 DEF vars, controllerVars, clusterVars
<1> QED
  BY <1>1, <1>2, <1>3, <1>4, <1>5, <1>6, <1>7, <1>8, <1>9, <1>10, <1>11 DEF Next

-----------------------------------------------------------------------------
(* What the checks of Reconcile mean. *)

\* A name that splits has exactly the two parts.
LEMMA SplitName ==
    ASSUME NEW k \in Keys
    PROVE  Len(k) = 2 <=> k = <<k[1], k[2]>>
OBVIOUS

\* The checks of one Secret, together, are validity.
LEMMA ChecksAreValidity ==
    ASSUME NEW k \in Keys
    PROVE  SecretValid(k) <=>
             SecretChecks(k, secret[k]) /\ ContentValid(DataOf(secret[k]))
BY SplitName
   DEF SecretValid, SecretValidAs, SecretChecks, ContentValid, DataOf, SplitProjectNameAndShootUID

\* So they are for a Secret that a pass read earlier.
LEMMA SnapshotChecksAreValidity ==
    ASSUME NEW k \in Keys, NEW s, SecretChecks(k, s), ContentValid(DataOf(s))
    PROVE  SecretValidAs(k, s)
BY SplitName DEF SecretValidAs, SecretChecks, SplitProjectNameAndShootUID

\* The check of the project is that of ClaimedBy, on the cache as it is.
LEMMA ProjectVerdict ==
    ASSUME NEW k \in Keys, NEW s, SecretChecks(k, s)
    PROVE  ProjectChecks(s) <=> ClaimedBy(s, project)
BY DEF ProjectChecks, ClaimedBy, SecretChecks

\* The checks of the shoot are those of OwnedBy, on the cache as it is.
LEMMA ShootVerdict ==
    ASSUME NEW k \in Keys, NEW s
    PROVE  ShootChecks(k, s) <=> OwnedBy(k, s, shoot)
BY DEF ShootChecks, OwnedBy, ShootOf

\* A Secret is published if and only if it passes the checks of all steps.
LEMMA ChecksArePublishable ==
    ASSUME NEW k \in Keys
    PROVE  Publishable(k) <=>
             /\ SecretChecks(k, secret[k])
             /\ ContentValid(DataOf(secret[k]))
             /\ ProjectChecks(secret[k])
             /\ ShootChecks(k, secret[k])
BY ChecksAreValidity, ProjectVerdict, ShootVerdict DEF Publishable

\* The checks of the documents decide as ContentValid does.
LEMMA ContentVerdict ==
    ASSUME NEW s, s.config # Unset, s.jwks # Unset
    PROVE  /\ AfterContentChecks(s) = "write" => ContentValid(DataOf(s))
           /\ AfterContentChecks(s) = "delete" => ~ContentValid(DataOf(s))
BY DEF AfterContentChecks, ContentValid, DataOf, LoadOpenIDConfig, LoadKeySet,
       KeysArePublicAndValid

\* A Secret that passes the checks is one whose changes the watch sees.
LEMMA ValidIsRelevant ==
    ASSUME NEW k \in Keys
    PROVE  /\ SecretValid(k) => isRelevantSecret(secret[k])
           /\ SecretChecks(k, secret[k]) => isRelevantSecret(secret[k])
BY DEF SecretValid, SecretValidAs, SecretChecks, isRelevantSecret

-----------------------------------------------------------------------------
(* The inductive invariant. *)

\* A process starts in the invariant: nothing is published, no pass runs.
LEMMA InitInv == Init => Inv
<1> SUFFICES ASSUME Init PROVE Inv
  OBVIOUS
<1>1. TypeOK
  BY InitType
<1>2. PublishedWasValidated /\ Tracked
  BY DEF Init, PublishedWasValidated, Tracked
<1>3. ASSUME NEW k \in Keys
      PROVE PassIsValidated(k) /\ PassIsCurrent(k) /\ PassIsExact(k)
  BY DEF Init, PassIsValidated, PassIsCurrent, PassIsExact
<1> QED
  BY <1>1, <1>2, <1>3 DEF Inv

\* What is valid in some state of each cache is endorsed.
LEMMA ValidIsEndorsed ==
    ASSUME NEW k \in Keys, NEW s \in SecretValues \cup {NotFound},
           NEW p \in ProjectStates, NEW sh \in ShootStates,
           SecretValidAs(k, s), ClaimedBy(s, p), OwnedBy(k, s, sh)
    PROVE  DataOf(s) \in Endorsed[k]
<1>1. s \in SecretValues
  BY DEF SecretValidAs
<1> QED
  BY <1>1 DEF Endorsed

\* A pass that has come to the write holds what may be published.
LEMMA SnapshotIsEndorsed ==
    ASSUME NEW k \in Keys, TypeOK, PassIsValidated(k), pc[k] = "write"
    PROVE  DataOf(snap[k]) \in Endorsed[k]
<1>1. SecretValidAs(k, snap[k])
  BY SnapshotChecksAreValidity DEF PassIsValidated
<1>2. snap[k] \in SecretValues \cup {NotFound}
  BY DEF TypeOK
<1>3. /\ \E p \in ProjectStates : ClaimedBy(snap[k], p)
      /\ \E sh \in ShootStates : OwnedBy(k, snap[k], sh)
  BY DEF PassIsValidated
<1> QED
  BY <1>1, <1>2, <1>3, ValidIsEndorsed

\* What is written is what was validated: every step of a pass keeps its
\* snapshot, and no step of anybody else touches it.
LEMMA NextValidated ==
    ASSUME Inv, [Next]_vars
    PROVE  (PublishedWasValidated /\ \A k \in Keys : PassIsValidated(k))'
<1> USE DEF Inv, TypeOK, ControllerTypeOK, PublishedWasValidated, PassIsValidated
<1>1. ASSUME NEW k \in Keys, Pass(k)
      PROVE  (PublishedWasValidated /\ \A j \in Keys : PassIsValidated(j))'
  <2>1. CASE GetSecret(k)
    BY <2>1 DEF GetSecret, reconcilerUnchanged, Goto, clusterVars, SecretChecks,
                SplitProjectNameAndShootUID
  <2>2. CASE GetProject(k)
    <3>1. ProjectChecks(snap[k]) => \E p \in ProjectStates : ClaimedBy(snap[k], p)
      BY <2>2, ProjectVerdict DEF GetProject
    <3> QED
      BY <2>2, <3>1 DEF GetProject, reconcilerUnchanged, Goto, clusterVars
  <2>3. CASE GetShoot(k)
    <3>1. AfterContentChecks(snap[k]) \in {"delete", "rateLimited", "write"}
      BY DEF AfterContentChecks
    <3>2. AfterContentChecks(snap[k]) = "write" => ContentValid(DataOf(snap[k]))
      BY <2>3, ContentVerdict DEF GetShoot, SecretChecks
    <3>3. ShootChecks(k, snap[k]) => \E sh \in ShootStates : OwnedBy(k, snap[k], sh)
      BY ShootVerdict
    <3> QED
      BY <2>3, <3>1, <3>2, <3>3 DEF GetShoot, reconcilerUnchanged, Goto, clusterVars
  <2>4. CASE WriteEntry(k)
    <3>1. DataOf(snap[k]) \in Endorsed[k]
      BY <2>4, SnapshotIsEndorsed DEF WriteEntry
    <3> QED
      BY <2>4, <3>1 DEF WriteEntry, reconcilerUnchanged, Goto, clusterVars
  <2>5. CASE DeleteEntry(k)
    BY <2>5 DEF DeleteEntry, reconcilerUnchanged, Goto, clusterVars
  <2>6. CASE End(k)
    BY <2>6 DEF End, Finish, Goto, clusterVars, Results
  <2> QED
    BY <1>1, <2>1, <2>2, <2>3, <2>4, <2>5, <2>6 DEF Pass
<1>2. ASSUME NEW k \in Keys, GetFails(k)
      PROVE  (PublishedWasValidated /\ \A j \in Keys : PassIsValidated(j))'
  BY <1>2 DEF GetFails, Goto, clusterVars
<1>3. ASSUME NEW k \in Keys, Start(k)
      PROVE  (PublishedWasValidated /\ \A j \in Keys : PassIsValidated(j))'
  BY <1>3 DEF Start, Dequeue, Goto, clusterVars
<1>4. ASSUME NEW k \in Keys, EventDelivered(k) \/ DelayPasses(k)
      PROVE  (PublishedWasValidated /\ \A j \in Keys : PassIsValidated(j))'
  BY <1>4 DEF EventDelivered, Deliver, DelayPasses, TimerFires, clusterVars
<1>5. ASSUME NEW k \in Keys, SecretChanges(k) \/ InformerResync(k)
      PROVE  (PublishedWasValidated /\ \A j \in Keys : PassIsValidated(j))'
  BY <1>5 DEF SecretChanges, InformerResync
<1>6. CASE ProjectChanges \/ ShootChanges
  BY <1>6 DEF ProjectChanges, ShootChanges, controllerVars
<1>7. CASE Restart
  BY <1>7 DEF Restart, ControllerStart
<1>8. CASE UNCHANGED vars
  BY <1>8 DEF vars, controllerVars
<1> QED
  BY <1>1, <1>2, <1>3, <1>4, <1>5, <1>6, <1>7, <1>8 DEF Next

\* A key leaves the queue only for a pass, and a pass ends without asking
\* for another one only when the entry is gone.
LEMMA NextTracked ==
    ASSUME Inv, [Next]_vars
    PROVE  Tracked'
<1> USE DEF Inv, TypeOK, ControllerTypeOK, Tracked
<1>1. ASSUME NEW k \in Keys, Pass(k) PROVE Tracked'
  <2>1. CASE GetSecret(k) \/ GetProject(k) \/ GetShoot(k) \/ WriteEntry(k) \/ DeleteEntry(k)
    <3>1. pc'[k] # "idle"
      BY <2>1 DEF GetSecret, GetProject, GetShoot, WriteEntry, DeleteEntry, Goto,
                  AfterContentChecks
    <3>2. \A j \in Keys \ {k} : store'[j] = store[j] /\ pc'[j] = pc[j]
      BY <2>1 DEF GetSecret, GetProject, GetShoot, WriteEntry, DeleteEntry, Goto
    <3>3. queued' = queued
      BY <2>1 DEF GetSecret, GetProject, GetShoot, WriteEntry, DeleteEntry,
                  reconcilerUnchanged
    <3> QED
      BY <3>1, <3>2, <3>3
  <2>2. CASE End(k)
    <3>1. pc[k] = "forget" => store[k] = NoEntry
      BY DEF PassIsValidated
    <3>2. pc[k] # "forget" => QueuedAfter(pc[k], queued[k]) # "no"
      BY <2>2 DEF End, Finish, QueuedAfter, Results
    <3> QED
      BY <2>2, <3>1, <3>2 DEF End, Finish, Goto
  <2> QED
    BY <1>1, <2>1, <2>2 DEF Pass
<1>2. ASSUME NEW k \in Keys, GetFails(k) PROVE Tracked'
  BY <1>2 DEF GetFails, Goto
<1>3. ASSUME NEW k \in Keys, Start(k) PROVE Tracked'
  BY <1>3 DEF Start, Dequeue, Goto
<1>4. ASSUME NEW k \in Keys, EventDelivered(k) \/ DelayPasses(k) PROVE Tracked'
  BY <1>4 DEF EventDelivered, Deliver, DelayPasses, TimerFires
<1>5. ASSUME NEW k \in Keys, SecretChanges(k) \/ InformerResync(k) PROVE Tracked'
  BY <1>5 DEF SecretChanges, InformerResync
<1>6. CASE ProjectChanges \/ ShootChanges
  BY <1>6 DEF ProjectChanges, ShootChanges, controllerVars
<1>7. CASE Restart
  BY <1>7 DEF Restart, ControllerStart
<1>8. CASE UNCHANGED vars
  BY <1>8 DEF vars, controllerVars
<1> QED
  BY <1>1, <1>2, <1>3, <1>4, <1>5, <1>6, <1>7, <1>8 DEF Next

\* Whether a Secret is valid depends on that Secret alone.
LEMMA SameSecretSameValidity ==
    ASSUME NEW j \in Keys, secret'[j] = secret[j]
    PROVE  SecretValid(j)' <=> SecretValid(j)
BY DEF SecretValid, SecretValidAs, ContentValid, DataOf

\* A change of the Secret either is on its way to the queue or concerns a
\* Secret that no pass works on and that is not published.
LEMMA NextCurrent ==
    ASSUME Inv, [Next]_vars, NEW j \in Keys
    PROVE  PassIsCurrent(j)'
<1> USE DEF Inv, TypeOK, ControllerTypeOK
<1>1. ASSUME NEW k \in Keys, Pass(k) PROVE PassIsCurrent(j)'
  <2>0. SecretValid(j)' <=> SecretValid(j)
    BY <1>1, SameSecretSameValidity
       DEF Pass, GetSecret, GetProject, GetShoot, WriteEntry, DeleteEntry, End,
           reconcilerUnchanged, clusterVars
  <2>1. CASE GetSecret(k)
    BY <2>0, <2>1 DEF GetSecret, reconcilerUnchanged, Goto, clusterVars, PassIsCurrent
  <2>2. CASE GetProject(k)
    BY <2>0, <2>2 DEF GetProject, reconcilerUnchanged, Goto, clusterVars, PassIsCurrent
  <2>3. CASE GetShoot(k)
    <3>1. AfterContentChecks(snap[k]) \in {"delete", "rateLimited", "write"}
      BY DEF AfterContentChecks
    <3> QED
      BY <2>0, <2>3, <3>1 DEF GetShoot, reconcilerUnchanged, Goto, clusterVars, PassIsCurrent
  <2>4. CASE WriteEntry(k)
    <3>1. CASE j = k
      <4>1. SecretChecks(k, snap[k]) /\ ContentValid(DataOf(snap[k]))
        BY <2>4 DEF WriteEntry, PassIsValidated
      <4>2. snap[k] = secret[k] => SecretValid(k)
        BY <4>1, ChecksAreValidity
      <4> QED
        BY <2>0, <2>4, <3>1, <4>2
           DEF WriteEntry, reconcilerUnchanged, Goto, clusterVars, PassIsCurrent
    <3>2. CASE j # k
      BY <2>0, <2>4, <3>2 DEF WriteEntry, reconcilerUnchanged, Goto, clusterVars, PassIsCurrent
    <3> QED
      BY <3>1, <3>2
  <2>5. CASE DeleteEntry(k)
    BY <2>0, <2>5 DEF DeleteEntry, reconcilerUnchanged, Goto, clusterVars, PassIsCurrent
  <2>6. CASE End(k)
    <3>1. CASE j = k
      <4>1. queued[k] \in {"no", "now"}
        BY <2>6 DEF End, Finish, Results, PassIsCurrent
      <4>2. pc[k] = "forget" => store[k] = NoEntry
        BY DEF PassIsValidated
      <4>3. pc[k] = "rateLimited" => QueuedAfter(pc[k], queued[k]) \in {"now", "retry"}
        BY DEF QueuedAfter
      <4>4. queued[k] = "now" => QueuedAfter(pc[k], queued[k]) = "now"
        BY DEF QueuedAfter
      <4> QED
        BY <2>0, <2>6, <3>1, <4>1, <4>2, <4>3, <4>4
           DEF End, Finish, Goto, Results, clusterVars, PassIsCurrent
    <3>2. CASE j # k
      BY <2>0, <2>6, <3>2 DEF End, Finish, Goto, clusterVars, PassIsCurrent
    <3> QED
      BY <3>1, <3>2
  <2> QED
    BY <1>1, <2>1, <2>2, <2>3, <2>4, <2>5, <2>6 DEF Pass
<1>2. ASSUME NEW k \in Keys, GetFails(k) PROVE PassIsCurrent(j)'
  BY <1>2, SameSecretSameValidity DEF GetFails, Goto, Reads, clusterVars, PassIsCurrent
<1>3. ASSUME NEW k \in Keys, Start(k) PROVE PassIsCurrent(j)'
  BY <1>3, SameSecretSameValidity DEF Start, Dequeue, Goto, clusterVars, PassIsCurrent
<1>4. ASSUME NEW k \in Keys, EventDelivered(k) \/ DelayPasses(k) PROVE PassIsCurrent(j)'
  BY <1>4, SameSecretSameValidity
     DEF EventDelivered, Deliver, DelayPasses, TimerFires, clusterVars, PassIsCurrent
<1>5. ASSUME NEW k \in Keys, SecretChanges(k) PROVE PassIsCurrent(j)'
  <2>1. CASE j # k
    BY <1>5, <2>1, SameSecretSameValidity DEF SecretChanges, Notify, PassIsCurrent
  <2>2. CASE j = k /\ isRelevantSecret(secret[k])
    <3>1. pending'[k] > 0
      BY <1>5, <2>2 DEF SecretChanges, Notify, isRelevantSecretUpdate
    <3> QED
      BY <1>5, <2>2, <3>1 DEF SecretChanges, PassIsCurrent
  <2>3. CASE j = k /\ ~isRelevantSecret(secret[k])
    <3>1. ~SecretValid(k) /\ ~SecretChecks(k, secret[k])
      BY <2>3, ValidIsRelevant
    <3>2. pc[k] \in {"getProject", "getShoot", "write"} => SecretChecks(k, snap[k])
      BY DEF PassIsValidated
    <3>3. pending'[k] = 0 => pending[k] = 0
      BY <1>5 DEF SecretChanges, Notify
    <3> QED
      BY <1>5, <2>3, <3>1, <3>2, <3>3 DEF SecretChanges, PassIsCurrent
  <2> QED
    BY <2>1, <2>2, <2>3
<1>6. ASSUME NEW k \in Keys, InformerResync(k) PROVE PassIsCurrent(j)'
  <2>1. pending'[j] = 0 => pending[j] = 0
    BY <1>6 DEF InformerResync, Notify
  <2> QED
    BY <1>6, <2>1, SameSecretSameValidity DEF InformerResync, clusterVars, PassIsCurrent
<1>7. CASE ProjectChanges \/ ShootChanges
  BY <1>7, SameSecretSameValidity
     DEF ProjectChanges, ShootChanges, controllerVars, PassIsCurrent
<1>8. CASE Restart
  BY <1>8 DEF Restart, ControllerStart, PassIsCurrent
<1>9. CASE UNCHANGED vars
  BY <1>9, SameSecretSameValidity DEF vars, controllerVars, clusterVars, PassIsCurrent
<1> QED
  BY <1>1, <1>2, <1>3, <1>4, <1>5, <1>6, <1>7, <1>8, <1>9 DEF Next

\* The verdict on a key depends on the three caches alone.
LEMMA SameCachesSameVerdict ==
    ASSUME NEW j \in Keys, secret'[j] = secret[j], project' = project, shoot' = shoot
    PROVE  /\ Publishable(j)' <=> Publishable(j)
           /\ Expected(j)' = Expected(j)
BY SameSecretSameValidity DEF Publishable, Expected, DataOf, ClaimedBy, OwnedBy

\* A step that leaves the caches and everything about j alone keeps what is
\* known of j's pass.
LEMMA ExactUndisturbed ==
    ASSUME NEW j \in Keys, PassIsExact(j), UNCHANGED clusterVars,
           pc'[j] = pc[j], snap'[j] = snap[j], store'[j] = store[j],
           j \in fresh' => j \in fresh
    PROVE  PassIsExact(j)'
BY SameCachesSameVerdict
   DEF PassIsExact, clusterVars, ProjectChecks, ShootChecks, ShootOf

\* Without a change of the caches the reads of a pass are as good as one
\* read of all three at its end.
LEMMA NextExact ==
    ASSUME Inv, [Next]_vars, NEW j \in Keys
    PROVE  PassIsExact(j)'
<1> USE DEF Inv, TypeOK, ControllerTypeOK
<1>1. ASSUME NEW k \in Keys, Pass(k) PROVE PassIsExact(j)'
  <2>1. UNCHANGED clusterVars /\ (j \in fresh' => j \in fresh)
    BY <1>1 DEF Pass, GetSecret, GetProject, GetShoot, WriteEntry, DeleteEntry, End,
                reconcilerUnchanged
  <2>2. CASE j # k
    <3>1. pc'[j] = pc[j] /\ snap'[j] = snap[j] /\ store'[j] = store[j]
      BY <1>1, <2>2 DEF Pass, GetSecret, GetProject, GetShoot, WriteEntry, DeleteEntry, End,
                        Finish, Goto
    <3> QED
      BY <2>1, <3>1, ExactUndisturbed
  <2>3. CASE j = k
    <3>1. /\ Publishable(k)' <=> Publishable(k)
          /\ Expected(k)' = Expected(k)
      BY <2>1, SameCachesSameVerdict DEF clusterVars
    <3> USE <2>1, <2>3, <3>1 DEF clusterVars
    <3>2. CASE GetSecret(k)
      <4>1. ~SecretChecks(k, secret[k]) => ~Publishable(k)
        BY ChecksArePublishable
      <4> QED
        BY <3>2, <4>1 DEF GetSecret, Goto, PassIsExact
    <3>3. CASE GetProject(k)
      <4>1. k \in fresh /\ ~ProjectChecks(snap[k]) => ~Publishable(k)
        BY <3>3, ChecksArePublishable DEF GetProject, PassIsExact
      <4> QED
        BY <3>3, <4>1 DEF GetProject, Goto, PassIsExact, ProjectChecks
    <3>4. CASE GetShoot(k)
      <4>1. SecretChecks(k, snap[k])
        BY <3>4 DEF GetShoot, PassIsValidated
      <4>2. /\ AfterContentChecks(snap[k]) \in {"delete", "rateLimited", "write"}
            /\ AfterContentChecks(snap[k]) = "delete" => ~ContentValid(DataOf(snap[k]))
        BY <4>1, ContentVerdict DEF AfterContentChecks, SecretChecks
      <4>3. k \in fresh /\ (~ShootChecks(k, snap[k]) \/ ~ContentValid(DataOf(snap[k])))
              => ~Publishable(k)
        BY <3>4, ChecksArePublishable DEF GetShoot, PassIsExact
      <4> QED
        BY <3>4, <4>2, <4>3 DEF GetShoot, Goto, PassIsExact, ProjectChecks, ShootChecks, ShootOf
    <3>5. CASE WriteEntry(k)
      <4>1. k \in fresh => Publishable(k) /\ snap[k] = secret[k]
        BY <3>5, ChecksArePublishable DEF WriteEntry, PassIsExact, PassIsValidated
      <4> QED
        BY <3>5, <4>1 DEF WriteEntry, Goto, PassIsExact, Expected
    <3>6. CASE DeleteEntry(k)
      BY <3>6 DEF DeleteEntry, Goto, PassIsExact, Expected
    <3>7. CASE End(k)
      BY <3>7 DEF End, Finish, Goto, PassIsExact
    <3> QED
      BY <1>1, <3>2, <3>3, <3>4, <3>5, <3>6, <3>7 DEF Pass
  <2> QED
    BY <2>2, <2>3
<1>2. ASSUME NEW k \in Keys, GetFails(k) PROVE PassIsExact(j)'
  <2>1. CASE j = k
    BY <1>2, <2>1 DEF GetFails, Goto, PassIsExact
  <2>2. CASE j # k
    BY <1>2, <2>2, ExactUndisturbed DEF GetFails, Goto
  <2> QED
    BY <2>1, <2>2
<1>3. ASSUME NEW k \in Keys, Start(k) PROVE PassIsExact(j)'
  <2>1. CASE j = k
    BY <1>3, <2>1 DEF Start, Dequeue, Goto, PassIsExact
  <2>2. CASE j # k
    BY <1>3, <2>2, ExactUndisturbed DEF Start, Dequeue, Goto
  <2> QED
    BY <2>1, <2>2
<1>4. ASSUME NEW k \in Keys, EventDelivered(k) \/ DelayPasses(k) \/ InformerResync(k)
      PROVE  PassIsExact(j)'
  BY <1>4, ExactUndisturbed DEF EventDelivered, Deliver, DelayPasses, TimerFires, InformerResync
<1>5. ASSUME NEW k \in Keys, SecretChanges(k) PROVE PassIsExact(j)'
  <2>1. CASE j = k
    BY <1>5, <2>1 DEF SecretChanges, PassIsExact
  <2>2. CASE j # k
    <3>1. /\ Publishable(j)' <=> Publishable(j)
          /\ Expected(j)' = Expected(j)
      BY <1>5, <2>2, SameCachesSameVerdict DEF SecretChanges
    <3> QED
      BY <1>5, <2>2, <3>1 DEF SecretChanges, PassIsExact, ProjectChecks, ShootChecks, ShootOf
  <2> QED
    BY <2>1, <2>2
<1>6. CASE ProjectChanges \/ ShootChanges
  BY <1>6 DEF ProjectChanges, ShootChanges, PassIsExact
<1>7. CASE Restart
  BY <1>7 DEF Restart, PassIsExact
<1>8. CASE UNCHANGED vars
  BY <1>8, ExactUndisturbed DEF vars, controllerVars
<1> QED
  BY <1>1, <1>2, <1>3, <1>4, <1>5, <1>6, <1>7, <1>8 DEF Next

-----------------------------------------------------------------------------
(* The reconciler implements Publishing. *)

\* What the caches say may be published, before a step and after it.
LEMMA ExpectedIsEndorsed ==
    ASSUME NEW k \in Keys
    PROVE  /\ TypeOK => Expected(k) \in Endorsed[k] \cup {NoEntry}
           /\ TypeOK' => Expected(k)' \in Endorsed[k] \cup {NoEntry}
BY ValidIsEndorsed DEF TypeOK, Expected, Publishable, SecretValid

\* A process starts where Publishing does.
LEMMA InitPublishing == Init => Published!Init
<1> SUFFICES ASSUME Init PROVE Published!Init
  OBVIOUS
<1>1. \A k \in Keys : Expected(k) \in Endorsed[k] \cup {NoEntry}
  BY InitType, ExpectedIsEndorsed
<1> QED
  BY <1>1 DEF Init, Published!Init, Steps, Reads

\* A step that changes no entry, moves no pass to its end or from its start
\* and leaves the caches alone is none of Publishing's.
LEMMA InvisibleStep ==
    ASSUME UNCHANGED <<clusterVars, store>>,
           \A k \in Keys : pc'[k] \in Steps <=> pc[k] \in Steps,
           \A k \in Keys : pc[k] \in Steps => (k \in fresh' <=> k \in fresh),
           fresh \subseteq Keys, fresh' \subseteq Keys
    PROVE  UNCHANGED Published!vars
<1>1. \A k \in Keys : Expected(k)' = Expected(k)
  BY SameCachesSameVerdict DEF clusterVars
<1> QED
  BY <1>1 DEF Published!vars

\* A pass over k leaves Publishing's step, and no other pass is concerned.
LEMMA PassLeaves ==
    ASSUME TypeOK, NEW k \in Keys, UNCHANGED <<clusterVars, fresh>>,
           pc[k] \in Steps, NEW result \in Results, Goto(k, result)
    PROVE  Published!Leave(k)
<1>1. \A j \in Keys : Expected(j)' = Expected(j)
  BY SameCachesSameVerdict DEF clusterVars
<1>2. result \notin Steps
  BY DEF Results, Steps, Reads
<1>3. \A j \in Keys : pc'[j] \in Steps <=> j # k /\ pc[j] \in Steps
  BY <1>2 DEF Goto, TypeOK, ControllerTypeOK
<1> QED
  BY <1>1, <1>3 DEF Published!Leave, TypeOK

\* The steps of a pass: the reads are invisible as long as they find what
\* they look for, and the write or the deletion is the pass.
LEMMA PassIsPublishing ==
    ASSUME Inv, NEW k \in Keys, Pass(k)
    PROVE  [Published!Next]_(Published!vars)
<1> USE DEF Inv, TypeOK, ControllerTypeOK
<1>1. CASE GetSecret(k) \/ GetProject(k)
  BY <1>1, InvisibleStep
     DEF GetSecret, GetProject, Goto, reconcilerUnchanged, Steps, Reads
<1>2. CASE GetShoot(k)
  <2>1. CASE pc'[k] \in {"delete", "write"}
    BY <1>2, <2>1, InvisibleStep DEF GetShoot, Goto, reconcilerUnchanged, Steps, Reads
  <2>2. CASE pc'[k] = "rateLimited"
    <3>1. Goto(k, "rateLimited")
      BY <1>2, <2>2 DEF GetShoot, Goto
    <3>2. Published!Leave(k)
      BY <1>2, <3>1, PassLeaves DEF GetShoot, reconcilerUnchanged, Results, Steps, Reads
    <3> QED
      BY <1>2, <3>2 DEF GetShoot, Published!Fail, Published!Next
  <2> QED
    BY <1>2, <2>1, <2>2 DEF GetShoot, Goto, AfterContentChecks
<1>3. CASE WriteEntry(k)
  <2>1. Published!Leave(k)
    BY <1>3, PassLeaves DEF WriteEntry, reconcilerUnchanged, Results, Steps
  <2>2. CASE k \in fresh
    <3>1. DataOf(snap[k]) = Expected(k)
      BY <1>3, <2>2, ChecksArePublishable
         DEF WriteEntry, PassIsExact, PassIsValidated, Expected
    <3> QED
      BY <1>3, <2>1, <2>2, <3>1 DEF WriteEntry, Steps, Published!Settle, Published!Next
  <2>3. CASE k \notin fresh
    <3>1. DataOf(snap[k]) \in Endorsed[k]
      BY <1>3, SnapshotIsEndorsed DEF WriteEntry
    <3> QED
      BY <1>3, <2>1, <2>3, <3>1 DEF WriteEntry, Published!SettleStale, Published!Next
  <2> QED
    BY <2>2, <2>3
<1>4. CASE DeleteEntry(k)
  <2>1. Published!Leave(k)
    BY <1>4, PassLeaves DEF DeleteEntry, reconcilerUnchanged, Results, Steps
  <2>2. CASE k \in fresh
    <3>1. Expected(k) = NoEntry
      BY <1>4, <2>2 DEF DeleteEntry, PassIsExact, Expected
    <3> QED
      BY <1>4, <2>1, <2>2, <3>1 DEF DeleteEntry, Steps, Published!Settle, Published!Next
  <2>3. CASE k \notin fresh
    BY <1>4, <2>1, <2>3 DEF DeleteEntry, Published!SettleStale, Published!Next
  <2> QED
    BY <2>2, <2>3
<1>5. CASE End(k)
  BY <1>5, InvisibleStep DEF End, Finish, Goto, Results, Steps, Reads
<1> QED
  BY <1>1, <1>2, <1>3, <1>4, <1>5 DEF Pass

\* A change of the caches disturbs every pass it can matter to.
LEMMA ChangeIsPublishing ==
    ASSUME Inv, Inv', UNCHANGED <<pc, store>>, fresh' \subseteq fresh,
           \A k \in fresh' : Expected(k)' = Expected(k)
    PROVE  Published!SourcesChange
<1>1. \A k \in Keys : Expected(k)' \in Endorsed[k] \cup {NoEntry}
  BY ExpectedIsEndorsed DEF Inv
<1> QED
  BY <1>1 DEF Published!SourcesChange, Inv, TypeOK

\* Every step of the reconciler is one of Publishing, or invisible to it.
LEMMA NextPublishing ==
    ASSUME Inv, Inv', [Next]_vars
    PROVE  [Published!Next]_(Published!vars)
<1> USE DEF Inv, TypeOK, ControllerTypeOK
<1>1. ASSUME NEW k \in Keys, Pass(k) PROVE [Published!Next]_(Published!vars)
  BY <1>1, PassIsPublishing
<1>2. ASSUME NEW k \in Keys, GetFails(k) PROVE [Published!Next]_(Published!vars)
  <2>1. Published!Leave(k)
    BY <1>2, PassLeaves DEF GetFails, Results, Steps
  <2> QED
    BY <1>2, <2>1 DEF GetFails, Published!Fail, Published!Next
<1>3. ASSUME NEW k \in Keys, Start(k) PROVE [Published!Next]_(Published!vars)
  <2>1. \A j \in Keys : Expected(j)' = Expected(j)
    BY <1>3, SameCachesSameVerdict DEF Start, clusterVars
  <2>2. /\ pc[k] \notin Steps
        /\ \A j \in Keys : pc'[j] \in Steps <=> j = k \/ pc[j] \in Steps
    BY <1>3 DEF Start, Dequeue, Goto, Steps, Reads
  <2>3. Published!Begin(k)
    BY <1>3, <2>1, <2>2 DEF Start, Published!Begin
  <2> QED
    BY <2>3 DEF Published!Next
<1>4. ASSUME NEW k \in Keys, EventDelivered(k) \/ DelayPasses(k) \/ InformerResync(k)
      PROVE  [Published!Next]_(Published!vars)
  BY <1>4, InvisibleStep
     DEF EventDelivered, Deliver, DelayPasses, TimerFires, InformerResync
<1>5. ASSUME NEW k \in Keys, SecretChanges(k) PROVE [Published!Next]_(Published!vars)
  <2>1. \A j \in Keys \ {k} : Expected(j)' = Expected(j)
    BY <1>5, SameCachesSameVerdict DEF SecretChanges
  <2>2. Published!SourcesChange
    BY <1>5, <2>1, ChangeIsPublishing DEF SecretChanges
  <2> QED
    BY <2>2 DEF Published!Next
<1>6. CASE ProjectChanges \/ ShootChanges
  <2>1. Published!SourcesChange
    BY <1>6, ChangeIsPublishing DEF ProjectChanges, ShootChanges, controllerVars
  <2> QED
    BY <2>1 DEF Published!Next
<1>7. CASE Restart
  <2>1. \A j \in Keys : Expected(j)' = Expected(j)
    BY <1>7, SameCachesSameVerdict DEF Restart, clusterVars
  <2>2. Published!Restart
    BY <1>7, <2>1 DEF Restart, ControllerStart, Steps, Reads, Published!Restart
  <2> QED
    BY <2>2 DEF Published!Next
<1>8. CASE UNCHANGED vars
  BY <1>8, InvisibleStep DEF vars, controllerVars
<1> QED
  BY <1>1, <1>2, <1>3, <1>4, <1>5, <1>6, <1>7, <1>8 DEF Next

-----------------------------------------------------------------------------
(* The theorems. *)

\* The invariant holds throughout every behaviour of the reconciler.
THEOREM Invariance == Spec => []Inv
<1>1. Inv /\ [Next]_vars => Inv'
  BY NextType, NextValidated, NextTracked, NextCurrent, NextExact DEF Inv
<1> QED
  BY InitInv, <1>1, PTL DEF Spec

\* The variables of the reconciler have their types: in particular only
\* documents of a Secret are ever stored.
THEOREM TypeCorrect == Spec => []TypeOK
<1>1. Inv => TypeOK
  BY DEF Inv
<1> QED
  BY <1>1, Invariance, PTL

\* The bytes in the store have passed the checks of the documents.
THEOREM OnlyValidatedIsPublished == Spec => []PublishedWasValidated
<1>1. Inv => PublishedWasValidated
  BY DEF Inv
<1> QED
  BY <1>1, Invariance, PTL

\* Every published entry has its next reconciliation scheduled or running.
THEOREM PublishedIsTracked == Spec => []Tracked
<1>1. Inv => Tracked
  BY DEF Inv
<1> QED
  BY <1>1, Invariance, PTL

\* A published key at rest shows the Secret that is in the cache.
THEOREM UpdatesAreNotLost == Spec => []NoLostUpdate
<1>1. Inv => NoLostUpdate
  BY DEF Inv, NoLostUpdate, Tracked, AtRest, PassIsCurrent
<1> QED
  BY <1>1, Invariance, PTL

\* A pass that no cache change disturbed leaves the store as the caches say.
THEOREM UndisturbedPassIsExact == Spec => []FreshPassExact
<1>1. Inv => FreshPassExact
  BY DEF Inv, FreshPassExact, PassIsExact, TypeOK
<1> QED
  BY <1>1, Invariance, PTL

\* The reconciler does what Publishing promises: to the handlers, each of its
\* passes is one step.
THEOREM ImplementsPublishing == Spec => FollowsTheCaches
<1>1. Init => Published!Init
  BY InitPublishing
<1>2. Inv /\ Inv' /\ [Next]_vars => [Published!Next]_(Published!vars)
  BY NextPublishing
<1> QED
  BY <1>1, <1>2, Invariance, PTL DEF Spec, FollowsTheCaches, Published!Spec
=============================================================================
