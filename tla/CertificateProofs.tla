-------------------------- MODULE CertificateProofs ---------------------------
(***************************************************************************)
(* Proofs about Certificate, for any ConfigMaps, any contents of the       *)
(* caches, any number of workers and any number of disturbances.           *)
(***************************************************************************)
EXTENDS Certificate, TLAPS

USE ControllerAssumption, CertificateAssumption

-----------------------------------------------------------------------------
(* Type correctness. *)

\* The queue entry that a finished pass leaves is one the queue can hold.
LEMMA QueuedAfterType ==
    ASSUME NEW result \in Results, NEW entry \in {"no", "now", "retry", "resync"}
    PROVE  QueuedAfter(result, entry) \in {"no", "now", "retry", "resync"}
BY DEF QueuedAfter, Results

\* A ConfigMap of some name is a ConfigMap.
LEMMA ConfigMapValuesOf ==
    ASSUME NEW k \in Keys
    PROVE  ConfigMapValues[k] \subseteq ConfigMaps
BY DEF ConfigMaps

\* The key a pass maps its ConfigMap to names a project and a UID.
LEMMA StoreKeyOf ==
    ASSUME TypeOK, NEW k \in Keys, PassIsValidated(k), pc[k] = "createMapping"
    PROVE  <<projectName[k], snap[k].shootUID>> \in DataKeys
<1>1. snap[k] \in ConfigMaps /\ snap[k].shootUID # Unset /\ projectName[k] \in Projects
  BY DEF TypeOK, PassIsValidated, ConfigMapChecks, Checked
<1> QED
  BY <1>1 DEF DataKeys

\* The variables have their types when a process starts.
LEMMA InitType == Init => TypeOK
BY DEF Init, TypeOK, ControllerTypeOK

\* Every step keeps the variables in their types.  A pass that maps and
\* writes has found the ConfigMap, its project and its UID.
LEMMA NextType ==
    ASSUME TypeOK, \A k \in Keys : PassIsValidated(k), [Next]_vars
    PROVE  TypeOK'
<1> USE DEF TypeOK, ControllerTypeOK, Steps, Reads, CriticalSections, Results,
            clusterVars, passVars, publishedVars
<1>1. ASSUME NEW k \in Keys, Pass(k) PROVE TypeOK'
  <2>1. CASE GetConfigMap(k)
    BY <2>1 DEF GetConfigMap, Goto
  <2>2. CASE GetNamespace(k)
    BY <2>2 DEF GetNamespace, Goto
  <2>3. CASE GetProject(k)
    BY <2>3 DEF GetProject, Goto
  <2>4. CASE GetShoot(k)
    BY <2>4 DEF GetShoot, Goto
  <2>5. CASE CreateMapping(k)
    BY <2>5, StoreKeyOf DEF CreateMapping, Goto
  <2>6. CASE CreateWrites(k)
    <3>1. Bundle(snap[k].ca) \in Bundles
      BY <2>6 DEF CreateWrites, PassIsValidated, ConfigMapChecks, Bundles, Checked
    <3> QED
      BY <2>6, <3>1 DEF CreateWrites, Goto
  <2>7. CASE DeleteMapping(k)
    BY <2>7 DEF DeleteMapping, Goto
  <2>8. CASE DeleteUnmaps(k)
    BY <2>8 DEF DeleteUnmaps, Goto
  <2>9. CASE End(k)
    BY <2>9, QueuedAfterType DEF End, Finish, Goto
  <2> QED
    BY <1>1, <2>1, <2>2, <2>3, <2>4, <2>5, <2>6, <2>7, <2>8, <2>9 DEF Pass
<1>2. ASSUME NEW k \in Keys, GetFails(k) PROVE TypeOK'
  BY <1>2 DEF GetFails, Goto
<1>3. ASSUME NEW k \in Keys, Start(k) PROVE TypeOK'
  BY <1>3 DEF Start, Dequeue, Goto
<1>4. ASSUME NEW k \in Keys, EventDelivered(k) PROVE TypeOK'
  BY <1>4 DEF EventDelivered, Deliver
<1>5. ASSUME NEW k \in Keys, DelayPasses(k) PROVE TypeOK'
  BY <1>5 DEF DelayPasses, TimerFires
<1>6. ASSUME NEW k \in Keys, ConfigMapChanges(k) PROVE TypeOK'
  BY <1>6, ConfigMapValuesOf DEF ConfigMapChanges, Notify
<1>7. ASSUME NEW k \in Keys, InformerResync(k) PROVE TypeOK'
  BY <1>7 DEF InformerResync, Notify
<1>8. CASE UnwatchedChanges
  BY <1>8 DEF UnwatchedChanges, controllerVars
<1>9. CASE Restart
  BY <1>9 DEF Restart, ControllerStart
<1>10. CASE UNCHANGED vars
  BY <1>10 DEF vars, controllerVars
<1> QED
  BY <1>1, <1>2, <1>3, <1>4, <1>5, <1>6, <1>7, <1>8, <1>9, <1>10 DEF Next

-----------------------------------------------------------------------------
(* What the checks of Reconcile mean. *)

\* The checks of one ConfigMap, together, are validity.
LEMMA ChecksAreValidity ==
    ASSUME NEW k \in Keys
    PROVE  ConfigMapValid(k) <=>
             /\ ConfigMapChecks(configmap[k])
             /\ configmap[k].shootName # Unset
             /\ configmap[k].shootUID # Unset
             /\ PEMChecks(configmap[k].ca)
BY DEF ConfigMapValid, ValidConfigMap, ConfigMapChecks, PEMChecks, BundleValid, Bundle

\* So they are for a ConfigMap that a pass read earlier.
LEMMA SnapshotIsValid ==
    ASSUME NEW c, ConfigMapChecks(c), c.shootName # Unset, c.shootUID # Unset, PEMChecks(c.ca)
    PROVE  ValidConfigMap(c)
BY DEF ValidConfigMap, ConfigMapChecks, PEMChecks, BundleValid, Bundle

\* A pass that has come to the mapping maps to what the ConfigMap may be
\* published under, and writes what it validated.
LEMMA SnapshotIsEndorsed ==
    ASSUME TypeOK, NEW k \in Keys, PassIsValidated(k), PassIsEndorsed(k),
           pc[k] \in {"createMapping", "write"}
    PROVE  /\ snap[k] \in ConfigMapValues[k]
           /\ <<projectName[k], snap[k].shootUID>> \in DataKeys
           /\ EndorsedAs(k, <<projectName[k], snap[k].shootUID>>, snap[k])
           /\ <<projectName[k], snap[k].shootUID>> \in Endorsed[k]
<1> DEFINE d == <<projectName[k], snap[k].shootUID>>
<1>1. ConfigMapChecks(snap[k]) /\ snap[k].shootUID # Unset /\ projectName[k] \in Projects
  BY DEF PassIsValidated, Checked
<1>2. snap[k] \in ConfigMapValues[k]
  BY <1>1 DEF TypeOK, ConfigMapChecks
<1>3. d \in DataKeys
  BY <1>1, <1>2, ConfigMapValuesOf DEF DataKeys
<1>4. EndorsedAs(k, d, snap[k])
  BY <1>1, SnapshotIsValid DEF PassIsValidated, PassIsEndorsed, EndorsedAs
<1>5. d \in Endorsed[k]
  BY <1>2, <1>3, <1>4 DEF Endorsed
<1> QED
  BY <1>2, <1>3, <1>4, <1>5

\* A ConfigMap that passes the checks is one whose changes the watch sees.
LEMMA ValidIsRelevant ==
    ASSUME NEW k \in Keys
    PROVE  /\ ConfigMapValid(k) => isRelevantConfigMap(configmap[k])
           /\ ConfigMapChecks(configmap[k]) => isRelevantConfigMap(configmap[k])
BY DEF ConfigMapValid, ValidConfigMap, ConfigMapChecks, isRelevantConfigMap

-----------------------------------------------------------------------------
(* The inductive invariant. *)

\* A process starts in the invariant: nothing is published, no pass runs.
LEMMA InitInv == Init => Inv
<1> SUFFICES ASSUME Init PROVE Inv
  OBVIOUS
<1>1. TypeOK
  BY InitType
<1>2. PublishedWasValidated /\ Tracked /\ MutexOK
  BY DEF Init, PublishedWasValidated, Tracked, MutexOK, CriticalSections
<1>s. ServedIsTracked
  BY DEF Init, ServedIsTracked
<1>3. ASSUME NEW k \in Keys
      PROVE /\ PassIsValidated(k) /\ PassIsEndorsed(k)
            /\ MappingOK(k) /\ PassIsCurrent(k)
  BY DEF Init, PassIsValidated, PassIsEndorsed, MappingOK, PassIsCurrent, Checked
<1> QED
  BY <1>1, <1>2, <1>s, <1>3 DEF Inv

\* The mutex is held by the pass in its critical section.
LEMMA NextMutex ==
    ASSUME Inv, [Next]_vars
    PROVE  MutexOK'
<1> USE DEF Inv, TypeOK, ControllerTypeOK, MutexOK, CriticalSections, publishedVars
<1>1. ASSUME NEW k \in Keys, Pass(k) PROVE MutexOK'
  <2>1. CASE GetConfigMap(k) \/ GetNamespace(k) \/ GetProject(k) \/ GetShoot(k)
    BY <2>1 DEF GetConfigMap, GetNamespace, GetProject, GetShoot, Goto
  <2>2. CASE CreateMapping(k) \/ CreateWrites(k)
    BY <2>2 DEF CreateMapping, CreateWrites, Goto
  <2>3. CASE DeleteMapping(k) \/ DeleteUnmaps(k)
    BY <2>3 DEF DeleteMapping, DeleteUnmaps, Goto
  <2>4. CASE End(k)
    BY <2>4 DEF End, Finish, Goto, Results
  <2> QED
    BY <1>1, <2>1, <2>2, <2>3, <2>4 DEF Pass
<1>2. ASSUME NEW k \in Keys, GetFails(k) \/ Start(k) PROVE MutexOK'
  BY <1>2 DEF GetFails, Start, Dequeue, Goto, Reads
<1>3. ASSUME NEW k \in Keys,
             \/ EventDelivered(k) \/ DelayPasses(k) \/ ConfigMapChanges(k) \/ InformerResync(k)
      PROVE  MutexOK'
  BY <1>3 DEF EventDelivered, Deliver, DelayPasses, TimerFires, ConfigMapChanges, InformerResync
<1>4. CASE UnwatchedChanges
  BY <1>4 DEF UnwatchedChanges, controllerVars
<1>5. CASE Restart
  BY <1>5 DEF Restart, ControllerStart
<1>6. CASE UNCHANGED vars
  BY <1>6 DEF vars, controllerVars
<1> QED
  BY <1>1, <1>2, <1>3, <1>4, <1>5, <1>6 DEF Next

\* What is written is what was validated, under the key of the mapping that
\* was just made; what is unmapped has been deleted.
LEMMA NextValidated ==
    ASSUME Inv, [Next]_vars
    PROVE  /\ PublishedWasValidated'
           /\ \A j \in Keys : PassIsValidated(j)' /\ MappingOK(j)'
<1> USE DEF Inv, TypeOK, ControllerTypeOK, PublishedWasValidated, passVars, publishedVars
<1> DEFINE Goal == /\ PublishedWasValidated'
                   /\ \A j \in Keys : PassIsValidated(j)' /\ MappingOK(j)'
<1>1. ASSUME NEW k \in Keys, Pass(k) PROVE Goal
  <2>1. CASE GetConfigMap(k)
    BY <2>1 DEF GetConfigMap, Goto, PassIsValidated, MappingOK, Checked
  <2>2. CASE GetNamespace(k)
    <3>1. NamespaceChecks(k) => namespace[k[1]] \in Projects
      BY DEF NamespaceChecks
    <3> QED
      BY <2>2, <3>1 DEF GetNamespace, Goto, PassIsValidated, MappingOK, Checked
  <2>3. CASE GetProject(k)
    BY <2>3 DEF GetProject, Goto, PassIsValidated, MappingOK, Checked, ProjectChecks
  <2>4. CASE GetShoot(k)
    BY <2>4 DEF GetShoot, Goto, PassIsValidated, MappingOK, Checked
  <2>5. CASE CreateMapping(k)
    <3>1. <<projectName[k], snap[k].shootUID>> \in Endorsed[k]
      BY <2>5, SnapshotIsEndorsed DEF CreateMapping
    <3>2. \A j \in Keys : pc[j] \notin CriticalSections
      BY <2>5 DEF CreateMapping, MutexOK
    <3>3. \A j \in Keys : PassIsValidated(j)'
      BY <2>5, <3>2 DEF CreateMapping, Goto, PassIsValidated, Checked, CriticalSections
    <3>4. \A j \in Keys : MappingOK(j)'
      BY <2>5, <3>1 DEF CreateMapping, MappingOK
    <3>5. PublishedWasValidated'
      BY <2>5 DEF CreateMapping
    <3> QED
      BY <3>3, <3>4, <3>5
  <2>6. CASE CreateWrites(k)
    <3>0. pc[k] = "write" /\ storeMapping[k] = <<projectName[k], snap[k].shootUID>>
      BY <2>6 DEF CreateWrites, PassIsValidated
    <3>1. /\ snap[k] \in ConfigMapValues[k]
          /\ EndorsedAs(k, storeMapping[k], snap[k])
      BY <3>0, SnapshotIsEndorsed
    <3>2. \A j \in Keys : j # k => pc[j] \notin CriticalSections
      BY <2>6 DEF CreateWrites, MutexOK, CriticalSections
    <3>3. \A j \in Keys : PassIsValidated(j)' /\ MappingOK(j)'
      BY <2>6, <3>2 DEF CreateWrites, Goto, PassIsValidated, MappingOK, Checked, CriticalSections
    <3>4. PublishedWasValidated'
      BY <2>6, <3>1 DEF CreateWrites
    <3> QED
      BY <3>3, <3>4
  <2>7. CASE DeleteMapping(k)
    <3>1. \A j \in Keys : pc[j] \notin CriticalSections
      BY <2>7 DEF DeleteMapping, MutexOK
    <3> QED
      BY <2>7, <3>1 DEF DeleteMapping, Goto, PassIsValidated, MappingOK, Checked, CriticalSections
  <2>8. CASE DeleteUnmaps(k)
    <3>1. \A j \in Keys : j # k => pc[j] \notin CriticalSections
      BY <2>8 DEF DeleteUnmaps, MutexOK, CriticalSections
    <3> QED
      BY <2>8, <3>1 DEF DeleteUnmaps, Goto, PassIsValidated, MappingOK, Checked, CriticalSections
  <2>9. CASE End(k)
    BY <2>9 DEF End, Finish, Goto, Results, PassIsValidated, MappingOK, Checked
  <2> QED
    BY <1>1, <2>1, <2>2, <2>3, <2>4, <2>5, <2>6, <2>7, <2>8, <2>9 DEF Pass
<1>2. ASSUME NEW k \in Keys, GetFails(k) \/ Start(k) PROVE Goal
  BY <1>2 DEF GetFails, Start, Dequeue, Goto, PassIsValidated, MappingOK, Checked
<1>3. ASSUME NEW k \in Keys,
             \/ EventDelivered(k) \/ DelayPasses(k) \/ ConfigMapChanges(k) \/ InformerResync(k)
      PROVE  Goal
  BY <1>3 DEF EventDelivered, Deliver, DelayPasses, TimerFires, ConfigMapChanges, InformerResync,
              PassIsValidated, MappingOK
<1>4. CASE UnwatchedChanges
  BY <1>4 DEF UnwatchedChanges, controllerVars, PassIsValidated, MappingOK
<1>5. CASE Restart
  BY <1>5 DEF Restart, ControllerStart, PassIsValidated, MappingOK, Checked
<1>6. CASE UNCHANGED vars
  BY <1>6 DEF vars, controllerVars, PassIsValidated, MappingOK
<1> QED
  BY <1>1, <1>2, <1>3, <1>4, <1>5, <1>6 DEF Next

\* What vouches for a pass is a state of a cache that it has read.
LEMMA NextEndorsed ==
    ASSUME Inv, [Next]_vars, NEW j \in Keys
    PROVE  PassIsEndorsed(j)'
<1> USE DEF Inv, TypeOK, ControllerTypeOK, PassIsEndorsed, passVars, publishedVars
<1>1. ASSUME NEW k \in Keys, Pass(k) PROVE PassIsEndorsed(j)'
  <2>1. CASE GetConfigMap(k)
    BY <2>1 DEF GetConfigMap, Goto
  <2>2. CASE GetNamespace(k)
    <3>1. MayBeLabelled(k, namespace[k[1]])
      BY DEF MayBeLabelled
    <3> QED
      BY <2>2, <3>1 DEF GetNamespace, Goto
  <2>3. CASE GetProject(k)
    <3>1. ProjectChecks(k) => MayBeClaimed(k, projectName[k])
      BY DEF ProjectChecks, MayBeClaimed
    <3> QED
      BY <2>3, <3>1 DEF GetProject, Goto
  <2>4. CASE GetShoot(k)
    <3>1. ShootChecks(k) => MayBeOwned(k, snap[k])
      BY DEF ShootChecks, MayBeOwned
    <3> QED
      BY <2>4, <3>1 DEF GetShoot, Goto
  <2>5. CASE CreateMapping(k) \/ CreateWrites(k) \/ DeleteMapping(k) \/ DeleteUnmaps(k)
    BY <2>5 DEF CreateMapping, CreateWrites, DeleteMapping, DeleteUnmaps, Goto
  <2>6. CASE End(k)
    BY <2>6 DEF End, Finish, Goto
  <2> QED
    BY <1>1, <2>1, <2>2, <2>3, <2>4, <2>5, <2>6 DEF Pass
<1>2. ASSUME NEW k \in Keys, GetFails(k) \/ Start(k) PROVE PassIsEndorsed(j)'
  BY <1>2 DEF GetFails, Start, Dequeue, Goto
<1>3. ASSUME NEW k \in Keys,
             \/ EventDelivered(k) \/ DelayPasses(k) \/ ConfigMapChanges(k) \/ InformerResync(k)
      PROVE  PassIsEndorsed(j)'
  BY <1>3 DEF EventDelivered, Deliver, DelayPasses, TimerFires, ConfigMapChanges, InformerResync
<1>4. CASE UnwatchedChanges
  BY <1>4 DEF UnwatchedChanges, controllerVars
<1>5. CASE Restart
  BY <1>5 DEF Restart, ControllerStart
<1>6. CASE UNCHANGED vars
  BY <1>6 DEF vars, controllerVars
<1> QED
  BY <1>1, <1>2, <1>3, <1>4, <1>5, <1>6 DEF Next

\* A key leaves the queue only for a pass, and a pass ends without asking
\* for another one only when the ConfigMap is not mapped any more.
LEMMA NextTracked ==
    ASSUME Inv, [Next]_vars
    PROVE  Tracked'
<1> USE DEF Inv, TypeOK, ControllerTypeOK, Tracked, publishedVars
<1>1. ASSUME NEW k \in Keys, Pass(k) PROVE Tracked'
  <2>1. CASE GetConfigMap(k) \/ GetNamespace(k) \/ GetProject(k) \/ GetShoot(k)
    BY <2>1 DEF GetConfigMap, GetNamespace, GetProject, GetShoot, Goto
  <2>2. CASE CreateMapping(k) \/ CreateWrites(k) \/ DeleteMapping(k) \/ DeleteUnmaps(k)
    BY <2>2 DEF CreateMapping, CreateWrites, DeleteMapping, DeleteUnmaps, Goto
  <2>3. CASE End(k)
    <3>1. pc[k] = "forget" => storeMapping[k] = EmptyKey
      BY DEF PassIsValidated
    <3>2. pc[k] # "forget" => QueuedAfter(pc[k], queued[k]) # "no"
      BY <2>3 DEF End, Finish, QueuedAfter, Results
    <3> QED
      BY <2>3, <3>1, <3>2 DEF End, Finish, Goto
  <2> QED
    BY <1>1, <2>1, <2>2, <2>3 DEF Pass
<1>2. ASSUME NEW k \in Keys, GetFails(k) \/ Start(k) PROVE Tracked'
  BY <1>2 DEF GetFails, Start, Dequeue, Goto
<1>3. ASSUME NEW k \in Keys,
             \/ EventDelivered(k) \/ DelayPasses(k) \/ ConfigMapChanges(k) \/ InformerResync(k)
      PROVE  Tracked'
  BY <1>3 DEF EventDelivered, Deliver, DelayPasses, TimerFires, ConfigMapChanges, InformerResync
<1>4. CASE UnwatchedChanges
  BY <1>4 DEF UnwatchedChanges, controllerVars
<1>5. CASE Restart
  BY <1>5 DEF Restart, ControllerStart
<1>6. CASE UNCHANGED vars
  BY <1>6 DEF vars, controllerVars
<1> QED
  BY <1>1, <1>2, <1>3, <1>4, <1>5, <1>6 DEF Next

\* An entry and a mapping come and go together, but for a mapping that is
\* replaced by another one of the same ConfigMap.
LEMMA NextServed ==
    ASSUME Inv, [Next]_vars
    PROVE  ServedIsTracked'
<1> USE DEF Inv, TypeOK, ControllerTypeOK, ServedIsTracked, publishedVars
<1>1. ASSUME NEW k \in Keys, Pass(k) PROVE ServedIsTracked'
  <2>1. CASE GetConfigMap(k) \/ GetNamespace(k) \/ GetProject(k) \/ GetShoot(k)
    BY <2>1 DEF GetConfigMap, GetNamespace, GetProject, GetShoot, Goto
  <2>2. CASE CreateMapping(k)
    <3> DEFINE e == <<projectName[k], snap[k].shootUID>>
    <3>1. e \in Endorsed[k]
      BY <2>2, SnapshotIsEndorsed DEF CreateMapping
    <3>2. storeMapping[k] # EmptyKey => storeMapping[k] \in Endorsed[k]
      BY DEF MappingOK
    <3>3. \A d \in DataKeys : storeMapping[k] = d /\ d # e => d \in Endorsed[k] /\ Endorsed[k] # {d}
      BY <3>1, <3>2
    <3>4. pc'[k] # "idle" /\ storeMapping'[k] = e
      BY <2>2 DEF CreateMapping, Goto
    <3>5. /\ store' = store /\ queued' = queued
          /\ \A j \in Keys \ {k} : storeMapping'[j] = storeMapping[j] /\ pc'[j] = pc[j]
      BY <2>2 DEF CreateMapping, Goto
    <3> HIDE DEF e
    <3> QED
      BY <3>3, <3>4, <3>5
  <2>3. CASE CreateWrites(k)
    BY <2>3 DEF CreateWrites, Goto
  <2>4. CASE DeleteMapping(k)
    BY <2>4 DEF DeleteMapping, Goto
  <2>5. CASE DeleteUnmaps(k)
    <3>1. store[storeMapping[k]] = NoEntry
      BY <2>5 DEF DeleteUnmaps, PassIsValidated
    <3> QED
      BY <2>5, <3>1 DEF DeleteUnmaps, Goto
  <2>6. CASE End(k)
    <3>1. pc[k] = "forget" => storeMapping[k] = EmptyKey
      BY DEF PassIsValidated
    <3>2. pc[k] # "forget" => QueuedAfter(pc[k], queued[k]) # "no"
      BY <2>6 DEF End, Finish, QueuedAfter, Results
    <3> QED
      BY <2>6, <3>1, <3>2 DEF End, Finish, Goto
  <2> QED
    BY <1>1, <2>1, <2>2, <2>3, <2>4, <2>5, <2>6 DEF Pass
<1>2. ASSUME NEW k \in Keys, GetFails(k) \/ Start(k) PROVE ServedIsTracked'
  BY <1>2 DEF GetFails, Start, Dequeue, Goto
<1>3. ASSUME NEW k \in Keys,
             \/ EventDelivered(k) \/ DelayPasses(k) \/ ConfigMapChanges(k) \/ InformerResync(k)
      PROVE  ServedIsTracked'
  BY <1>3 DEF EventDelivered, Deliver, DelayPasses, TimerFires, ConfigMapChanges, InformerResync
<1>4. CASE UnwatchedChanges
  BY <1>4 DEF UnwatchedChanges, controllerVars
<1>5. CASE Restart
  BY <1>5 DEF Restart, ControllerStart
<1>6. CASE UNCHANGED vars
  BY <1>6 DEF vars, controllerVars
<1> QED
  BY <1>1, <1>2, <1>3, <1>4, <1>5, <1>6 DEF Next

\* What is said about a ConfigMap and its entry depends on them alone.
LEMMA SameIsServedAsItIs ==
    ASSUME NEW j \in Keys, configmap'[j] = configmap[j], storeMapping'[j] = storeMapping[j],
           ServedAsItIs(j), SoleCarrier(j) => store'[storeMapping[j]] = store[storeMapping[j]]
    PROVE  ServedAsItIs(j)'
<1>1. ConfigMapValid(j)' <=> ConfigMapValid(j)
  BY DEF ConfigMapValid
<1>2. SoleCarrier(j)' <=> SoleCarrier(j)
  BY DEF SoleCarrier
<1> QED
  BY <1>1, <1>2 DEF ServedAsItIs, Bundle

\* Steps that leave a key, its ConfigMap and its entry alone.
LEMMA CurrentUndisturbed ==
    ASSUME NEW j \in Keys, PassIsCurrent(j), configmap'[j] = configmap[j],
           pc'[j] = pc[j], queued'[j] = queued[j], pending'[j] = 0 => pending[j] = 0,
           snap'[j] = snap[j], storeMapping'[j] = storeMapping[j],
           ServedAsItIs(j) /\ storeMapping[j] # EmptyKey /\ SoleCarrier(j) =>
             store'[storeMapping[j]] = store[storeMapping[j]]
    PROVE  PassIsCurrent(j)'
BY SameIsServedAsItIs DEF PassIsCurrent

\* The sole carrier of a UID shares its store key with no other ConfigMap.
LEMMA SoleCarrierOwnsKey ==
    ASSUME Inv, NEW j \in Keys, NEW k \in Keys, j # k, storeMapping[j] # EmptyKey,
           ServedAsItIs(j), SoleCarrier(j)
    PROVE  storeMapping[k] # storeMapping[j]
BY DEF Inv, MappingOK, Endorsed, EndorsedAs, SoleCarrier, ServedAsItIs

\* A change of the ConfigMap either is on its way to the queue or concerns
\* a ConfigMap that no pass works on and that is not mapped.
LEMMA NextCurrent ==
    ASSUME Inv, [Next]_vars, NEW j \in Keys
    PROVE  PassIsCurrent(j)'
<1> USE DEF Inv, TypeOK, ControllerTypeOK, passVars, publishedVars, clusterVars
<1>1. ASSUME NEW k \in Keys, Pass(k), k # j PROVE PassIsCurrent(j)'
  <2>1. /\ configmap'[j] = configmap[j] /\ pc'[j] = pc[j] /\ queued'[j] = queued[j]
        /\ pending'[j] = pending[j] /\ snap'[j] = snap[j] /\ storeMapping'[j] = storeMapping[j]
    BY <1>1 DEF Pass, GetConfigMap, GetNamespace, GetProject, GetShoot, CreateMapping,
                CreateWrites, DeleteMapping, DeleteUnmaps, End, Finish, Goto
  <2>2. storeMapping[j] # storeMapping[k] => store'[storeMapping[j]] = store[storeMapping[j]]
    BY <1>1 DEF Pass, GetConfigMap, GetNamespace, GetProject, GetShoot, CreateMapping,
                CreateWrites, DeleteMapping, DeleteUnmaps, End, Finish
  <2> QED
    BY <1>1, <2>1, <2>2, SoleCarrierOwnsKey, CurrentUndisturbed
<1>2. ASSUME Pass(j) PROVE PassIsCurrent(j)'
  <2>1. CASE GetConfigMap(j)
    BY <2>1 DEF GetConfigMap, Goto, PassIsCurrent, Checked
  <2>2. CASE GetNamespace(j)
    BY <2>2 DEF GetNamespace, Goto, PassIsCurrent, Checked
  <2>3. CASE GetProject(j)
    BY <2>3 DEF GetProject, Goto, PassIsCurrent, Checked
  <2>4. CASE GetShoot(j)
    BY <2>4 DEF GetShoot, Goto, PassIsCurrent, Checked
  <2>5. CASE CreateMapping(j)
    BY <2>5 DEF CreateMapping, Goto, PassIsCurrent, Checked
  <2>6. CASE CreateWrites(j)
    <3>1. snap[j] = configmap[j] => ConfigMapValid(j)
      BY <2>6, ChecksAreValidity DEF CreateWrites, PassIsValidated, Checked
    <3>2. storeMapping[j] = <<projectName[j], snap[j].shootUID>>
      BY <2>6 DEF CreateWrites, PassIsValidated
    <3>3. store'[storeMapping[j]] = Bundle(snap[j].ca)
      BY <2>6, <3>2 DEF CreateWrites
    <3>4. ConfigMapValid(j)' <=> ConfigMapValid(j)
      BY <2>6 DEF CreateWrites, ConfigMapValid
    <3>5. snap[j] = configmap[j] => ServedAsItIs(j)'
      BY <2>6, <3>1, <3>2, <3>3, <3>4 DEF CreateWrites, ServedAsItIs, Bundle
    <3> QED
      BY <2>6, <3>5 DEF CreateWrites, Goto, PassIsCurrent, Checked
  <2>7. CASE DeleteMapping(j)
    BY <2>7 DEF DeleteMapping, Goto, PassIsCurrent, Checked
  <2>8. CASE DeleteUnmaps(j)
    BY <2>8 DEF DeleteUnmaps, Goto, PassIsCurrent, Checked
  <2>9. CASE End(j)
    <3>1. queued[j] \in {"no", "now"}
      BY <2>9 DEF End, Finish, Results, PassIsCurrent
    <3>2. pc[j] = "forget" => storeMapping[j] = EmptyKey
      BY DEF PassIsValidated
    <3>3. pc[j] = "rateLimited" => QueuedAfter(pc[j], queued[j]) \in {"now", "retry"}
      BY DEF QueuedAfter
    <3>4. queued[j] = "now" => QueuedAfter(pc[j], queued[j]) = "now"
      BY DEF QueuedAfter
    <3>5. ServedAsItIs(j) => ServedAsItIs(j)'
      BY <2>9, SameIsServedAsItIs DEF End
    <3> QED
      BY <2>9, <3>1, <3>2, <3>3, <3>4, <3>5 DEF End, Finish, Goto, Results, PassIsCurrent, Checked
  <2> QED
    BY <1>2, <2>1, <2>2, <2>3, <2>4, <2>5, <2>6, <2>7, <2>8, <2>9 DEF Pass
<1>3. ASSUME NEW k \in Keys, GetFails(k) PROVE PassIsCurrent(j)'
  <2>1. CASE j = k
    BY <1>3, <2>1 DEF GetFails, Goto, Reads, PassIsCurrent, Checked
  <2>2. CASE j # k
    BY <1>3, <2>2, CurrentUndisturbed DEF GetFails, Goto
  <2> QED
    BY <2>1, <2>2
<1>4. ASSUME NEW k \in Keys, Start(k) PROVE PassIsCurrent(j)'
  <2>1. CASE j = k
    BY <1>4, <2>1 DEF Start, Dequeue, Goto, PassIsCurrent, Checked
  <2>2. CASE j # k
    BY <1>4, <2>2, CurrentUndisturbed DEF Start, Dequeue, Goto
  <2> QED
    BY <2>1, <2>2
<1>5. ASSUME NEW k \in Keys, EventDelivered(k) \/ DelayPasses(k) PROVE PassIsCurrent(j)'
  <2>1. CASE j = k
    BY <1>5, <2>1 DEF EventDelivered, Deliver, DelayPasses, TimerFires, PassIsCurrent
  <2>2. CASE j # k
    BY <1>5, <2>2, CurrentUndisturbed DEF EventDelivered, Deliver, DelayPasses, TimerFires
  <2> QED
    BY <2>1, <2>2
<1>6. ASSUME NEW k \in Keys, ConfigMapChanges(k) PROVE PassIsCurrent(j)'
  <2>1. CASE j # k
    BY <1>6, <2>1, CurrentUndisturbed DEF ConfigMapChanges, Notify
  <2>2. CASE j = k /\ isRelevantConfigMap(configmap[k])
    <3>1. pending'[k] > 0
      BY <1>6, <2>2 DEF ConfigMapChanges, Notify, isRelevantConfigMapUpdate
    <3> QED
      BY <1>6, <2>2, <3>1 DEF ConfigMapChanges, PassIsCurrent
  <2>3. CASE j = k /\ ~isRelevantConfigMap(configmap[k])
    <3>1. ~ConfigMapValid(k) /\ ~ConfigMapChecks(configmap[k])
      BY <2>3, ValidIsRelevant
    <3>2. pc[k] \in Checked => ConfigMapChecks(snap[k])
      BY DEF PassIsValidated
    <3>3. pending'[k] = 0 => pending[k] = 0
      BY <1>6 DEF ConfigMapChanges, Notify
    <3> QED
      BY <1>6, <2>3, <3>1, <3>2, <3>3 DEF ConfigMapChanges, PassIsCurrent, ServedAsItIs, Checked
  <2> QED
    BY <2>1, <2>2, <2>3
<1>7. ASSUME NEW k \in Keys, InformerResync(k) PROVE PassIsCurrent(j)'
  <2>1. pending'[j] = 0 => pending[j] = 0
    BY <1>7 DEF InformerResync, Notify
  <2> QED
    BY <1>7, <2>1, CurrentUndisturbed DEF InformerResync
<1>8. CASE UnwatchedChanges
  BY <1>8, CurrentUndisturbed DEF UnwatchedChanges, controllerVars
<1>9. CASE Restart
  BY <1>9 DEF Restart, ControllerStart, PassIsCurrent, Checked
<1>10. CASE UNCHANGED vars
  BY <1>10, CurrentUndisturbed DEF vars, controllerVars
<1> QED
  BY <1>1, <1>2, <1>3, <1>4, <1>5, <1>6, <1>7, <1>8, <1>9, <1>10 DEF Next

-----------------------------------------------------------------------------
(* The theorems. *)

\* The invariant holds throughout every behaviour of the reconciler.
THEOREM Invariance == Spec => []Inv
<1>1. Inv /\ [Next]_vars => Inv'
  BY NextType, NextMutex, NextValidated, NextEndorsed, NextTracked, NextServed, NextCurrent DEF Inv
<1> QED
  BY InitInv, <1>1, PTL DEF Spec

\* The variables of the reconciler have their types: in particular only
\* bundles of a ConfigMap are stored, under keys of a project and a UID.
THEOREM TypeCorrect == Spec => []TypeOK
<1>1. Inv => TypeOK
  BY DEF Inv
<1> QED
  BY <1>1, Invariance, PTL

\* A bundle in the store has passed the checks, and is served under the key
\* of a ConfigMap that holds it.
THEOREM OnlyValidatedIsPublished == Spec => []PublishedWasValidated
<1>1. Inv => PublishedWasValidated
  BY DEF Inv
<1> QED
  BY <1>1, Invariance, PTL

\* Every mapped ConfigMap has its next reconciliation scheduled or running.
THEOREM MappedIsTracked == Spec => []Tracked
<1>1. Inv => Tracked
  BY DEF Inv
<1> QED
  BY <1>1, Invariance, PTL

\* An entry that is served is withdrawn some time, unless its ConfigMap moves
\* to another key.
THEOREM ServedEntriesAreTracked == Spec => []ServedIsTracked
<1>1. Inv => ServedIsTracked
  BY DEF Inv
<1> QED
  BY <1>1, Invariance, PTL

\* The critical sections of any number of workers exclude each other.
THEOREM MappingIsLocked == Spec => []MappingAccessExclusive
<1>1. Inv => MappingAccessExclusive
  BY DEF Inv, MutexOK, MappingAccessExclusive
<1> QED
  BY <1>1, Invariance, PTL

\* A mapped ConfigMap at rest is served as it is in the cache, if nobody
\* else carries its UID.
THEOREM UpdatesAreNotLost == Spec => []NoLostUpdate
<1>1. Inv => NoLostUpdate
  BY DEF Inv, NoLostUpdate, Tracked, AtRest, PassIsCurrent, ServedAsItIs
<1> QED
  BY <1>1, Invariance, PTL

\* Only createMapping takes its last mapping from an entry that stays.
THEOREM OrphansComeFromRemaps == Spec => OrphanedOnlyByRemap
<1> DEFINE Remap(d) ==
      Mapped(d) /\ ~Mapped(d)' /\ store'[d] # NoEntry =>
        \E k \in Keys : storeMapping[k] = d /\ storeMapping'[k] \in DataKeys \ {d}
<1>1. ASSUME Inv, TypeOK', [Next]_vars PROVE \A d \in DataKeys : Remap(d)
  <2> SUFFICES ASSUME NEW d \in DataKeys, NEW k \in Keys, storeMapping[k] = d,
                      ~Mapped(d)', store'[d] # NoEntry
               PROVE  storeMapping'[k] \in DataKeys \ {d}
    BY DEF Mapped
  <2>1. storeMapping'[k] # d
    BY DEF Mapped
  <2>2. storeMapping'[k] # EmptyKey
    <3> USE <2>1 DEF Inv, TypeOK, ControllerTypeOK, publishedVars
    <3>1. ASSUME NEW j \in Keys, Pass(j) PROVE storeMapping'[k] # EmptyKey
      <4>1. CASE CreateMapping(j)
        BY <4>1, <1>1, StoreKeyOf DEF CreateMapping
      <4>2. CASE DeleteUnmaps(j)
        BY <4>2, <1>1 DEF DeleteUnmaps, PassIsValidated
      <4> QED
        BY <3>1, <4>1, <4>2 DEF Pass, GetConfigMap, GetNamespace, GetProject, GetShoot,
           CreateWrites, DeleteMapping, End
    <3>2. CASE Restart
      BY <3>2 DEF Restart
    <3>3. CASE UNCHANGED vars
      BY <3>3 DEF vars
    <3> QED
      BY <1>1, <3>1, <3>2, <3>3 DEF Next, GetFails, Start, EventDelivered, DelayPasses,
         ConfigMapChanges, InformerResync, UnwatchedChanges
  <2> QED
    BY <1>1, <2>1, <2>2 DEF TypeOK
<1>2. Inv /\ Inv' /\ [Next]_vars => [\A d \in DataKeys : Remap(d)]_vars
  BY <1>1 DEF Inv
<1> QED
  BY <1>2, Invariance, PTL DEF Spec, OrphanedOnlyByRemap
=============================================================================
