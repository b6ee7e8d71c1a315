---------------------- MODULE CertificatePublishingProofs ----------------------
(***************************************************************************)
(* The proof that the cluster-ca reconciler implements Publishing, for any *)
(* ConfigMaps, any contents of the caches, any number of workers and any   *)
(* number of disturbances.                                                 *)
(***************************************************************************)
EXTENDS CertificatePublishing, CertificateProofs

USE ControllerAssumption, CertificateAssumption

-----------------------------------------------------------------------------
(* The verdict of the caches. *)

\* A ConfigMap is published if and only if it passes the checks of all
\* steps, under the key that the steps have read.
LEMMA ChecksGiveExpected ==
    ASSUME TypeOK, NEW k \in Keys
    PROVE  LET c == configmap[k]
               name == namespace[k[1]]
               checked == /\ ConfigMapChecks(c)
                          /\ NamespaceChecks(k)
                          /\ project[name] \notin {NotFound, Unset} /\ project[name] = k[1]
                          /\ c.shootName # Unset /\ c.shootUID # Unset
                          /\ PEMChecks(c.ca)
                          /\ shoot[<<k[1], c.shootName>>] # NotFound
                          /\ shoot[<<k[1], c.shootName>>] = c.shootUID
           IN  Expected(k) = IF checked THEN <<name, c.shootUID>> ELSE EmptyKey
<1> DEFINE c == configmap[k]
           name == namespace[k[1]]
           d == <<name, c.shootUID>>
<1>1. name \in Projects \cup {Unset, NotFound} /\ Projects \cap {Unset, NotFound} = {}
  BY DEF TypeOK
<1>2. ConfigMapValid(k) => c \in ConfigMaps /\ c.shootUID \in UIDs
  BY ChecksAreValidity DEF TypeOK, ConfigMapChecks
<1>3. d[1] = name /\ d[2] = c.shootUID
  OBVIOUS
<1>4. CASE ConfigMapValid(k) /\ NamespaceChecks(k)
  <2>1. d \in DataKeys
    BY <1>1, <1>2, <1>4 DEF NamespaceChecks, DataKeys
  <2>2. c.shootUID # NotFound /\ k[1] \notin {NotFound, Unset}
    BY <1>2, <1>4
  <2> QED
    BY <1>3, <1>4, <2>1, <2>2, ChecksAreValidity DEF Expected, PublishableAs
<1>5. CASE ~ConfigMapValid(k)
  BY <1>5, ChecksAreValidity DEF Expected
<1>6. CASE ~NamespaceChecks(k)
  <2>1. d \notin DataKeys
    BY <1>1, <1>6 DEF NamespaceChecks, DataKeys
  <2> QED
    BY <1>6, <2>1 DEF Expected
<1> QED
  BY <1>4, <1>5, <1>6

\* The verdict depends on the four caches alone.
LEMMA SameCachesSameVerdict ==
    ASSUME NEW k \in Keys, configmap'[k] = configmap[k], UNCHANGED <<namespace, project, shoot>>
    PROVE  Expected(k)' = Expected(k)
BY DEF Expected, ConfigMapValid, PublishableAs

\* What the caches say may be published, before a step and after it.
LEMMA ExpectedIsEndorsed ==
    ASSUME NEW k \in Keys
    PROVE  /\ TypeOK => Expected(k) \in Endorsed[k] \cup {EmptyKey}
           /\ TypeOK' => Expected(k)' \in Endorsed[k] \cup {EmptyKey}
<1>1. ASSUME NEW c \in ConfigMapValues[k] \cup {NotFound}, NEW labels \in NamespaceStates,
             NEW p \in ProjectStates, NEW sh \in ShootStates, NEW d \in DataKeys,
             ValidConfigMap(c), d = <<labels[k[1]], c.shootUID>>,
             p[d[1]] = k[1], sh[<<k[1], c.shootName>>] = d[2]
      PROVE  d \in Endorsed[k]
  <2>1. c \in ConfigMapValues[k] /\ d[1] = labels[k[1]] /\ d[2] = c.shootUID
    BY <1>1 DEF ValidConfigMap
  <2>2. MayBeLabelled(k, d[1]) /\ MayBeClaimed(k, d[1]) /\ MayBeOwned(k, c)
    BY <1>1, <2>1 DEF MayBeLabelled, MayBeClaimed, MayBeOwned
  <2>3. EndorsedAs(k, d, c)
    BY <1>1, <2>1, <2>2 DEF EndorsedAs
  <2> QED
    BY <1>1, <2>1, <2>3 DEF Endorsed
<1>2. TypeOK => Expected(k) \in Endorsed[k] \cup {EmptyKey}
  BY <1>1 DEF TypeOK, Expected, ConfigMapValid, PublishableAs
<1>3. TypeOK' => Expected(k)' \in Endorsed[k] \cup {EmptyKey}
  BY <1>1 DEF TypeOK, Expected, ConfigMapValid, PublishableAs
<1> QED
  BY <1>2, <1>3

-----------------------------------------------------------------------------
(* The inductive invariant of the reconciler with its history. *)

\* The history observes the reconciler and does not interfere with it.
LEMMA HistoryStep == [HistoryNext]_historyVars => [Next]_vars
BY DEF HistoryNext, historyVars

\* The pass over j goes on as it is.
LEMMA SamePassIsExact ==
    ASSUME NEW j \in Keys, PassIsExact(j), j \in fresh,
           pc'[j] = pc[j], snap'[j] = snap[j], projectName'[j] = projectName[j],
           configmap'[j] = configmap[j], UNCHANGED <<namespace, project, shoot>>
    PROVE  PassIsExact(j)'
BY SameCachesSameVerdict DEF PassIsExact, ProjectChecks, ShootChecks

\* Without a change of the caches the reads of a pass are as good as one
\* read of all four when it changes the mapping.
LEMMA NextExact ==
    ASSUME HistoryInv, [HistoryNext]_historyVars, NEW j \in Keys
    PROVE  PassIsExact(j)'
<1> SUFFICES ASSUME j \in fresh' PROVE PassIsExact(j)'
  BY DEF PassIsExact
<1> USE DEF HistoryInv, Inv, TypeOK, ControllerTypeOK, passVars, publishedVars
<1>1. CASE UNCHANGED historyVars
  BY <1>1, SamePassIsExact DEF historyVars, vars, controllerVars, clusterVars
<1>2. CASE HistoryNext
  <2>1. /\ pc'[j] \in BeforeMapping
        /\ pc[j] = "idle" \/ j \in fresh
        /\ configmap'[j] = configmap[j]
        /\ UNCHANGED <<namespace, project, shoot>>
    BY <1>2 DEF HistoryNext
  <2>2. Expected(j)' = Expected(j)
    BY <2>1, SameCachesSameVerdict
  <2>3. pc[j] # "idle" => PassIsExact(j) /\ j \in fresh
    BY <2>1
  <2>4. pc'[j] \notin Results \cup {"idle"}
    BY <2>1 DEF BeforeMapping, Steps, Reads, CriticalSections, Results
  <2>5. ASSUME Pass(j) PROVE PassIsExact(j)'
    <3> USE <2>1, <2>2, <2>3, <2>4 DEF Goto
    <3>1. CASE GetConfigMap(j)
      <4>1. ~ConfigMapChecks(configmap[j]) => Expected(j) = EmptyKey
        BY ChecksGiveExpected
      <4> QED
        BY <3>1, <4>1 DEF GetConfigMap, PassIsExact, Checked
    <3>2. CASE GetNamespace(j)
      <4>1. ~NamespaceChecks(j) => Expected(j) = EmptyKey
        BY ChecksGiveExpected
      <4> QED
        BY <3>2, <4>1 DEF GetNamespace, PassIsExact, Checked
    <3>3. CASE GetProject(j)
      <4>0. snap[j] = configmap[j] /\ projectName[j] = namespace[j[1]]
        BY <3>3 DEF GetProject, PassIsExact, Checked
      <4>1. ~ProjectChecks(j) => Expected(j) = EmptyKey
        <5>1. ProjectChecks(j) <=>
                /\ project[namespace[j[1]]] \notin {NotFound, Unset}
                /\ project[namespace[j[1]]] = j[1]
                /\ configmap[j].shootName # Unset
                /\ configmap[j].shootUID # Unset
          BY <4>0 DEF ProjectChecks
        <5> QED
          BY <5>1, ChecksGiveExpected
      <4> QED
        BY <3>3, <4>1 DEF GetProject, PassIsExact, ProjectChecks, Checked
    <3>4. CASE GetShoot(j)
      <4>0. snap[j] = configmap[j]
        BY <3>4 DEF GetShoot, PassIsExact, Checked
      <4>1. ~(ShootChecks(j) /\ PEMChecks(snap[j].ca)) => Expected(j) = EmptyKey
        BY <4>0, ChecksGiveExpected DEF ShootChecks
      <4> QED
        BY <3>4, <4>1 DEF GetShoot, PassIsExact, ProjectChecks, ShootChecks, Checked
    <3>5. CASE CreateMapping(j) \/ CreateWrites(j) \/ DeleteUnmaps(j) \/ End(j)
      BY <3>5 DEF CreateMapping, CreateWrites, DeleteUnmaps, End, Finish, BeforeMapping, Results
    <3>6. CASE DeleteMapping(j)
      BY <3>6 DEF DeleteMapping, PassIsExact, Checked
    <3> QED
      BY <2>5, <3>1, <3>2, <3>3, <3>4, <3>5, <3>6 DEF Pass
  <2>6. ASSUME Start(j) PROVE PassIsExact(j)'
    BY <2>1, <2>6 DEF Start, Dequeue, Goto, PassIsExact, Checked
  <2>7. ASSUME GetFails(j) PROVE PassIsExact(j)'
    BY <2>4, <2>7 DEF GetFails, Goto, Results
  <2>8. CASE pc'[j] = pc[j] /\ snap'[j] = snap[j] /\ projectName'[j] = projectName[j]
    BY <2>1, <2>3, <2>4, <2>8, SamePassIsExact
  <2>9. ASSUME NEW k \in Keys, Pass(k) \/ GetFails(k) \/ Start(k), k # j
        PROVE  pc'[j] = pc[j] /\ snap'[j] = snap[j] /\ projectName'[j] = projectName[j]
    BY <2>9 DEF Pass, GetConfigMap, GetNamespace, GetProject, GetShoot, CreateMapping,
                CreateWrites, DeleteMapping, DeleteUnmaps, End, Finish, GetFails, Start,
                Dequeue, Goto
  <2>10. ASSUME NEW k \in Keys,
                EventDelivered(k) \/ DelayPasses(k) \/ ConfigMapChanges(k) \/ InformerResync(k)
         PROVE  pc' = pc /\ snap' = snap /\ projectName' = projectName
    BY <2>10 DEF EventDelivered, Deliver, DelayPasses, TimerFires, ConfigMapChanges, InformerResync
  <2>11. CASE UnwatchedChanges
    BY <2>8, <2>11 DEF UnwatchedChanges, controllerVars
  <2>12. CASE Restart
    BY <2>4, <2>12 DEF Restart, ControllerStart
  <2> QED
    BY <1>2, <2>5, <2>6, <2>7, <2>8, <2>9, <2>10, <2>11, <2>12 DEF HistoryNext, Next
<1> QED
  BY <1>1, <1>2

\* The invariant holds throughout every behaviour with its history.
LEMMA HistoryInvariance == HistorySpec => []HistoryInv
<1>1. HistoryInit => Init
  BY DEF HistoryInit
<1>2. HistorySpec => []Inv
  BY <1>1, HistoryStep, Invariance, PTL DEF HistorySpec, Spec
<1>3. HistoryInit /\ Inv => HistoryInv
  BY DEF HistoryInit, HistoryInv, PassIsExact
<1>4. HistoryInv /\ Inv' /\ [HistoryNext]_historyVars => HistoryInv'
  <2> SUFFICES ASSUME HistoryInv, Inv', [HistoryNext]_historyVars PROVE HistoryInv'
    OBVIOUS
  <2>1. fresh' \subseteq Keys
    BY DEF HistoryInv, HistoryNext, historyVars
  <2> QED
    BY <2>1, NextExact DEF HistoryInv
<1> QED
  BY <1>2, <1>3, <1>4, PTL DEF HistorySpec

-----------------------------------------------------------------------------
(* The reconciler implements Publishing. *)

\* A process starts where Publishing does.
LEMMA InitPublishing == HistoryInit => Published!Init
<1> SUFFICES ASSUME HistoryInit PROVE Published!Init
  OBVIOUS
<1>1. \A k \in Keys : Expected(k) \in Endorsed[k] \cup {EmptyKey}
  BY InitType, ExpectedIsEndorsed DEF HistoryInit
<1> QED
  BY <1>1 DEF HistoryInit, Init, Published!Init, BeforeMapping, Steps, Reads, CriticalSections

\* A step that changes no mapping, moves no pass to its mapping or from its
\* start and leaves the caches alone is none of Publishing's.
LEMMA InvisibleStep ==
    ASSUME HistoryInv, HistoryNext, UNCHANGED <<clusterVars, storeMapping>>,
           \A k \in Keys : pc'[k] \in BeforeMapping <=> pc[k] \in BeforeMapping
    PROVE  UNCHANGED Published!vars
<1>1. \A k \in Keys : Expected(k)' = Expected(k)
  BY SameCachesSameVerdict DEF clusterVars
<1>2. \A k \in Keys : pc[k] = "idle" => pc'[k] \notin BeforeMapping
  BY DEF BeforeMapping, Steps, Reads, CriticalSections
<1>3. fresh' = fresh
  BY <1>2 DEF HistoryNext, HistoryInv, PassIsExact, clusterVars
<1> QED
  BY <1>1, <1>3 DEF Published!vars

\* A pass over k has mapped or unmapped or failed, and no other pass is
\* concerned.
LEMMA PassLeaves ==
    ASSUME HistoryInv, HistoryNext, UNCHANGED clusterVars, NEW k \in Keys,
           pc[k] \in BeforeMapping, NEW next \in Results \cup {"write"}, Goto(k, next)
    PROVE  Published!Leave(k)
<1>1. \A j \in Keys : Expected(j)' = Expected(j)
  BY SameCachesSameVerdict DEF clusterVars
<1>2. next \notin BeforeMapping
  BY DEF Results, BeforeMapping, Steps, Reads, CriticalSections
<1>3. \A j \in Keys : pc'[j] \in BeforeMapping <=> j # k /\ pc[j] \in BeforeMapping
  BY <1>2 DEF Goto, HistoryInv, Inv, TypeOK, ControllerTypeOK
<1>4. \A j \in Keys : pc[j] = "idle" => pc[j] \notin BeforeMapping
  BY DEF BeforeMapping, Steps, Reads, CriticalSections
<1>5. fresh' = fresh \ {k}
  BY <1>3, <1>4 DEF HistoryNext, HistoryInv, PassIsExact, clusterVars
<1> QED
  BY <1>1, <1>3, <1>5 DEF Published!Leave

\* The steps of a pass: the reads and the deletion of the entry are invisible,
\* and the change of the mapping is the pass.
LEMMA PassIsPublishing ==
    ASSUME HistoryInv, HistoryNext, NEW k \in Keys, Pass(k)
    PROVE  [Published!Next]_(Published!vars)
<1> USE DEF HistoryInv, Inv, TypeOK, ControllerTypeOK, publishedVars
<1>1. CASE GetConfigMap(k) \/ GetNamespace(k) \/ GetProject(k) \/ GetShoot(k) \/ DeleteMapping(k)
  BY <1>1, InvisibleStep
     DEF GetConfigMap, GetNamespace, GetProject, GetShoot, DeleteMapping, Goto,
         BeforeMapping, Steps, Reads, CriticalSections
<1>2. CASE CreateMapping(k)
  <2> DEFINE d == <<projectName[k], snap[k].shootUID>>
  <2>1. Published!Leave(k)
    BY <1>2, PassLeaves DEF CreateMapping, BeforeMapping, Steps
  <2>2. storeMapping' = [storeMapping EXCEPT ![k] = d]
    BY <1>2 DEF CreateMapping
  <2>3. CASE k \in fresh
    <3>1. /\ ConfigMapChecks(snap[k]) /\ PEMChecks(snap[k].ca)
          /\ snap[k].shootName # Unset /\ snap[k].shootUID # Unset
          /\ projectName[k] \in Projects
      BY <1>2 DEF CreateMapping, PassIsValidated, Checked
    <3>2. /\ snap[k] = configmap[k] /\ projectName[k] = namespace[k[1]]
          /\ ProjectChecks(k) /\ ShootChecks(k)
      BY <1>2, <2>3 DEF CreateMapping, PassIsExact, Checked
    <3>3. NamespaceChecks(k)
      BY <3>1, <3>2 DEF NamespaceChecks
    <3>4. Expected(k) = d
      BY <3>1, <3>2, <3>3, ChecksGiveExpected DEF ProjectChecks, ShootChecks
    <3> QED
      BY <2>1, <2>2, <2>3, <3>4 DEF Published!Settle, Published!Next
  <2>4. CASE k \notin fresh
    <3>1. d \in Endorsed[k]
      BY <1>2, SnapshotIsEndorsed DEF CreateMapping
    <3> QED
      BY <2>1, <2>2, <2>4, <3>1 DEF Published!SettleStale, Published!Next
  <2> QED
    BY <2>3, <2>4
<1>3. CASE CreateWrites(k)
  BY <1>3, InvisibleStep
     DEF CreateWrites, Goto, BeforeMapping, Steps, Reads, CriticalSections
<1>4. CASE DeleteUnmaps(k)
  <2>1. Published!Leave(k)
    BY <1>4, PassLeaves DEF DeleteUnmaps, BeforeMapping, Steps, CriticalSections, Results
  <2>2. storeMapping' = [storeMapping EXCEPT ![k] = EmptyKey]
    BY <1>4 DEF DeleteUnmaps
  <2>3. CASE k \in fresh
    <3>1. Expected(k) = EmptyKey
      BY <1>4, <2>3 DEF DeleteUnmaps, PassIsExact
    <3> QED
      BY <2>1, <2>2, <2>3, <3>1 DEF Published!Settle, Published!Next
  <2>4. CASE k \notin fresh
    BY <2>1, <2>2, <2>4 DEF Published!SettleStale, Published!Next
  <2> QED
    BY <2>3, <2>4
<1>5. CASE End(k)
  BY <1>5, InvisibleStep
     DEF End, Finish, Goto, Results, BeforeMapping, Steps, Reads, CriticalSections
<1> QED
  BY <1>1, <1>2, <1>3, <1>4, <1>5 DEF Pass

\* A change of the caches disturbs every pass it can matter to.
LEMMA ChangeIsPublishing ==
    ASSUME HistoryInv, Inv', HistoryNext, UNCHANGED <<pc, storeMapping>>
    PROVE  Published!SourcesChange
<1>1. \A k \in Keys : Expected(k)' \in Endorsed[k] \cup {EmptyKey}
  BY ExpectedIsEndorsed DEF Inv
<1>2. \A k \in fresh' : k \in fresh /\ Expected(k)' = Expected(k)
  <2> SUFFICES ASSUME NEW k \in fresh' PROVE k \in fresh /\ Expected(k)' = Expected(k)
    OBVIOUS
  <2>1. k \in Keys /\ configmap'[k] = configmap[k] /\ UNCHANGED <<namespace, project, shoot>>
    BY DEF HistoryNext
  <2>2. pc'[k] = pc[k] /\ pc'[k] \in BeforeMapping /\ (pc[k] = "idle" \/ k \in fresh)
    BY DEF HistoryNext
  <2>3. pc[k] # "idle"
    BY <2>2 DEF BeforeMapping, Steps, Reads, CriticalSections
  <2> QED
    BY <2>1, <2>2, <2>3, SameCachesSameVerdict
<1> QED
  BY <1>1, <1>2 DEF Published!SourcesChange, HistoryInv

\* Every step of the reconciler is one of Publishing, or invisible to it.
LEMMA NextPublishing ==
    ASSUME HistoryInv, HistoryInv', [HistoryNext]_historyVars
    PROVE  [Published!Next]_(Published!vars)
<1> USE DEF HistoryInv, Inv, TypeOK, ControllerTypeOK, publishedVars
<1>1. CASE UNCHANGED historyVars
  <2>1. \A j \in Keys : Expected(j)' = Expected(j)
    BY <1>1, SameCachesSameVerdict DEF historyVars, vars, clusterVars
  <2> QED
    BY <1>1, <2>1 DEF historyVars, vars, controllerVars, Published!vars
<1>2. CASE HistoryNext
  <2>1. ASSUME NEW k \in Keys, Pass(k) PROVE [Published!Next]_(Published!vars)
    BY <1>2, <2>1, PassIsPublishing
  <2>2. ASSUME NEW k \in Keys, GetFails(k) PROVE [Published!Next]_(Published!vars)
    <3>1. Published!Leave(k)
      BY <1>2, <2>2, PassLeaves DEF GetFails, Results, BeforeMapping, Steps, Reads
    <3> QED
      BY <2>2, <3>1 DEF GetFails, Published!Fail, Published!Next
  <2>3. ASSUME NEW k \in Keys, Start(k) PROVE [Published!Next]_(Published!vars)
    <3>1. \A j \in Keys : Expected(j)' = Expected(j)
      BY <2>3, SameCachesSameVerdict DEF Start, clusterVars
    <3>2. /\ pc[k] = "idle" /\ pc[k] \notin BeforeMapping
          /\ \A j \in Keys : pc'[j] \in BeforeMapping <=> j = k \/ pc[j] \in BeforeMapping
          /\ \A j \in Keys \ {k} : pc[j] = "idle" => pc'[j] \notin BeforeMapping
      BY <2>3 DEF Start, Dequeue, Goto, BeforeMapping, Steps, Reads, CriticalSections
    <3>3. fresh' = fresh \cup {k}
      BY <1>2, <2>3, <3>2 DEF HistoryNext, PassIsExact, Start, clusterVars
    <3>4. Published!Begin(k)
      BY <2>3, <3>1, <3>2, <3>3 DEF Start, Published!Begin
    <3> QED
      BY <3>4 DEF Published!Next
  <2>4. ASSUME NEW k \in Keys, EventDelivered(k) \/ DelayPasses(k) \/ InformerResync(k)
        PROVE  [Published!Next]_(Published!vars)
    BY <1>2, <2>4, InvisibleStep
       DEF EventDelivered, Deliver, DelayPasses, TimerFires, InformerResync
  <2>5. CASE (\E k \in Keys : ConfigMapChanges(k)) \/ UnwatchedChanges
    <3>1. Published!SourcesChange
      BY <1>2, <2>5, ChangeIsPublishing DEF ConfigMapChanges, UnwatchedChanges, controllerVars
    <3> QED
      BY <3>1 DEF Published!Next
  <2>6. CASE Restart
    <3>1. \A j \in Keys : Expected(j)' = Expected(j)
      BY <2>6, SameCachesSameVerdict DEF Restart, clusterVars
    <3>2. \A j \in Keys : pc'[j] \notin BeforeMapping
      BY <2>6 DEF Restart, ControllerStart, BeforeMapping, Steps, Reads, CriticalSections
    <3>3. fresh' = {}
      BY <1>2, <3>2 DEF HistoryNext
    <3>4. Published!Restart
      BY <2>6, <3>1, <3>2, <3>3 DEF Restart, Published!Restart
    <3> QED
      BY <3>4 DEF Published!Next
  <2> QED
    BY <1>2, <2>1, <2>2, <2>3, <2>4, <2>5, <2>6 DEF HistoryNext, Next
<1> QED
  BY <1>1, <1>2

-----------------------------------------------------------------------------
(* The theorems. *)

\* The reconciler does what Publishing promises: each of its passes maps or
\* unmaps in one step, and rightly if no cache changed during the pass.
THEOREM ImplementsPublishing == HistorySpec => FollowsTheCaches
<1>1. HistoryInv /\ HistoryInv' /\ [HistoryNext]_historyVars => [Published!Next]_(Published!vars)
  BY NextPublishing
<1> QED
  BY <1>1, InitPublishing, HistoryInvariance, PTL
     DEF HistorySpec, FollowsTheCaches, Published!Spec
=============================================================================
