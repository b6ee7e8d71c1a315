------------------------------ MODULE Certificate ------------------------------
(***************************************************************************)
(* The cluster-ca reconciler: it publishes the CA bundle that a ConfigMap  *)
(* holds for a shoot cluster.  The store is keyed by project name and      *)
(* shoot UID, which the name of the ConfigMap does not contain, so that    *)
(* the reconciler keeps a mapping from ConfigMaps to store keys to know    *)
(* what to delete when a ConfigMap is gone.  Mapping and entry are         *)
(* changed in two steps under one mutex, by any number of workers.         *)
(*                                                                         *)
(*  configmap, namespace, project, shoot   the informer caches: a          *)
(*               ConfigMap per <<namespace, name>>; the project label of   *)
(*               a namespace; spec.namespace of a project; the UID of a    *)
(*               shoot per <<namespace, name>>; NotFound for no object     *)
(*  snap         the ConfigMap the running pass over k has read            *)
(*  projectName  the project label the running pass over k has read        *)
(*  storeMapping the store key of each ConfigMap; EmptyKey, Go's "" for a  *)
(*               missing key, if it has none                               *)
(*  store        the published bundles, NoEntry if there is none           *)
(*  mutex        the key whose pass holds the reconciler's mutex, or       *)
(*               Unlocked                                                  *)
(*  disturbed    history: the number of cache changes, failed reads and    *)
(*               restarts so far, at most MaxDisturbances                  *)
(***************************************************************************)
EXTENDS Controller

CONSTANTS
    Projects,         \* names of projects
    UIDs,             \* UIDs of shoots
    ConfigMapValues,  \* the ConfigMaps the cluster may hold, per name
    NamespaceStates,  \* the contents the Namespace cache may have
    ProjectStates,    \* the contents the Project cache may have
    ShootStates,      \* the contents the Shoot cache may have
    MaxDisturbances,  \* bound on what the environment does
    NotFound,         \* no such object
    Unset,            \* a data key or label that is missing, a nil pointer
    EmptyKey,         \* the empty string as a store key
    NoEntry,          \* the store has no entry
    Unlocked          \* nobody holds the mutex

VARIABLES configmap, namespace, project, shoot,
          snap, projectName, storeMapping, store, mutex, disturbed

clusterVars == <<configmap, namespace, project, shoot>>
passVars == <<snap, projectName>>
publishedVars == <<storeMapping, store, mutex>>
vars == <<controllerVars, clusterVars, passVars, publishedVars, disturbed>>

\* Store keys: the project name and the shoot UID, joined by "--".
DataKeys == Projects \X UIDs

\* The payload is the JSON object with the bundle as its only field: the data
\* as it is, with the text outside of its PEM blocks.
Bundle(ca) == [certs |-> ca]

ConfigMaps == UNION {ConfigMapValues[k] : k \in Keys}
Bundles == {Bundle(c.ca) : c \in ConfigMaps}

ASSUME CertificateAssumption ==
    /\ NotFound \notin ConfigMaps
    /\ \A c \in ConfigMaps : c.shootUID \in UIDs \cup {Unset}
    /\ \A labels \in NamespaceStates : \A k \in Keys :
         labels[k[1]] \in Projects \cup {Unset, NotFound}
    /\ Projects \cap {Unset, NotFound} = {}
    /\ NotFound \notin UIDs
    /\ \A k \in Keys : k[1] \notin {Unset, NotFound}
    /\ EmptyKey \notin DataKeys
    /\ NoEntry \notin Bundles
    /\ Unlocked \notin Keys
    /\ MaxDisturbances \in Nat

Reads == {"getConfigMap", "getNamespace", "getProject", "getShoot"}
CriticalSections == {"write", "unmap"}
Steps == Reads \cup {"createMapping", "deleteMapping"} \cup CriticalSections

TypeOK ==
    /\ ControllerTypeOK(Steps)
    /\ configmap \in [Keys -> ConfigMaps \cup {NotFound}]
    /\ \A k \in Keys : configmap[k] \in ConfigMapValues[k] \cup {NotFound}
    /\ namespace \in NamespaceStates
    /\ project \in ProjectStates
    /\ shoot \in ShootStates
    /\ snap \in [Keys -> ConfigMaps \cup {NotFound}]
    /\ \A k \in Keys : snap[k] \in ConfigMapValues[k] \cup {NotFound}
    /\ projectName \in [Keys -> Projects \cup {Unset, NotFound}]
    /\ storeMapping \in [Keys -> DataKeys \cup {EmptyKey}]
    /\ store \in [DataKeys \cup {EmptyKey} -> Bundles \cup {NoEntry}]
    /\ mutex \in Keys \cup {Unlocked}
    /\ disturbed \in 0..MaxDisturbances

-----------------------------------------------------------------------------
(* The checks of Reconcile. *)

isRelevantConfigMap(c) == c # NotFound /\ c.public /\ c.restricted

\* Faulty variant: an update is judged by the new object alone.
UpdateJudgedByNewObject(old, new) == isRelevantConfigMap(new)

\* The predicate of the watch.
isRelevantConfigMapUpdate(old, new) == isRelevantConfigMap(new) \/ isRelevantConfigMap(old)

\* What is checked before another object is read.
ConfigMapChecks(c) ==
    /\ c # NotFound
    /\ ~c.deleting
    /\ c.ca # Unset
    /\ c.public
    /\ c.restricted

NamespaceChecks(k) == namespace[k[1]] \notin {NotFound, Unset}

\* The project of the namespace claims the namespace, and the ConfigMap
\* names a shoot.
ProjectChecks(k) ==
    /\ project[projectName[k]] \notin {NotFound, Unset}
    /\ project[projectName[k]] = k[1]
    /\ snap[k].shootName # Unset
    /\ snap[k].shootUID # Unset

\* Faulty variant: the certificates need not be those of CAs.
BlocksChecked(ca) == \A b \in ca.blocks : b.certificate /\ b.headers = 0 /\ b.parses

\* The loop over the PEM blocks.  pem.Decode skips what is outside of a block,
\* so that text there passes unchecked, and so does data without a block.
PEMChecks(ca) ==
    \A b \in ca.blocks : b.certificate /\ b.headers = 0 /\ b.parses /\ b.isCA

\* Faulty variant: a shoot created again under its name is accepted.
ShootChecksWithoutUID(k) == shoot[<<k[1], snap[k].shootName>>] # NotFound

ShootChecks(k) ==
    /\ shoot[<<k[1], snap[k].shootName>>] # NotFound
    /\ shoot[<<k[1], snap[k].shootName>>] = snap[k].shootUID

-----------------------------------------------------------------------------
(* The steps of Reconcile. *)

Start(k) ==
    /\ Dequeue(k, "getConfigMap")
    /\ UNCHANGED <<clusterVars, passVars, publishedVars, disturbed>>

GetConfigMap(k) ==
    /\ pc[k] = "getConfigMap"
    /\ snap' = [snap EXCEPT ![k] = configmap[k]]
    /\ Goto(k, IF ConfigMapChecks(configmap[k]) THEN "getNamespace" ELSE "deleteMapping")
    /\ UNCHANGED <<pending, queued, clusterVars, projectName, publishedVars, disturbed>>

GetNamespace(k) ==
    /\ pc[k] = "getNamespace"
    /\ projectName' = [projectName EXCEPT ![k] = namespace[k[1]]]
    /\ Goto(k, IF NamespaceChecks(k) THEN "getProject" ELSE "deleteMapping")
    /\ UNCHANGED <<pending, queued, clusterVars, snap, publishedVars, disturbed>>

GetProject(k) ==
    /\ pc[k] = "getProject"
    /\ Goto(k, IF ProjectChecks(k) THEN "getShoot" ELSE "deleteMapping")
    /\ UNCHANGED <<pending, queued, clusterVars, passVars, publishedVars, disturbed>>

GetShoot(k) ==
    /\ pc[k] = "getShoot"
    /\ Goto(k, IF ShootChecks(k) /\ PEMChecks(snap[k].ca) THEN "createMapping" ELSE "deleteMapping")
    /\ UNCHANGED <<pending, queued, clusterVars, passVars, publishedVars, disturbed>>

\* Faulty variant: the error of a read is dropped.
GetErrorDropped(k) ==
    /\ pc[k] \in Reads
    /\ disturbed < MaxDisturbances
    /\ disturbed' = disturbed + 1
    /\ Goto(k, "forget")
    /\ UNCHANGED <<pending, queued, clusterVars, passVars, publishedVars>>

\* A read fails with another error than not found.
GetFails(k) ==
    /\ pc[k] \in Reads
    /\ disturbed < MaxDisturbances
    /\ disturbed' = disturbed + 1
    /\ Goto(k, "rateLimited")
    /\ UNCHANGED <<pending, queued, clusterVars, passVars, publishedVars>>

\* createMapping locks the mutex and maps the ConfigMap to its store key,
\* whatever it was mapped to before.
CreateMapping(k) ==
    /\ pc[k] = "createMapping"
    /\ mutex = Unlocked
    /\ mutex' = k
    /\ storeMapping' = [storeMapping EXCEPT ![k] = <<projectName[k], snap[k].shootUID>>]
    /\ Goto(k, "write")
    /\ UNCHANGED <<pending, queued, clusterVars, passVars, store, disturbed>>

\* Faulty variant: the pass that publishes asks for no resync.
WriteWithoutRequeue(k) ==
    /\ pc[k] = "write"
    /\ store' = [store EXCEPT ![storeMapping[k]] = Bundle(snap[k].ca)]
    /\ mutex' = Unlocked
    /\ Goto(k, "forget")
    /\ UNCHANGED <<pending, queued, clusterVars, passVars, storeMapping, disturbed>>

\* Faulty variant: the bundle is stored as it is, not as a JSON payload.
WriteBareBundle(k) ==
    /\ pc[k] = "write"
    /\ store' = [store EXCEPT ![storeMapping[k]] = snap[k].ca]
    /\ mutex' = Unlocked
    /\ Goto(k, "requeueAfter")
    /\ UNCHANGED <<pending, queued, clusterVars, passVars, storeMapping, disturbed>>

\* Then it writes the entry and unlocks.
CreateWrites(k) ==
    /\ pc[k] = "write"
    /\ store' = [store EXCEPT ![storeMapping[k]] = Bundle(snap[k].ca)]
    /\ mutex' = Unlocked
    /\ Goto(k, "requeueAfter")
    /\ UNCHANGED <<pending, queued, clusterVars, passVars, storeMapping, disturbed>>

\* Faulty variant: the mutex is not taken.
DeleteMappingUnlocked(k) ==
    /\ pc[k] = "deleteMapping"
    /\ mutex' = k
    /\ store' = [store EXCEPT ![storeMapping[k]] = NoEntry]
    /\ Goto(k, "unmap")
    /\ UNCHANGED <<pending, queued, clusterVars, passVars, storeMapping, disturbed>>

\* Faulty variant: the mapping is removed before it is used.
DeleteMappingUnmapsFirst(k) ==
    /\ pc[k] = "deleteMapping"
    /\ mutex = Unlocked
    /\ mutex' = k
    /\ storeMapping' = [storeMapping EXCEPT ![k] = EmptyKey]
    /\ store' = [store EXCEPT ![storeMapping'[k]] = NoEntry]
    /\ Goto(k, "unmap")
    /\ UNCHANGED <<pending, queued, clusterVars, passVars, disturbed>>

\* deleteMapping locks the mutex and deletes the entry the ConfigMap is
\* mapped to, which is the entry of the empty key if it is not mapped.
DeleteMapping(k) ==
    /\ pc[k] = "deleteMapping"
    /\ mutex = Unlocked
    /\ mutex' = k
    /\ store' = [store EXCEPT ![storeMapping[k]] = NoEntry]
    /\ Goto(k, "unmap")
    /\ UNCHANGED <<pending, queued, clusterVars, passVars, storeMapping, disturbed>>

\* Then it removes the mapping and unlocks.
DeleteUnmaps(k) ==
    /\ pc[k] = "unmap"
    /\ storeMapping' = [storeMapping EXCEPT ![k] = EmptyKey]
    /\ mutex' = Unlocked
    /\ Goto(k, "forget")
    /\ UNCHANGED <<pending, queued, clusterVars, passVars, store, disturbed>>

End(k) ==
    /\ Finish(k)
    /\ snap' = [snap EXCEPT ![k] = NotFound]
    /\ projectName' = [projectName EXCEPT ![k] = Unset]
    /\ UNCHANGED <<clusterVars, publishedVars, disturbed>>

EventDelivered(k) ==
    /\ Deliver(k)
    /\ UNCHANGED <<clusterVars, passVars, publishedVars, disturbed>>

DelayPasses(k) ==
    /\ TimerFires(k)
    /\ UNCHANGED <<clusterVars, passVars, publishedVars, disturbed>>

-----------------------------------------------------------------------------
(* The cluster and the process. *)

\* A ConfigMap is created, updated or deleted.
ConfigMapChanges(k) ==
    /\ disturbed < MaxDisturbances
    /\ disturbed' = disturbed + 1
    /\ \E c \in (ConfigMapValues[k] \cup {NotFound}) \ {configmap[k]} :
         /\ configmap' = [configmap EXCEPT ![k] = c]
         /\ Notify(k, isRelevantConfigMapUpdate(configmap[k], c))
    /\ UNCHANGED <<queued, pc, namespace, project, shoot, passVars, publishedVars>>

\* A namespace, a project or a shoot changes: nothing watches them.
UnwatchedChanges ==
    /\ disturbed < MaxDisturbances
    /\ disturbed' = disturbed + 1
    /\ \/ namespace' \in NamespaceStates \ {namespace} /\ UNCHANGED <<project, shoot>>
       \/ project' \in ProjectStates \ {project} /\ UNCHANGED <<namespace, shoot>>
       \/ shoot' \in ShootStates \ {shoot} /\ UNCHANGED <<namespace, project>>
    /\ UNCHANGED <<controllerVars, configmap, passVars, publishedVars>>

\* The informer repeats an update event for every cached object once in
\* its own resync period, ten hours by default.
InformerResync(k) ==
    /\ configmap[k] # NotFound
    /\ pending[k] = 0
    /\ Notify(k, isRelevantConfigMapUpdate(configmap[k], configmap[k]))
    /\ UNCHANGED <<queued, pc, clusterVars, passVars, publishedVars, disturbed>>

\* The process stops and starts again; nothing is persisted.
Restart ==
    /\ disturbed < MaxDisturbances
    /\ disturbed' = disturbed + 1
    /\ ControllerStart([k \in Keys |-> isRelevantConfigMap(configmap[k])])
    /\ snap' = [k \in Keys |-> NotFound]
    /\ projectName' = [k \in Keys |-> Unset]
    /\ storeMapping' = [k \in Keys |-> EmptyKey]
    /\ store' = [d \in DataKeys \cup {EmptyKey} |-> NoEntry]
    /\ mutex' = Unlocked
    /\ UNCHANGED clusterVars

Init ==
    /\ configmap \in {cs \in [Keys -> ConfigMaps \cup {NotFound}] :
                        \A k \in Keys : cs[k] \in ConfigMapValues[k] \cup {NotFound}}
    /\ namespace \in NamespaceStates
    /\ project \in ProjectStates
    /\ shoot \in ShootStates
    /\ pending = [k \in Keys |-> IF isRelevantConfigMap(configmap[k]) THEN 1 ELSE 0]
    /\ queued = [k \in Keys |-> "no"]
    /\ pc = [k \in Keys |-> "idle"]
    /\ snap = [k \in Keys |-> NotFound]
    /\ projectName = [k \in Keys |-> Unset]
    /\ storeMapping = [k \in Keys |-> EmptyKey]
    /\ store = [d \in DataKeys \cup {EmptyKey} |-> NoEntry]
    /\ mutex = Unlocked
    /\ disturbed = 0

Pass(k) ==
    \/ GetConfigMap(k)
    \/ GetNamespace(k)
    \/ GetProject(k)
    \/ GetShoot(k)
    \/ CreateMapping(k)
    \/ CreateWrites(k)
    \/ DeleteMapping(k)
    \/ DeleteUnmaps(k)
    \/ End(k)

Next ==
    \/ \E k \in Keys :
         \/ Pass(k)
         \/ GetFails(k)
         \/ Start(k)
         \/ EventDelivered(k)
         \/ DelayPasses(k)
         \/ ConfigMapChanges(k)
         \/ InformerResync(k)
    \/ UnwatchedChanges
    \/ Restart

Spec == Init /\ [][Next]_vars

\* Workers run their passes, delays pass and events are delivered; the
\* queue and the mutex are served in order, so that a key that keeps
\* becoming startable starts and a waiting pass gets the lock.
FairSpec ==
    /\ Spec
    /\ \A k \in Keys :
         /\ SF_vars(Pass(k))
         /\ SF_vars(Start(k))
         /\ WF_vars(EventDelivered(k))
         /\ WF_vars(DelayPasses(k))

\* The informer's own resync happens as well.
InformerResyncs == \A k \in Keys : WF_vars(InformerResync(k))

-----------------------------------------------------------------------------
(* Properties.  BundleValid, ConfigMapValid, PublishableAs and EndorsedAs  *)
(* say what may be published without reference to the steps of Reconcile.  *)

\* Every PEM block of a valid bundle is a certificate of a CA.  Nothing is
\* said of the text outside of the blocks, which is published with them.
BundleValid(b) ==
    /\ b.certs # Unset
    /\ \A block \in b.certs.blocks :
         block.certificate /\ block.headers = 0 /\ block.parses /\ block.isCA

ValidConfigMap(c) ==
    /\ c # NotFound
    /\ c.public
    /\ c.restricted
    /\ ~c.deleting
    /\ c.shootName # Unset
    /\ c.shootUID # Unset
    /\ BundleValid(Bundle(c.ca))

ConfigMapValid(k) == ValidConfigMap(configmap[k])

\* The ConfigMap k is to be published under the store key d.
PublishableAs(k, d) ==
    /\ ConfigMapValid(k)
    /\ d[1] = namespace[k[1]]
    /\ project[d[1]] = k[1]
    /\ d[2] = configmap[k].shootUID
    /\ shoot[<<k[1], configmap[k].shootName>>] = d[2]

\* At some time the namespace of k has that project name, the project of that
\* name claims the namespace, and the shoot c names has the UID c carries.
MayBeLabelled(k, name) == \E labels \in NamespaceStates : labels[k[1]] = name
MayBeClaimed(k, name) == \E p \in ProjectStates : p[name] = k[1]
MayBeOwned(k, c) == \E sh \in ShootStates : sh[<<k[1], c.shootName>>] = c.shootUID

\* The version c of k may be published under d at some time.
EndorsedAs(k, d, c) ==
    /\ ValidConfigMap(c)
    /\ d[2] = c.shootUID
    /\ MayBeLabelled(k, d[1]) /\ MayBeClaimed(k, d[1]) /\ MayBeOwned(k, c)

\* The store keys that k may be mapped to at some time.
Endorsed == [k \in Keys |->
    {d \in DataKeys : \E c \in ConfigMapValues[k] : EndorsedAs(k, d, c)}]

\* Nothing is going to happen to k but the periodic resync.
AtRest(k) == pending[k] = 0 /\ queued[k] \in {"no", "resync"} /\ pc[k] = "idle"

\* No other ConfigMap can carry the shoot UID that k carries.
SoleCarrier(k) ==
    \A j \in Keys \ {k} : \A c \in ConfigMapValues[j] : c.shootUID # configmap[k].shootUID

\* Some ConfigMap is mapped to the store key d.
Mapped(d) == \E k \in Keys : storeMapping[k] = d

\* Whatever is served under a key is one version of a ConfigMap that may be
\* published under that very key: the bytes Reconcile wrote are the bytes it
\* validated, the UID is the one they came with, and the namespace, the
\* project and the shoot vouched for it.  No cluster is served the bundle of
\* another one, although all of them may change in between.
PublishedWasValidated ==
    \A d \in DataKeys : store[d] # NoEntry =>
        \E k \in Keys : \E c \in ConfigMapValues[k] :
            EndorsedAs(k, d, c) /\ store[d] = Bundle(c.ca)

\* storeMapping is a plain Go map: the passes of two workers are never both
\* between the first and the last access of their critical sections.
MappingAccessExclusive ==
    \A j, k \in Keys : {pc[j], pc[k]} \subseteq CriticalSections => j = k

\* A ConfigMap that is mapped is looked at again, since nothing watches the
\* namespace, the project and the shoot.
Tracked == \A k \in Keys : storeMapping[k] # EmptyKey => queued[k] # "no" \/ pc[k] # "idle"

\* No update is lost: a mapped ConfigMap for which no event is under way and
\* no pass is running is valid and mapped to the UID it carries, and if
\* nobody else carries that UID its bundle is the one that is served; and a
\* pass is scheduled that will look at it again.
NoLostUpdate ==
    \A k \in Keys : AtRest(k) /\ storeMapping[k] # EmptyKey =>
        /\ ConfigMapValid(k)
        /\ storeMapping[k][2] = configmap[k].shootUID
        /\ SoleCarrier(k) => store[storeMapping[k]] = Bundle(configmap[k].ca)
        /\ queued[k] = "resync"

\* A served entry loses its last mapping only when createMapping maps its
\* ConfigMap to another key.  An entry without a mapping can no longer be
\* deleted by anybody.
OrphanedOnlyByRemap ==
    [][\A d \in DataKeys : Mapped(d) /\ ~Mapped(d)' /\ store'[d] # NoEntry =>
         \E k \in Keys : storeMapping[k] = d /\ storeMapping'[k] \in DataKeys \ {d}]_vars

\* A served entry belongs to a ConfigMap that is mapped to it and has a pass
\* scheduled or running, which is what its withdrawal depends on.  The
\* exception are names whose ConfigMap may move from one key to another.
ServedIsTracked ==
    \A d \in DataKeys : store[d] # NoEntry =>
        \/ \E k \in Keys : storeMapping[k] = d /\ (queued[k] # "no" \/ pc[k] # "idle")
        \/ \E k \in Keys : d \in Endorsed[k] /\ Endorsed[k] # {d}

\* When the cluster is quiet, everything that is no longer valid disappears
\* from the store.
InvalidIsWithdrawn ==
    <>[](\A d \in DataKeys : store[d] # NoEntry => \E k \in Keys : PublishableAs(k, d))

\* A ConfigMap that shares its store key loses its entry when the other one
\* is withdrawn, and puts it back by its own resync.
MappedIsServed ==
    <>[](\A k \in Keys : storeMapping[k] # EmptyKey => store[storeMapping[k]] # NoEntry)

\* When the cluster is quiet, exactly the valid bundles are served, if the
\* informer resyncs.
Converges ==
    InformerResyncs =>
        <>[](\A d \in DataKeys :
               IF \E k \in Keys : PublishableAs(k, d)
               THEN \E k \in Keys : PublishableAs(k, d) /\ store[d] = Bundle(configmap[k].ca)
               ELSE store[d] = NoEntry)

-----------------------------------------------------------------------------
(* The inductive invariant: what the safety properties rest on, step by    *)
(* step of a pass.                                                         *)

Checked == {"getNamespace", "getProject", "getShoot", "createMapping", "write"}

\* The pass holds a ConfigMap whose checks up to this step succeeded; what
\* it deletes is deleted before it is unmapped.
PassIsValidated(k) ==
    /\ pc[k] \in Checked => ConfigMapChecks(snap[k])
    /\ pc[k] \in {"getProject", "getShoot", "createMapping", "write"} => projectName[k] \in Projects
    /\ pc[k] \in {"getShoot", "createMapping", "write"} =>
         snap[k].shootName # Unset /\ snap[k].shootUID # Unset
    /\ pc[k] \in {"createMapping", "write"} => PEMChecks(snap[k].ca)
    /\ pc[k] = "write" => storeMapping[k] = <<projectName[k], snap[k].shootUID>>
    /\ pc[k] = "unmap" => store[storeMapping[k]] = NoEntry
    /\ pc[k] = "forget" => storeMapping[k] = EmptyKey

\* The caches have vouched for what the pass has read.
PassIsEndorsed(k) ==
    /\ pc[k] \in {"getProject", "getShoot", "createMapping", "write"} =>
         MayBeLabelled(k, projectName[k])
    /\ pc[k] \in {"getShoot", "createMapping", "write"} => MayBeClaimed(k, projectName[k])
    /\ pc[k] \in {"createMapping", "write"} => MayBeOwned(k, snap[k])

MutexOK == \A k \in Keys : pc[k] \in CriticalSections <=> mutex = k

\* A ConfigMap is only mapped to a key it may be published under.
MappingOK(k) == storeMapping[k] # EmptyKey => storeMapping[k] \in Endorsed[k]

\* What NoLostUpdate claims of a key at rest.
ServedAsItIs(k) ==
    /\ ConfigMapValid(k)
    /\ storeMapping[k][2] = configmap[k].shootUID
    /\ SoleCarrier(k) => store[storeMapping[k]] = Bundle(configmap[k].ca)

\* As long as nothing is on its way to the queue, the pass works on the
\* ConfigMap that is in the cache.  A key in a pass has no delay running.
PassIsCurrent(k) ==
    /\ pc[k] # "idle" => queued[k] \in {"no", "now"}
    /\ pending[k] = 0 /\ queued[k] \in {"no", "resync"} =>
         /\ pc[k] \in Checked => snap[k] = configmap[k]
         /\ pc[k] \in {"idle", "requeueAfter"} /\ storeMapping[k] # EmptyKey => ServedAsItIs(k)

Inv ==
    /\ TypeOK
    /\ PublishedWasValidated
    /\ Tracked
    /\ ServedIsTracked
    /\ MutexOK
    /\ \A k \in Keys :
         /\ PassIsValidated(k) /\ PassIsEndorsed(k)
         /\ MappingOK(k) /\ PassIsCurrent(k)
=============================================================================
