------------------------------ MODULE OpenIDMeta ------------------------------
(***************************************************************************)
(* The shoot-openid-metadata reconciler: it publishes the OpenID           *)
(* configuration and the key set that a Secret holds for a shoot cluster,  *)
(* under the name of the Secret, in the store the HTTP handlers read.      *)
(*                                                                         *)
(* A pass of Reconcile reads the Secret, then the Project, then the Shoot, *)
(* each from an informer cache that may change between the reads, and      *)
(* then either writes the entry, deletes it or fails.  Each of these is a  *)
(* step of its own, because passes over other Secrets and changes of the   *)
(* cluster happen in between.                                              *)
(*                                                                         *)
(*  secret    the Secret cache: a Secret per name, or NotFound             *)
(*  project   the Project cache: spec.namespace per project, Unset if it   *)
(*            is nil, or NotFound                                          *)
(*  shoot     the Shoot cache: UID and managed-issuer annotation per       *)
(*            <<namespace, name>>, or NotFound                             *)
(*  snap      what the running pass over k read from the Secret cache      *)
(*  store     the published entries, NoEntry if there is none              *)
(*  fresh     history: the keys in a pass since the start of which no      *)
(*            cache has changed                                            *)
(*  disturbed history: the number of cache changes, failed reads and       *)
(*            restarts so far, at most MaxDisturbances                     *)
(***************************************************************************)
EXTENDS Controller, Sequences

CONSTANTS
    SecretValues,     \* the Secrets the cluster may hold
    ProjectStates,    \* the contents the Project cache may have
    ShootStates,      \* the contents the Shoot cache may have
    MaxDisturbances,  \* bound on what the environment does
    NotFound,         \* no such object
    Unset,            \* a data key or label that is missing, a nil pointer
    NoEntry           \* the store has no entry

VARIABLES secret, project, shoot, snap, store, fresh, disturbed

clusterVars == <<secret, project, shoot>>
vars == <<controllerVars, clusterVars, snap, store, fresh, disturbed>>

\* openidmeta.Data: both documents come from one version of the Secret.
DataOf(s) == [config |-> s.config, jwks |-> s.jwks]
Data == {DataOf(s) : s \in SecretValues}

ASSUME OpenIDMetaAssumption ==
    /\ Keys \subseteq Seq(STRING)
    /\ NotFound \notin SecretValues
    /\ NoEntry \notin Data
    /\ MaxDisturbances \in Nat

Reads == {"getSecret", "getProject", "getShoot"}
Steps == Reads \cup {"write", "delete"}

TypeOK ==
    /\ ControllerTypeOK(Steps)
    /\ secret \in [Keys -> SecretValues \cup {NotFound}]
    /\ project \in ProjectStates
    /\ shoot \in ShootStates
    /\ snap \in [Keys -> SecretValues \cup {NotFound}]
    /\ store \in [Keys -> Data \cup {NoEntry}]
    /\ fresh \subseteq Keys
    /\ disturbed \in 0..MaxDisturbances

-----------------------------------------------------------------------------
(* The checks of Reconcile.  A key is the sequence of the parts of the     *)
(* Secret's name between the separators "--".                              *)

SplitProjectNameAndShootUID(k) == Len(k) = 2 /\ k[1] # "" /\ k[2] # ""

isRelevantSecret(s) == s # NotFound /\ s.public

\* Faulty variant: an update is judged by the new object alone.
UpdateJudgedByNewObject(old, new) == isRelevantSecret(new)

\* The predicate of the watch: create and delete events have one object,
\* update events two.
isRelevantSecretUpdate(old, new) == isRelevantSecret(new) \/ isRelevantSecret(old)

\* What is checked before another object is read.
SecretChecks(k, s) ==
    /\ s # NotFound
    /\ ~s.deleting
    /\ s.config # Unset
    /\ s.jwks # Unset
    /\ s.public
    /\ s.project # Unset
    /\ s.shootName # Unset
    /\ s.shootNamespace # Unset
    /\ SplitProjectNameAndShootUID(k)
    /\ s.project = k[1]

\* spec.namespace of a found Project; a nil one is no namespace.
ProjectChecks(s) ==
    /\ project[s.project] \notin {NotFound, Unset}
    /\ project[s.project] = s.shootNamespace

ShootOf(s) == shoot[<<s.shootNamespace, s.shootName>>]

\* Faulty variant: a shoot created again under the same name is accepted.
ShootChecksWithoutUID(k, s) == ShootOf(s) # NotFound /\ ShootOf(s).managed

ShootChecks(k, s) ==
    /\ ShootOf(s) # NotFound
    /\ ShootOf(s).uid = k[2]
    /\ ShootOf(s).managed

LoadOpenIDConfig(config) == config.parses /\ config.issuerHTTPS /\ config.jwksURIHTTPS

\* LoadKeySet unmarshals into a pointer: JSON null is no error, and leaves
\* no key set to range over.
LoadKeySet(jwks) == jwks.json

KeysArePublicAndValid(jwks) == \A key \in jwks.keys : key.public /\ key.valid

\* Where a pass goes when the Shoot has been read and checked.  Ranging over
\* the key set that is not there panics, which the controller recovers from.
AfterContentChecks(s) ==
    IF ~LoadOpenIDConfig(s.config) THEN "delete"
    ELSE IF LoadKeySet(s.jwks) = "null" THEN "rateLimited"
    ELSE IF LoadKeySet(s.jwks) = "keys" /\ KeysArePublicAndValid(s.jwks) THEN "write"
    ELSE "delete"

-----------------------------------------------------------------------------
(* The steps of Reconcile. *)

reconcilerUnchanged == UNCHANGED <<pending, queued, clusterVars, fresh, disturbed>>

Start(k) ==
    /\ Dequeue(k, "getSecret")
    /\ fresh' = fresh \cup {k}
    /\ UNCHANGED <<clusterVars, snap, store, disturbed>>

GetSecret(k) ==
    /\ pc[k] = "getSecret"
    /\ snap' = [snap EXCEPT ![k] = secret[k]]
    /\ Goto(k, IF SecretChecks(k, secret[k]) THEN "getProject" ELSE "delete")
    /\ UNCHANGED store
    /\ reconcilerUnchanged

GetProject(k) ==
    /\ pc[k] = "getProject"
    /\ Goto(k, IF ProjectChecks(snap[k]) THEN "getShoot" ELSE "delete")
    /\ UNCHANGED <<snap, store>>
    /\ reconcilerUnchanged

GetShoot(k) ==
    /\ pc[k] = "getShoot"
    /\ Goto(k, IF ShootChecks(k, snap[k]) THEN AfterContentChecks(snap[k]) ELSE "delete")
    /\ UNCHANGED <<snap, store>>
    /\ reconcilerUnchanged

\* Faulty variant: the error of a read is dropped.
GetErrorDropped(k) ==
    /\ pc[k] \in Reads
    /\ disturbed < MaxDisturbances
    /\ disturbed' = disturbed + 1
    /\ Goto(k, "forget")
    /\ UNCHANGED <<pending, queued, clusterVars, snap, store, fresh>>

\* A read fails with another error than not found: the informer of the
\* Project or the Shoot does not sync before the reconciliation timeout.
GetFails(k) ==
    /\ pc[k] \in Reads
    /\ disturbed < MaxDisturbances
    /\ disturbed' = disturbed + 1
    /\ Goto(k, "rateLimited")
    /\ UNCHANGED <<pending, queued, clusterVars, snap, store, fresh>>

\* Faulty variant: the pass that publishes asks for no resync.
WriteWithoutRequeue(k) ==
    /\ pc[k] = "write"
    /\ store' = [store EXCEPT ![k] = DataOf(snap[k])]
    /\ Goto(k, "forget")
    /\ UNCHANGED snap
    /\ reconcilerUnchanged

\* Faulty variant: the Secret is read again when the entry is written.
WriteRereadsSecret(k) ==
    /\ pc[k] = "write"
    /\ store' = [store EXCEPT ![k] =
                   DataOf(IF secret[k] = NotFound THEN snap[k] ELSE secret[k])]
    /\ Goto(k, "requeueAfter")
    /\ UNCHANGED snap
    /\ reconcilerUnchanged

\* Faulty variant: an update replaces the configuration only.
WriteKeepsJWKS(k) ==
    /\ pc[k] = "write"
    /\ store' = [store EXCEPT ![k] = [config |-> snap[k].config,
                   jwks |-> IF store[k] = NoEntry THEN snap[k].jwks ELSE store[k].jwks]]
    /\ Goto(k, "requeueAfter")
    /\ UNCHANGED snap
    /\ reconcilerUnchanged

WriteEntry(k) ==
    /\ pc[k] = "write"
    /\ store' = [store EXCEPT ![k] = DataOf(snap[k])]
    /\ Goto(k, "requeueAfter")
    /\ UNCHANGED snap
    /\ reconcilerUnchanged

\* Faulty variant: an empty entry is stored instead of none.
DeleteWritesEmptyData(k) ==
    /\ pc[k] = "delete"
    /\ store' = [store EXCEPT ![k] = [config |-> Unset, jwks |-> <<>>]]
    /\ Goto(k, "forget")
    /\ UNCHANGED snap
    /\ reconcilerUnchanged

DeleteEntry(k) ==
    /\ pc[k] = "delete"
    /\ store' = [store EXCEPT ![k] = NoEntry]
    /\ Goto(k, "forget")
    /\ UNCHANGED snap
    /\ reconcilerUnchanged

End(k) ==
    /\ Finish(k)
    /\ snap' = [snap EXCEPT ![k] = NotFound]
    /\ fresh' = fresh \ {k}
    /\ UNCHANGED <<clusterVars, store, disturbed>>

EventDelivered(k) ==
    /\ Deliver(k)
    /\ UNCHANGED <<clusterVars, snap, store, fresh, disturbed>>

DelayPasses(k) ==
    /\ TimerFires(k)
    /\ UNCHANGED <<clusterVars, snap, store, fresh, disturbed>>

-----------------------------------------------------------------------------
(* The cluster and the process. *)

\* A Secret is created, updated or deleted.  The watch is the only one the
\* controller has.
SecretChanges(k) ==
    /\ disturbed < MaxDisturbances
    /\ disturbed' = disturbed + 1
    /\ \E s \in (SecretValues \cup {NotFound}) \ {secret[k]} :
         /\ secret' = [secret EXCEPT ![k] = s]
         /\ Notify(k, isRelevantSecretUpdate(secret[k], s))
    /\ fresh' = fresh \ {k}
    /\ UNCHANGED <<queued, pc, project, shoot, snap, store>>

ProjectChanges ==
    /\ disturbed < MaxDisturbances
    /\ disturbed' = disturbed + 1
    /\ project' \in ProjectStates \ {project}
    /\ fresh' = {}
    /\ UNCHANGED <<controllerVars, secret, shoot, snap, store>>

ShootChanges ==
    /\ disturbed < MaxDisturbances
    /\ disturbed' = disturbed + 1
    /\ shoot' \in ShootStates \ {shoot}
    /\ fresh' = {}
    /\ UNCHANGED <<controllerVars, secret, project, snap, store>>

\* The informer repeats an update event for every cached object once in
\* its own resync period, ten hours by default.
InformerResync(k) ==
    /\ secret[k] # NotFound
    /\ pending[k] = 0
    /\ Notify(k, isRelevantSecretUpdate(secret[k], secret[k]))
    /\ UNCHANGED <<queued, pc, clusterVars, snap, store, fresh, disturbed>>

\* The process stops and starts again; nothing is persisted.
Restart ==
    /\ disturbed < MaxDisturbances
    /\ disturbed' = disturbed + 1
    /\ ControllerStart([k \in Keys |-> isRelevantSecret(secret[k])])
    /\ snap' = [k \in Keys |-> NotFound]
    /\ store' = [k \in Keys |-> NoEntry]
    /\ fresh' = {}
    /\ UNCHANGED clusterVars

Init ==
    /\ secret \in [Keys -> SecretValues \cup {NotFound}]
    /\ project \in ProjectStates
    /\ shoot \in ShootStates
    /\ pending = [k \in Keys |-> IF isRelevantSecret(secret[k]) THEN 1 ELSE 0]
    /\ queued = [k \in Keys |-> "no"]
    /\ pc = [k \in Keys |-> "idle"]
    /\ snap = [k \in Keys |-> NotFound]
    /\ store = [k \in Keys |-> NoEntry]
    /\ fresh = {}
    /\ disturbed = 0

Pass(k) ==
    \/ GetSecret(k)
    \/ GetProject(k)
    \/ GetShoot(k)
    \/ WriteEntry(k)
    \/ DeleteEntry(k)
    \/ End(k)

Next ==
    \/ \E k \in Keys :
         \/ Pass(k)
         \/ GetFails(k)
         \/ Start(k)
         \/ EventDelivered(k)
         \/ DelayPasses(k)
         \/ SecretChanges(k)
         \/ InformerResync(k)
    \/ ProjectChanges
    \/ ShootChanges
    \/ Restart

Spec == Init /\ [][Next]_vars

\* Workers run their passes, delays pass and events are delivered; the
\* queue is served in the order keys became ready, so a key that keeps
\* becoming startable is started.
FairSpec ==
    /\ Spec
    /\ \A k \in Keys :
         /\ WF_vars(Pass(k))
         /\ SF_vars(Start(k))
         /\ WF_vars(EventDelivered(k))
         /\ WF_vars(DelayPasses(k))

\* The informer's own resync happens as well.
InformerResyncs == \A k \in Keys : WF_vars(InformerResync(k))

-----------------------------------------------------------------------------
(* Properties.  ContentValid, SecretValid and Publishable say what may be  *)
(* published without reference to the steps of Reconcile.                  *)

ContentValid(data) ==
    /\ data.config # Unset
    /\ data.config.parses
    /\ data.config.issuerHTTPS
    /\ data.config.jwksURIHTTPS
    /\ data.jwks # Unset
    /\ data.jwks.json = "keys"
    /\ \A key \in data.jwks.keys : key.public /\ key.valid

SecretValidAs(k, s) ==
    /\ s # NotFound
    /\ s.public
    /\ ~s.deleting
    /\ k = <<s.project, k[2]>>
    /\ s.project \notin {"", Unset}
    /\ k[2] # ""
    /\ s.shootName # Unset
    /\ s.shootNamespace # Unset
    /\ ContentValid(DataOf(s))

SecretValid(k) == SecretValidAs(k, secret[k])

\* The project p claims the namespace that the Secret s names.
ClaimedBy(s, p) == p[s.project] # NotFound /\ p[s.project] = s.shootNamespace

\* The shoot that s names is the one that k names, and has a managed issuer.
OwnedBy(k, s, sh) ==
    LET owner == sh[<<s.shootNamespace, s.shootName>>]
    IN  owner # NotFound /\ owner.managed /\ owner.uid = k[2]

Publishable(k) == SecretValid(k) /\ ClaimedBy(secret[k], project) /\ OwnedBy(k, secret[k], shoot)

\* What may be published under k by anybody at any time.
Endorsed == [k \in Keys |->
    {DataOf(s) : s \in {t \in SecretValues :
        /\ SecretValidAs(k, t)
        /\ \E p \in ProjectStates : ClaimedBy(t, p)
        /\ \E sh \in ShootStates : OwnedBy(k, t, sh)}}]

Expected(k) == IF Publishable(k) THEN DataOf(secret[k]) ELSE NoEntry

\* Nothing is going to happen to k but the periodic resync.
AtRest(k) == pending[k] = 0 /\ queued[k] \in {"no", "resync"} /\ pc[k] = "idle"

\* Whatever is published is one version of a Secret of that very name, and of
\* that version every check held: those of the documents, of the project
\* that claims it and of the shoot with that UID.  The bytes Reconcile wrote
\* are the bytes it validated, although all of them may change in between.
PublishedWasValidated == \A k \in Keys : store[k] # NoEntry => store[k] \in Endorsed[k]

\* No update is lost: a published key for which no event is under way and no
\* pass is running shows the Secret as it is in the cache, however the
\* changes, the label that makes the watch see them, the events and the
\* passes were interleaved; and a pass is scheduled that will look at it
\* again.
NoLostUpdate ==
    \A k \in Keys : AtRest(k) /\ store[k] # NoEntry =>
        SecretValid(k) /\ store[k] = DataOf(secret[k]) /\ queued[k] = "resync"

\* A published key is looked at again: Reconcile has no watch on Projects
\* and Shoots, so the pass that publishes must leave the next one scheduled.
Tracked == \A k \in Keys : store[k] # NoEntry => queued[k] # "no" \/ pc[k] # "idle"

\* A pass during which no cache changed and that ends without an error
\* leaves in the store exactly what the three caches say.
FreshPassExact ==
    \A k \in fresh : pc[k] \in {"forget", "requeueAfter"} => store[k] = Expected(k)

\* To Publishing, a pass is one step: the one that writes or deletes.
Published == INSTANCE Publishing WITH
    Nothing <- NoEntry,
    expected <- [k \in Keys |-> Expected(k)],
    published <- store,
    passing <- {k \in Keys : pc[k] \in Steps},
    undisturbed <- {k \in fresh : pc[k] \in Steps}

\* The three reads and the write of a pass are one read of all caches and a
\* write, if no cache changes meanwhile; otherwise the pass leaves nothing
\* or what has been valid in each cache.  Nobody but a pass and a restart
\* changes an entry.
FollowsTheCaches == Published!Spec

\* When the cluster is quiet, everything that is no longer valid disappears
\* from the store, by the resync of Reconcile alone.
InvalidIsWithdrawn == <>[](\A k \in Keys : ~Publishable(k) => store[k] = NoEntry)

\* When the cluster is quiet the store becomes what the caches say, if the
\* informer resyncs: nothing else looks again at a Secret that was refused.
Converges == InformerResyncs => <>[](\A k \in Keys : store[k] = Expected(k))

-----------------------------------------------------------------------------
(* The inductive invariant: what the safety properties rest on, step by    *)
(* step of a pass.                                                         *)

\* The pass holds a Secret whose checks up to this step succeeded, and a
\* pass that asks for nothing has withdrawn the entry.
PassIsValidated(k) ==
    /\ pc[k] \in {"getProject", "getShoot", "write"} => SecretChecks(k, snap[k])
    /\ pc[k] \in {"getShoot", "write"} => \E p \in ProjectStates : ClaimedBy(snap[k], p)
    /\ pc[k] = "write" => \E sh \in ShootStates : OwnedBy(k, snap[k], sh)
    /\ pc[k] = "write" => ContentValid(DataOf(snap[k]))
    /\ pc[k] = "forget" => store[k] = NoEntry

\* As long as nothing is on its way to the queue, the pass works on the
\* Secret that is in the cache.  A key in a pass has no delay running.
PassIsCurrent(k) ==
    /\ pc[k] # "idle" => queued[k] \in {"no", "now"}
    /\ pending[k] = 0 /\ queued[k] \in {"no", "resync"} =>
         /\ pc[k] \in {"getProject", "getShoot", "write"} => snap[k] = secret[k]
         /\ pc[k] \in {"idle", "requeueAfter"} /\ store[k] # NoEntry =>
              SecretValid(k) /\ store[k] = DataOf(secret[k])

\* As long as no cache changed, the verdict of each step still holds.
PassIsExact(k) ==
    k \in fresh =>
        /\ pc[k] \in {"getProject", "getShoot", "write"} => snap[k] = secret[k]
        /\ pc[k] \in {"getShoot", "write"} => ProjectChecks(snap[k])
        /\ pc[k] = "write" => ShootChecks(k, snap[k])
        /\ pc[k] = "delete" => ~Publishable(k)
        /\ pc[k] \in {"forget", "requeueAfter"} => store[k] = Expected(k)

Inv ==
    /\ TypeOK
    /\ PublishedWasValidated
    /\ Tracked
    /\ \A k \in Keys : PassIsValidated(k) /\ PassIsCurrent(k) /\ PassIsExact(k)
=============================================================================
