# Verification of the Gardener Discovery Server

TLA+ modules, TLC runs and TLAPS proofs about the Gardener Discovery Server:
the program that publishes, over HTTPS and without authentication, the OpenID
discovery documents and the CA bundles of shoot clusters. Paths below are
relative to the repository (`src/` is its root).

What must be right is mostly about time. The program keeps copies of what
several caches say, in memory; it watches only some of the objects a copy
depends on; fifty workers update the copies; and a copy that is not taken back
makes relying parties trust keys or CAs of a cluster that no longer exists.

## 1. Inventory

| Component | State | Operations | Interacts with | What makes it correct |
|---|---|---|---|---|
| OpenID metadata reconciler, `internal/reconciler/openidmeta` | none of its own between passes | `Reconcile` of one Secret; the predicate of its watch | reads the Secret, Project and Shoot caches; writes its store; its result goes to the work queue | no update is lost; what is published was validated; what is not valid any more is withdrawn |
| Cluster CA reconciler, `internal/reconciler/certificate` | `storeMapping`: ConfigMap to store key; a mutex | `Reconcile` of one ConfigMap, `createMapping`, `deleteMapping`; the predicate of its watch | reads the ConfigMap, Namespace, Project and Shoot caches; writes its store | as above, and every entry can be found again through the mapping |
| Store, `internal/store` | a map behind a read-write lock | `Read`, `Write`, `Delete`, `Len`, each with copies of the data | reconcilers write, handlers read | an atomic map whose entries nobody can change from outside |
| HTTP handlers, `internal/handler`, `.../openidmeta`, `.../certificate` | none | `StoreRequest`, `AllowMethods`, `SetHSTS`, `NotFound` | read a store under project name and shoot UID; relying parties keep their answers | 404 exactly for keys that are not published; nothing is trusted for long after it became invalid |
| Workload identity handler, `internal/handler/workloadidentity` | two documents, fixed at start | `New` validates, the handlers answer | options | it serves only documents that passed `New` |
| Dynamic certificate, `internal/dynamiccert` | the served certificate behind a read-write lock | `New`, `reloadCert` at every tick, `GetCertificate` | two files that others replace; the TLS server | the served chain has its own key; a renewal is served in the end |
| Process, `cmd/discovery-server/app` | two contexts, three channels, four goroutines | `run`, `runServer` | manager, HTTP server | each server stops the other; nobody connects after `run` returns; errors are reported |
| Options, `cmd/discovery-server/app/options` | flags | `Validate`, `ApplyTo` | `run` | only a consistent configuration starts |
| Metrics, `internal/metrics` | counters | `InstrumentHandler` | handlers | not modelled: nothing reads them |
| Controller runtime (a library) | informer caches, one queue per controller, workers | events, `Reconcile` calls, retries, delays | both reconcilers | assumed as described in section 3 |

The behaviours that are hard here: a pass reads several caches one after the
other while they change; events are coalesced with passes that are running;
Projects, Shoots and Namespaces are not watched at all, so that the delay a
pass asks for is the only thing that brings it back; a failing read must not
end in silence; a restart loses everything; mapping and entry are two
structures changed in two steps; files are replaced between two reads; two
servers must stop each other over unbuffered channels. `PROJECT.json` lists
each with its line, and the properties that are about it.

## 2. Modules

| Module | Models |
|---|---|
| `Controller` | the queue, the workers and the notifications of a controller, as both reconcilers configure it. A module to extend: it has no specification of its own |
| `Publishing` | abstract: a reconciler whose passes read all caches and act at one instant, and what a pass that a change disturbed may do instead |
| `OpenIDMeta` | the OpenID metadata reconciler on its informer caches; properties and the inductive invariant at its end; implements `Publishing` |
| `Certificate` | the cluster CA reconciler with its mapping and mutex |
| `CertificatePublishing` | `Certificate` with a history of undisturbed passes, whose mapping implements `Publishing` |
| `Store` | abstract: an atomic map, each call with an instant at which it takes effect |
| `StoreImpl` | the read-write lock, the Go map and the byte buffers; implements `Store` |
| `Handler` | the mux, the middleware and the handlers, as functions of a request and of what is stored. No variables |
| `DiscoveryServer` | composition: `OpenIDMeta` with its delays in time, `Handler` over its store, relying parties that keep answers; implements `OpenIDMeta` |
| `Options`, `WorkloadIdentity` | the checks of the flags and of the workload identity documents. No variables |
| `Lifecycle` | the goroutines, contexts and channels of `run` and `runServer` |
| `Process` | composition: a process from its flags to its end and its restart, with `Options`, `WorkloadIdentity`, `Handler` and `Lifecycle` |
| `DynamicCert` | the reload of the serving certificate |
| `MC...` | the instances for TLC |
| `...Proofs` | proofs about the module of that name |

In the component modules, definitions marked *Faulty variant* are not part of
any specification. Each is what a plausible mistake would make of the
definition after it; the property named for it in `PROJECT.json` fails when it
takes that definition's place.

## 3. How state and actions correspond to the code

### Controller (external)

`pending[k]` counts notifications that passed the predicate and are not yet
delivered; `queued[k]` is the queue's only entry for `k`; `pc[k]` is the step
of the pass over `k`. Assumed of controller-runtime v0.24.1 and of client-go:

- the cache has a change before its notification is delivered, so a pass
  started by the notification sees it;
- the queue has at most one entry per key, keeps the earlier time of two, and
  never hands out a key that is being processed;
- an error or a recovered panic requeues with a delay, a `RequeueAfter` above
  zero with that delay, an empty result not at all;
- the informer repeats an update event for each cached object in a period of
  its own (ten hours by default).

`Options.Validate` rejects a resync period that is not positive; that is
`ControllerAssumption`.

### OpenIDMeta

A key is the name of the Secret split at `--`, which is all that the name
is used for. Each read, the write and the delete are steps: `GetSecret` (and
every check that needs nothing else), `GetProject`, `GetShoot` (and the checks
of the documents), then `WriteEntry` or `DeleteEntry`. The order of checks
between two reads does not show, since every refusal does the same thing, so
they are conjunctions. `GetFails` is an error of any read but "not found";
the caches of Projects and Shoots are started by their first use, and their
synchronisation can exceed the reconciliation timeout. A key set that is the
JSON value `null` makes the loop over the keys panic (`LoadKeySet` returns a
nil pointer), which is an error of the pass.

The environment changes any cache to any content, fails reads and restarts the
process; Secrets carry the verdicts of parsing (JSON, https, public, valid)
instead of bytes, and an `id` that tells versions apart.

`Publishable` and `Expected` say what ought to be published. They are written
without the operators of the steps, so that a mistake in a check shows as a
difference. `Endorsed` is what may ever be published under a key: the documents
of one valid version of a Secret of that name, with some state of the project
cache that claims it and some state of the shoot cache with that UID.

### Publishing

What both reconcilers promise, with nothing of how they do it. To `Publishing`
a pass is one step: from its start to its write it is merely in `passing`, and
it acts with `Settle` (it publishes what is expected at this instant, or
withdraws) if no cache changed since it began, with `SettleStale` if one did.
Then it may have mixed two states of the cluster, and what it publishes is
something that each cache has endorsed, or nothing. A failed read (`Fail`)
leaves what is published. For `OpenIDMeta`, `published` is the store; for the
cluster CA reconciler it is the mapping, since one store key can be that of two
ConfigMaps. `PublishedWasValidated` is about its store.

### Certificate

As `OpenIDMeta`, with ConfigMaps named `<<namespace, name>>` and four reads.
`createMapping` is two steps, `CreateMapping` (lock, map) and `CreateWrites`
(write, unlock); `deleteMapping` is `DeleteMapping` (lock, delete the entry
through the mapping, which is that of the empty key if there is none) and
`DeleteUnmaps` (unmap, unlock). The store key is the pair of project name and
UID: neither contains the separator, as project names have no double hyphen
and UIDs are UUIDs. A bundle is the set of its PEM blocks, and whether there is
text outside of them. `pem.Decode` skips such text, so that the checks look at
the blocks only, and data without any block passes them; what is published is
the data as it is, with the text. `PublishedWasValidated` and
`FollowsTheCaches` therefore say that the published bytes are those of a version
whose *blocks* are CA certificates. No document of the repository promises more.
The error of `json.Marshal` cannot
occur for a string and is left out.

`CertificatePublishing` adds the variable `fresh`, the passes since the start
of which no cache changed, for the refinement mapping. It only remembers: the
steps are those of `Certificate`. It is a module of its own to keep the state
space of the liveness run small. `CertificateAssumption` says that no project,
UID, namespace or bundle is mistaken for the absence of one.

### Store and StoreImpl

A value of type `Data` is a buffer for each of its byte slices, since a slice
is a reference. `Write` copies first and locks then; `Read` copies under the
read lock, one field after the other (`CopyField`). `RWMutex.Lock` is two
steps: `Lock` keeps new readers out, `ReadersLeft` waits for those inside.
Callers keep what they passed to `Write` and what `Read` gave them, and change
its bytes at any time outside of a call (`OwnBytesChange`), which is what the
copies are for. Buffers nobody refers to are given back, so that a few suffice.

The refinement mapping (`Abstract`) takes a call to have had its effect when
the map was read or assigned under the lock: `Perform` of `Store` is `Assign`,
`Remove`, `Hit`, `Miss` or `Len`. A `Read` copies after that instant, so that
its answer is what the entry holds while the read lock keeps it from being
replaced. The reconcilers and handlers of the other modules use the store in
single steps; `IsAtomicMap` is what permits this.

### Handler

A request is a method, a path and the two values in it; an answer is a code,
the two headers that matter, and a body. A UID may be spelled in several ways
that `uuid.Parse` accepts, and the store is asked for the spelling; `UUIDs`
maps spellings to what they denote. `Cache-Control` is set for documents only.
The store of CA bundles is a constant (`CABundles`) in `DiscoveryServer`: what
the handler answers depends on its contents at that moment only.

### DiscoveryServer

The actions are those of `OpenIDMeta`, each with what it does to the timers: a
result that asks for a delay starts `due`, a delay passes only when `due` is
zero, and the informer repeats its objects when `informerDue` is. `Tick`
advances time, and waits for events and passes that are due: these take no
time, compared with delays of minutes and hours. `RetryDelay` is the longest
delay of the rate limiter. A failed read may happen in any pass, and adds one
such delay to the bounds of its key, if the store was behind the caches then.
`RetryTime(k)` counts the failures since `age[k]` was last 0, that is, since
the change the store is behind, and the retry that was waiting then;
`StartRetryTime(k)` counts those since the process started. Failures of other
keys, and those from before, do not loosen a bound. Relying parties ask for the
two documents one after the other at any time and keep an answer for as long as
`Cache-Control` says.

Three named assumptions are about the cluster: the UIDs of shoots are UUIDs,
the CA bundles are kept under such UIDs, too (`CABundlesAssumption`), and no
Secret has the key set JSON `null` (run `oid_null_jwks` shows what happens then:
no bound holds).

`age`, `entryAge`, `uptime`, `steady`, `failures` and `startFailures` are
history variables; ages are capped at `Horizon`, which is above every bound
that is checked.

### Options, WorkloadIdentity and Process

Every place where the start reads something or gives up is a step of its own:
`Validate` (before `run`, as `PreRunE`), the two files of `ApplyTo`, the
manager and the handlers (`Build`, which may fail), `workloadidentity.New`, the
two files of `dynamiccert.New`. Files change between any two of them. `ApplyTo`
looks at the first of the two workload identity flags only; `Validate` is what
makes that enough (`NoFlagIsIgnored`). Nothing ties the two documents to each
other: a mount that is replaced between the two reads gives a process a pair
that never was in the files together. `OnlyATornReadMixes` says that there is
no other way to such a pair; `together` is the history it needs. A panic in
`New` (a key set that is JSON `null`) ends the process, as an error does.
Contents of files are verdicts of parsing. Then `Lifecycle` runs, and when the
process has ended, or was killed, it is started again with the same arguments
or others.

### Lifecycle

A send on an unbuffered channel and its receive are one action. `MgrStops` is
the manager with its graceful shutdown, `ListenerBinds`, `ListenerFails` and
`ListenerCloses` are `ListenAndServeTLS`. A listener that fails while
`runServer` already sees its context cancelled stays blocked in its send; `run`
does not wait for it, and its error is not reported. Connections that `Shutdown`
gives up on when its timeout ends are not modelled: `NothingRunsAfterReturn` is
about the manager and about accepting connections.

### DynamicCert

`ReadCertFile` and `ReadKeyFileAndSwap` are the two reads of
`tls.LoadX509KeyPair` in `reloadCert`. Files change one at a time or both at
once, as with an atomically replaced mount.

## 4. Runs

Bounds: `MaxDisturbances` counts cache changes, failed reads and restarts
together. Initial caches are arbitrary, so that a run with bound 2 sees, for
example, an entry published, then invalidated, then a failed read while it is
to be withdrawn. The instances have well-formed names only; that other names
are refused is covered by the proofs. Deadlock is not checked where the cluster
may become quiet for good or a process may stay up; the liveness runs show that
the program does not stop too early.

| Run | Instance | Shows |
|---|---|---|
| `oid_checks` | 1 Secret, 17 values, all project and shoot states, 3 disturbances | types; only bytes that a Secret, a project and a shoot endorsed; no lost update; the steps are those of `Publishing` |
| `oid_eventually` | 2 Secrets for the two UIDs of one shoot name, 2 workers, 2 disturbances | without any help of the informer, what is invalid leaves the store; with the informer's resync (a hypothesis of `Converges`) the store becomes exactly what the caches say. Two disturbances are needed to lose the label of a published Secret and then fail the read of the pass that would withdraw it |
| `cert_checks` | 1 ConfigMap, 14 values with 2 UIDs, all namespace, project and shoot states, 2 disturbances | as `oid_checks`, for the mapping; an entry loses its mapping only when `createMapping` replaces it |
| `cert_eventually` | 2 ConfigMaps of one shoot UID, 2 workers, 2 disturbances | the critical sections exclude each other; an entry is looked at again as long as it has a mapping that can lead to it; an entry that goes with the other ConfigMap comes back; what is invalid leaves the store while names keep their UID; with the informer's resync the store becomes what the caches say |
| `dynamiccert` | 5 chains, 2 keys, 3 file changes | matched pairs only; a new pair is served in the end |
| `store_data` | 1 reconciler and 1 handler, 1 key, 2 byte slices, 2 contents, 10 buffers | the calls are those of an atomic map. Two slices are needed to see a `Read` between the copies of the two; with two callers every step of one meets every step of the other |
| `store_entries` | 1 reconciler and 1 handler, 2 keys, 2 byte slices, 1 content, 12 buffers | no buffer is reached from two places: two entries, an entry and a caller, two callers. Contents play no part in it |
| `store_lock` | 2 reconcilers and 1 handler, 1 key, 1 byte slice | the map is never accessed while it is assigned; nobody waits in a circle or for a call that is over; every call returns. Three callers are needed to have one wait while two others alternate |
| `discovery_server` | 1 key, 2 versions of its Secret, 2 disturbances, delays 2 (resync), 1 (retry), 3 (informer), max-age 2, ages up to 7 | for how long an entry stays that is not valid, a relying party trusts a document that is not valid, a valid one is refused; that two documents of different versions are seen for less than max-age; that a new process that answers 404 for what is there is about to publish it; that an entry or a CA bundle is found under one URL only, with other methods, paths, project names and spellings of the UID around it refused. Two disturbances are needed for a change during a pass that fails, or in a process that has just restarted. Deadlock is checked |
| `lifecycle` | 6 sets of flags, 7 contents of documents or none, 2 key pairs or a broken one, 2 disturbances | what runs was validated, whatever happens to the files meanwhile; a configuration and a key set that were never in the files together have one cause; no flag is ignored; when `run` returns nobody can connect and the manager has stopped; all errors are joined; any stop ends the process; with good flags and files it comes up |

Two runs expect a violation. Each states what the repository says and shows
what the code does instead:

- `oid_null_jwks`: a published Secret whose `jwks` becomes `null` is neither
  refused nor published but retried for ever, and the old entry stays, against
  the table of `metadata_test.go`.
- `cert_orphan`: a shoot deleted and created again under its name, with the
  events about its ConfigMap taken by one pass, leaves the old bundle in the
  store without a mapping, against the expectation of the end-to-end test that
  it goes away.

### Fairness

Passes, deliveries and delays are weakly fair: workers run, timers fire.
Starting a pass is strongly fair, since with few workers it is enabled and
disabled by others; the queue hands out keys in the order they became ready.
In `Certificate` the steps of a pass are strongly fair for the same reason: a
Go mutex hands over to a waiter that has waited long enough. Nothing makes the
cluster change, reads fail or the process restart. The informer's resync is
not part of `FairSpec` but a hypothesis of the properties that need it, to keep
apart what the reconcilers ensure by themselves. In `DynamicCert` the ticker
keeps firing.

In `StoreImpl` a goroutine inside a call runs, and taking the lock is strongly
fair: an `RWMutex` lets waiting readers in when a writer leaves, and keeps new
readers out while a writer waits. That readers let a writer in at all is not
assumed but a consequence of `Lock` and `ReadersLeft`; with a lock that is
polled for, `CallsReturn` fails. Nobody has to make a call.

In `Process` the start goes on, the goroutines run, the listener binds unless
it fails, the manager obeys its context, `Shutdown` ends with its timeout, and
the kubelet starts an ended process again with the same arguments. No signal
and no failure is assumed.

`DiscoveryServer` has no fairness: its properties are bounds on time, hence
safety. They say something only if time goes on. `Tick` waits for the
passes; a pass has finitely many steps, what it asks for comes after a delay
above zero, and that no state is stuck is shown by TLC's search for deadlocks.

## 5. Proofs

All theorems hold for any values of the constants within the named
assumptions: any sets of Secrets, any contents of caches, any number of keys,
workers and disturbances.

`OpenIDMetaProofs`. None of the safety properties is inductive alone. `Inv`
adds, for every key, three things about the pass in progress:

- `PassIsValidated`: a pass past its first read holds a Secret that was found
  and passed the checks so far, and that some project and some shoot endorsed
  as far as they were read; at `write` its documents are valid; a pass that
  ends with an empty result has withdrawn the entry. This gives the type of
  what is written, `PublishedWasValidated`, and with the positive resync
  period `Tracked`.
- `PassIsCurrent`: while nothing is on its way to the queue, the Secret in the
  pass and the one published are the one in the cache. A change either is
  notified, and then something is on its way, or concerns a Secret without the
  label before and after, and such a Secret is neither in a pass nor published.
  This gives `NoLostUpdate`.
- `PassIsExact`: while no cache changed, each verdict the pass has reached still
  holds. This gives `FreshPassExact`.

The lemmas before it relate the checks of the steps to `SecretValid`,
`ContentValid` and `Publishable`. `ImplementsPublishing` rests on the same
invariant, step by step: the reads are stutters, an undisturbed write or delete
is `Settle` by `PassIsExact`, a disturbed one is `SettleStale` by
`PassIsValidated`, and a change of a cache that alters what is expected of a
key ends the undisturbed pass over it.

`CertificateProofs`. `Inv` has the same parts for ConfigMaps, and adds what the
mutex protects: the worker that holds it is the only one between the two steps
of `createMapping` or `deleteMapping`; and a ConfigMap at rest that is mapped
is valid and mapped to the UID it carries, and if no other ConfigMap carries
that UID, its bundle is the entry. `PassIsEndorsed` remembers which caches a
pass has asked. From it follow all safety properties of the runs,
`OrphanedOnlyByRemap` as a property of steps. `ServedIsTracked` is part of the
invariant: an entry has a mapping that leads to it, and with it a pass that
comes back, unless its ConfigMap may move to another key. That exception is the
orphan of `cert_orphan`, and the proof shows that there is no other.

`CertificatePublishingProofs` proves that the mapping implements `Publishing`,
from that invariant and `PassIsExact` for the four reads. Both steps of
`createMapping` and `deleteMapping` have to be placed: the mapping is assigned
in the first of `createMapping` and in the second of `deleteMapping`, and a
change of a cache between the two steps of `deleteMapping` disturbs the pass.

`StoreProofs`. `Inv` says who holds the lock at which step (`LockOK`), which
buffers each step refers to (`CallOK`, `Isolated`), and that a copy in progress
agrees with its source in the fields it is done with (`CopyOK`). The last one
needs isolation: the source must not change during the copy, and nobody else
refers to it. `WaitsEnd` is what `CallsReturn` needs of the lock besides
fairness, and is proved for any number of goroutines: from `LockOK`, a call
that waits has somebody to wait for who is inside a call, and such chains have
at most two links. `ImplementsAtomicMap` maps each step under `Inv` to a step of
`Store` or to a stutter.

`DiscoveryServerProofs`. `ImplementsReconciler` shows that the timed system
implements `OpenIDMeta`, so that all theorems of `OpenIDMetaProofs` hold of it.
`ServerInv` bounds, for every key, the time that may pass before the next pass
looks at it, plus the age of what it will find: `StaleInTime` for entries that
are not valid, `AbsentInTime` for what should be served and is not,
`CopyInTime` for the copies of relying parties; `SteadyIsExact` says that an
undisturbed pass of a process whose caches never changed is exact, and
`PassInTime` that a pass which saw a change has just seen it. `Tick` preserves
them because it waits for whatever has no time left, other steps because an
undisturbed pass leaves what is expected (`FreshPassExact` of the reconciler's
invariant). The bounds hold for any delays and any number of keys and
disturbances. `AnswersAreOfTheStores` proves `AnswersAreExact` for any keys and
spellings; its lemma `AnswerIsExact` says the same of every request whose two
values form a key, not only of those near a published one. It needs that a key
can be read off its request (`KeyOfRequest`), and `PublishedWasValidated`: an
entry exists only for the UID of a shoot, which the handler does not refuse.

`LifecycleProofs` proves `NothingRunsAfterReturn` and `AllErrorsReturned` from
an invariant that ties the position of `run` to those of the two goroutines.
`ProcessProofs` uses it for every process that is started, and adds what each
step of the start has established (`ProcessInv`).

`DynamicCertProofs` proves types and `ServedPairMatches`.

Every invariant, action property and refinement that the passing runs check is
proved. `Tracked` and `FreshPassExact` are parts of the inductive invariants
and have theorems of their own; no run checks them by themselves.
Only model-checked are the liveness properties (the prover has no rules for
fairness here) and the absence of deadlock.

## 6. Not modelled, and the plan

Not modelled: the metrics (counters that nothing in the program reads), the
command line beyond the order of `PreRunE` and `RunE`, logging, version
information, cipher suites and TLS itself, Helm charts and the local setup.
They keep no state the properties speak of. The bytes of documents are
abstracted to the verdicts of the parsers of Go's library; the predicates of
the watches are part of the reconcilers' modules.

What could follow:

1. `Certificate` with its delays in time and with `HandleCABundle`, as
   `DiscoveryServer` has it for the OpenID metadata. The orphan of run
   `cert_orphan` means that a bound on staleness holds only while names keep
   their UID.
2. `Publishing` with its own promise in time, so that the bounds of
   `DiscoveryServer` follow from it for both reconcilers.
3. Several replicas behind one address: each has a store of its own, and a relying
   party may get its two documents from two of them.

## 7. Running

    tlc -config OpenIDMeta_checks.cfg MCOpenIDMeta
    tlapm OpenIDMetaProofs.tla

`PROJECT.json` names the module and the configuration of every run.
