---------------------------- MODULE DiscoveryServer ----------------------------
(***************************************************************************)
(* One replica that serves OpenID metadata, and relying parties: the       *)
(* reconciler of OpenIDMeta with its delays and the informer's resync in   *)
(* time, the handlers of Handler over the store it writes, and an HTTP     *)
(* cache on the side of the relying party that keeps a document for as     *)
(* long as Cache-Control says.  The question is for how long an outsider   *)
(* may act on something that is no longer so.                              *)
(*                                                                         *)
(* Time advances by Tick, in units of which the three delays of the code   *)
(* are multiples; everything else takes no time: Tick waits for the events *)
(* and passes that are due.  Timers count down, ages count up to Horizon.  *)
(*                                                                         *)
(*  due         time left until a delayed key is ready                     *)
(*  informerDue time left until the informer repeats its objects           *)
(*  repeated    the keys it has repeated at this time                      *)
(*  copies      the documents a relying party keeps, and for how long      *)
(*  age         history: time since what should be served last changed, or *)
(*              a cache changed during a pass over the key                 *)
(*  entryAge    history: time since the entry in the store last changed    *)
(*  uptime      history: time since the process started                    *)
(*  steady      history: keys whose caches are as when the process started *)
(*  failures    history: reads about a key that failed since its age was   *)
(*              last 0, while the store was behind, and the retry that was *)
(*              waiting then                                               *)
(*  startFailures  history: those that failed since the process started    *)
(***************************************************************************)
EXTENDS OpenIDMeta

CONSTANTS
    RetryDelay,     \* longest delay of the rate limiter
    InformerPeriod, \* resync period of the informer
    MaxAge,         \* the max-age of the handlers' Cache-Control
    Horizon,        \* the age up to which ages are told apart
    UUIDs,          \* the UID that each accepted spelling denotes
    CABundles,      \* contents of the store of the other reconciler
    NoCopy          \* the relying party has no copy

\* The UIDs that the cluster gives to shoots are UUIDs.
ASSUME ShootUIDsAreUUIDs ==
    \A s \in SecretValues, shoots \in ShootStates :
        s.shootNamespace # Unset /\ s.shootName # Unset =>
            LET owner == shoots[<<s.shootNamespace, s.shootName>>]
            IN  owner = NotFound \/ owner.uid \in DOMAIN UUIDs

VARIABLES due, informerDue, repeated, copies,
          age, entryAge, uptime, steady, failures, startFailures

timers == <<due, informerDue, repeated>>
retries == <<failures, startFailures>>
histories == <<age, entryAge, uptime, steady, retries>>
serverVars == <<vars, timers, copies, histories>>

ASSUME DiscoveryServerAssumption ==
    /\ RetryDelay \in Nat \ {0}
    /\ InformerPeriod \in Nat \ {0}
    /\ MaxAge \in Nat \ {0}
    /\ Horizon \in Nat
    /\ <<>> \notin Keys

\* The other reconciler publishes under keys of that form, too: the project
\* name, and the UID of a shoot.
ASSUME CABundlesAssumption ==
    \A d \in DOMAIN CABundles :
        d \in Seq(STRING) \ {<<>>} /\ (CABundles[d] # NoEntry => d[Len(d)] \in DOMAIN UUIDs)

\* Of the key set that is JSON null nothing can be said: every pass over it
\* panics, and its entry stays.
ASSUME NoNullKeySet == \A s \in SecretValues : s.jwks = Unset \/ s.jwks.json # "null"

HTTP == INSTANCE Handler

Docs == {"config", "jwks"}

\* A request for what is published under a key.
Request(method, k, path) ==
    [method |-> method, path |-> path,
     shootUID |-> k[Len(k)], projectName |-> SubSeq(k, 1, Len(k) - 1)]

Path(doc) == IF doc = "config" THEN "shoot openid-configuration" ELSE "shoot jwks"

\* What the relying parties of the cluster of k are told to ask for.
URL(k, doc) == Request("GET", k, Path(doc))

Serve(r) == HTTP!ServeHTTP(r, store, CABundles, NoEntry)

Copies == [reply : {HTTP!SetHSTS(HTTP!Document(d[doc])) : d \in Data, doc \in Docs},
           left : 1..MaxAge] \cup {NoCopy}

ServerTypeOK ==
    /\ TypeOK
    /\ due \in [Keys -> 0..(RetryDelay + ResyncPeriod)]
    /\ informerDue \in 0..InformerPeriod
    /\ repeated \subseteq Keys
    /\ copies \in [Keys \X Docs -> Copies]
    /\ age \in [Keys -> 0..Horizon]
    /\ entryAge \in [Keys -> 0..Horizon]
    /\ uptime \in 0..Horizon
    /\ steady \subseteq Keys
    /\ failures \in [Keys -> 0..disturbed]
    /\ startFailures \in [Keys -> 0..disturbed]

ServerInit ==
    /\ Init
    /\ due = [k \in Keys |-> 0]
    /\ informerDue = InformerPeriod
    /\ repeated = {}
    /\ copies = [x \in Keys \X Docs |-> NoCopy]
    /\ age = [k \in Keys |-> 0]
    /\ entryAge = [k \in Keys |-> 0]
    /\ uptime = 0
    /\ steady = Keys
    /\ failures = [k \in Keys |-> 0]
    /\ startFailures = [k \in Keys |-> 0]

-----------------------------------------------------------------------------
(* The steps of OpenIDMeta, with the timers they set and wait for. *)

\* What the change of an entry does to its age.
EntriesAge == entryAge' = [k \in Keys |-> IF store'[k] # store[k] THEN 0 ELSE entryAge[k]]

\* A result that asks for a delay starts it.
PassEnds(k) ==
    /\ End(k)
    /\ due' = [due EXCEPT ![k] = CASE queued'[k] = "retry" -> RetryDelay
                                   [] queued'[k] = "resync" -> ResyncPeriod
                                   [] OTHER -> 0]
    /\ UNCHANGED <<informerDue, repeated, histories>>

PassSteps(k) ==
    /\ \/ Start(k) \/ EventDelivered(k)
       \/ GetSecret(k) \/ GetProject(k) \/ GetShoot(k)
       \/ WriteEntry(k) \/ DeleteEntry(k)
    /\ EntriesAge
    /\ UNCHANGED <<timers, age, uptime, steady, retries>>

\* The entry of k is not what it should be.
Behind(k) == store[k] # Expected(k)

ReadFails(k) ==
    /\ GetFails(k)
    /\ failures' = [failures EXCEPT ![k] = IF Behind(k) THEN @ + 1 ELSE @]
    /\ startFailures' = [startFailures EXCEPT ![k] = IF Behind(k) THEN @ + 1 ELSE @]
    /\ UNCHANGED <<timers, age, entryAge, uptime, steady>>

DelayEnds(k) ==
    /\ due[k] = 0
    /\ DelayPasses(k)
    /\ UNCHANGED <<timers, histories>>

InformerRepeats(k) ==
    /\ informerDue = 0
    /\ k \notin repeated
    /\ InformerResync(k)
    /\ repeated' = repeated \cup {k}
    /\ UNCHANGED <<due, informerDue, histories>>

\* A read about k has failed, and its retry has not begun.
Retrying(k) == pc[k] = "rateLimited" \/ queued[k] = "retry"

ClusterChanges ==
    /\ (\E k \in Keys : SecretChanges(k)) \/ ProjectChanges \/ ShootChanges
    /\ LET hit == {k \in Keys : Expected(k)' # Expected(k) \/ k \in fresh \ fresh'} IN
         /\ age' = [k \in Keys |-> IF k \in hit THEN 0 ELSE age[k]]
         /\ failures' = [k \in Keys |-> IF k \notin hit THEN failures[k]
                                        ELSE IF Retrying(k) THEN 1 ELSE 0]
    /\ steady' = IF secret' = secret THEN {}
                 ELSE {k \in steady : secret'[k] = secret[k]}
    /\ UNCHANGED <<timers, entryAge, uptime, startFailures>>

ProcessRestarts ==
    /\ Restart
    /\ due' = [k \in Keys |-> 0]
    /\ informerDue' = InformerPeriod
    /\ repeated' = {}
    /\ EntriesAge
    /\ uptime' = 0
    /\ steady' = Keys
    /\ startFailures' = [k \in Keys |-> 0]
    /\ UNCHANGED <<age, failures>>

ReconcilerStep ==
    /\ \/ \E k \in Keys : \/ PassSteps(k) \/ PassEnds(k) \/ ReadFails(k)
                          \/ DelayEnds(k) \/ InformerRepeats(k)
       \/ ClusterChanges
       \/ ProcessRestarts
    /\ UNCHANGED copies

-----------------------------------------------------------------------------
(* Relying parties and time. *)

\* A relying party that has no copy it may use asks, and keeps the answer
\* if it may.  It reaches the replica while the first passes are under way.
Fetch(k, doc) ==
    /\ copies[<<k, doc>>] = NoCopy
    /\ LET reply == Serve(URL(k, doc)) IN
         /\ reply.maxAge > 0
         /\ copies' = [copies EXCEPT ![<<k, doc>>] = [reply |-> reply, left |-> reply.maxAge]]
    /\ UNCHANGED <<vars, timers, histories>>

\* Something is to be done about k before time goes on.
Urgent(k) ==
    \/ pending[k] > 0
    \/ queued[k] = "now"
    \/ queued[k] \in {"retry", "resync"} /\ due[k] = 0
    \/ pc[k] # "idle"
    \/ informerDue = 0 /\ k \notin repeated /\ secret[k] # NotFound

Later(n) == IF n < Horizon THEN n + 1 ELSE n
Sooner(n) == IF n > 0 THEN n - 1 ELSE 0

Tick ==
    /\ \A k \in Keys : ~Urgent(k)
    /\ due' = [k \in Keys |-> Sooner(due[k])]
    /\ informerDue' = (IF informerDue = 0 THEN InformerPeriod ELSE informerDue) - 1
    /\ repeated' = {}
    /\ copies' = [x \in Keys \X Docs |->
                    IF copies[x] = NoCopy \/ copies[x].left = 1 THEN NoCopy
                    ELSE [reply |-> copies[x].reply, left |-> copies[x].left - 1]]
    /\ age' = [k \in Keys |-> Later(age[k])]
    /\ entryAge' = [k \in Keys |-> Later(entryAge[k])]
    /\ uptime' = Later(uptime)
    /\ UNCHANGED <<vars, steady, retries>>

ServerNext ==
    \/ ReconcilerStep
    \/ \E k \in Keys, doc \in Docs : Fetch(k, doc)
    \/ Tick

ServerSpec == ServerInit /\ [][ServerNext]_serverVars

-----------------------------------------------------------------------------
(* Properties. *)

\* The answer a relying party acts on: its copy, or what it is told now.
Seen(k, doc) ==
    IF copies[<<k, doc>>] # NoCopy THEN copies[<<k, doc>>].reply ELSE Serve(URL(k, doc))

\* The delays of the retries since the change that the store is behind, and
\* since the process started.
RetryTime(k) == failures[k] * RetryDelay
StartRetryTime(k) == startFailures[k] * RetryDelay

\* The store falls behind the cluster by one resync period, and by the
\* retries of the reads that failed since: no change that the reconciler has
\* no watch for, and no interleaving of events, delays and passes, makes an
\* entry stay for longer.  A change during a pass counts as well: a pass that
\* reads one cache before a change and the next one after another may
\* publish or confirm what was valid at no time.
StaleIsBounded ==
    \A k \in Keys : store[k] \notin {NoEntry, Expected(k)} =>
        age[k] <= ResyncPeriod + RetryTime(k)

\* Whoever obeys Cache-Control acts on a document that is no longer valid
\* for at most the resync period and max-age: this is how long a revoked
\* key is trusted.
TrustIsBounded ==
    \A k \in Keys, doc \in Docs :
        LET seen == Seen(k, doc) IN
        seen.code = 200 /\ (Expected(k) = NoEntry \/ seen.body # Expected(k)[doc]) =>
            age[k] <= ResyncPeriod + RetryTime(k) + MaxAge

\* A document that should be served is refused to nobody for longer than
\* the informer's resync takes, counted from the change or from the start
\* of the process; a refusal is never remembered.
AbsenceIsBounded ==
    \A k \in Keys, doc \in Docs :
        Seen(k, doc).code # 200 /\ Expected(k) # NoEntry =>
            age[k] <= InformerPeriod + RetryTime(k) \/ uptime <= InformerPeriod + StartRetryTime(k)

\* The configuration and the key set, asked for one after the other, do not
\* belong to one version of a Secret for less than max-age after the entry
\* was replaced.
PairSettles ==
    \A k \in Keys :
        Seen(k, "config").code = 200 /\ Seen(k, "jwks").code = 200 =>
            \/ [config |-> Seen(k, "config").body, jwks |-> Seen(k, "jwks").body] \in Data
            \/ entryAge[k] < MaxAge

\* The readiness check waits for the informers and not for the passes: a
\* new process answers that a shoot is not found although it is there to be
\* served, but then the pass that publishes it is on its way, also when
\* reads fail.
MissMeansPassIsDue ==
    \A k \in steady : store[k] = NoEntry /\ Expected(k) # NoEntry =>
        pending[k] > 0 \/ queued[k] \in {"now", "retry"} \/ pc[k] # "idle"

\* k, and keys that differ from it in one thing.
KeysNear(k) ==
    LET name == SubSeq(k, 1, Len(k) - 1)
    IN  {name \o <<uid>> : uid \in DOMAIN UUIDs \cup {"not-a-uid"}} \cup {name \o <<"x", k[Len(k)]>>, k}

Paths == {Path(doc) : doc \in Docs} \cup {"shoot cluster-ca", "garden jwks", "/"}

\* The requests for what the stores hold.
DocumentRequests ==
    LET entries == {k \in Keys : store[k] # NoEntry}
        bundles == {d \in DOMAIN CABundles : CABundles[d] # NoEntry}
    IN  {Request(method, k, Path(doc)) : method \in {"GET", "HEAD"}, k \in entries, doc \in Docs}
        \cup {Request(method, d, "shoot cluster-ca") : method \in {"GET", "HEAD"}, d \in bundles}

\* All answers require HTTPS, and only a document may be kept.
IsDocument(reply) == reply.hsts /\ reply.code = 200 /\ reply.maxAge > 0
IsRefusal(reply) == reply.hsts /\ reply.code # 200 /\ reply.maxAge = 0

\* An entry of either store is found under one URL only, which is that of the
\* issuer, and not under other spellings of the UID; what else is asked for is
\* refused, and the refusal may not be kept.
AnswersAreExact ==
    LET documents == DocumentRequests
    IN  \A k \in Keys, method \in {"GET", "HEAD", "POST"}, path \in Paths : \A d \in KeysNear(k) :
          method = "GET" \/ d = k =>
            LET r == Request(method, d, path)
            IN  IF r \in documents THEN IsDocument(Serve(r)) ELSE IsRefusal(Serve(r))

-----------------------------------------------------------------------------
(* The inductive invariant: how much time may still pass before the next   *)
(* pass over a key, and how old what it finds is by then.                  *)

\* A pass that was disturbed was disturbed just now.
PassInTime(k) ==
    /\ pc[k] # "idle" /\ k \notin fresh => age[k] = 0
    /\ queued[k] = "retry" => due[k] <= RetryDelay
    /\ queued[k] = "resync" => due[k] <= ResyncPeriod

\* Time until the delay of k ends.
Delay(k) ==
    IF pc[k] = "rateLimited" THEN RetryDelay
    ELSE IF queued[k] \in {"retry", "resync"} THEN due[k] ELSE 0

StaleInTime(k) ==
    store[k] \notin {NoEntry, Expected(k)} => age[k] + Delay(k) <= ResyncPeriod + RetryTime(k)

\* Time until something looks at k that has no entry.
Wait(k) ==
    IF ~AtRest(k) THEN (IF queued[k] = "resync" THEN 0 ELSE Delay(k))
    ELSE IF k \in repeated THEN InformerPeriod ELSE informerDue

Absent(k) == store[k] = NoEntry /\ Expected(k) # NoEntry

AbsentInTime(k) ==
    Absent(k) =>
        \/ age[k] + Wait(k) <= InformerPeriod + RetryTime(k)
        \/ uptime + Wait(k) <= InformerPeriod + StartRetryTime(k)

\* A copy is of the entry, or of one that was there max-age ago at most; it
\* is valid, or it will not be used for too long.
CopyInTime(k, doc) ==
    LET copy == copies[<<k, doc>>] IN
    copy # NoCopy =>
        /\ \/ store[k] # NoEntry /\ copy.reply.body = store[k][doc]
           \/ entryAge[k] + copy.left <= MaxAge
        /\ Expected(k) = NoEntry \/ copy.reply.body # Expected(k)[doc] =>
             age[k] + copy.left <= ResyncPeriod + RetryTime(k) + MaxAge

\* As long as no cache changed, no pass is disturbed, and what should be
\* served is or is going to be.
SteadyIsExact(k) ==
    k \in steady =>
        /\ pc[k] # "idle" => k \in fresh
        /\ Absent(k) => pending[k] > 0 \/ queued[k] \in {"now", "retry"} \/ pc[k] # "idle"

KeyInv(k) ==
    /\ PassInTime(k)
    /\ StaleInTime(k)
    /\ AbsentInTime(k)
    /\ SteadyIsExact(k)
    /\ \A doc \in Docs : CopyInTime(k, doc)

ServerInv ==
    /\ ServerTypeOK
    /\ repeated # {} => informerDue = 0
    /\ \A k \in Keys : KeyInv(k)
=============================================================================
