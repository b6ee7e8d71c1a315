------------------------ MODULE DiscoveryServerProofs -------------------------
(***************************************************************************)
(* Proofs about DiscoveryServer, for any delays, any Secrets and caches,   *)
(* any number of keys and of relying parties' copies.                      *)
(***************************************************************************)
EXTENDS DiscoveryServer, OpenIDMetaProofs, SequenceTheorems

USE DiscoveryServerAssumption

-----------------------------------------------------------------------------
(* The server's steps are steps of the reconciler. *)

\* What a step of the server does to the variables of the reconciler.
LEMMA ServerStep == [ServerNext]_serverVars => [Next]_vars
<1> SUFFICES ASSUME [ServerNext]_serverVars PROVE [Next]_vars
  OBVIOUS
<1>1. ASSUME NEW k \in Keys, PassSteps(k) \/ PassEnds(k) \/ ReadFails(k) \/ DelayEnds(k) \/ InformerRepeats(k)
      PROVE  Next
  BY <1>1 DEF PassSteps, PassEnds, ReadFails, DelayEnds, InformerRepeats, Next, Pass
<1>2. CASE ClusterChanges
  BY <1>2 DEF ClusterChanges, Next
<1>3. CASE ProcessRestarts
  BY <1>3 DEF ProcessRestarts, Next
<1>4. CASE UNCHANGED vars
  BY <1>4
<1> QED
  BY <1>1, <1>2, <1>3, <1>4 DEF ServerNext, ReconcilerStep, Fetch, Tick, serverVars

\* The replica with its delays, handlers and relying parties implements the
\* reconciler of OpenIDMeta: whatever is proved of that holds here.
THEOREM ImplementsReconciler == ServerSpec => Spec
<1>1. ServerInit => Init
  BY DEF ServerInit
<1> QED
  BY <1>1, ServerStep, PTL DEF ServerSpec, Spec

-----------------------------------------------------------------------------
(* What the handlers answer about an entry. *)

\* The path of a request leads to the key it was made from.
LEMMA KeyOfRequest ==
    ASSUME NEW S, NEW k \in Seq(S), k # <<>>, NEW method, NEW path
    PROVE  HTTP!StoreKey(Request(method, k, path)) = k
<1>1. Len(k) \in Nat \ {0}
  OBVIOUS
<1>2. k = SubSeq(k, 1, Len(k) - 1) \o <<k[Len(k)]>>
  BY <1>1, SubSeqFull, SubSeqRecursiveSecond
<1> QED
  BY <1>2 DEF HTTP!StoreKey, Request

LEMMA KeyOfURL ==
    ASSUME NEW k \in Keys, NEW doc \in Docs
    PROVE  HTTP!StoreKey(URL(k, doc)) = k
<1>1. k \in Seq(STRING) /\ k # <<>>
  BY OpenIDMetaAssumption
<1> QED
  BY <1>1, KeyOfRequest DEF URL

\* A request for a document is answered with that of the entry, or refused
\* without leave to keep the answer.
LEMMA ServeURL ==
    ASSUME TypeOK, NEW k \in Keys, NEW doc \in Docs, NEW reply, reply = Serve(URL(k, doc))
    PROVE  /\ reply.maxAge > 0 \/ reply.code = 200 =>
                reply = HTTP!SetHSTS(HTTP!Document(store[k][doc]))
           /\ reply.maxAge > 0 \/ reply.code = 200 =>
                store[k] # NoEntry /\ reply.body = store[k][doc] /\ reply.maxAge = MaxAge
           /\ reply.code # 200 => store[k] = NoEntry \/ URL(k, doc).shootUID \notin DOMAIN UUIDs
<1> DEFINE url == URL(k, doc)
<1>1. HTTP!StoreKey(url) = k
  BY KeyOfURL
<1>2. DOMAIN store = Keys
  BY DEF TypeOK
<1>3. reply = HTTP!SetHSTS(HTTP!AllowMethods(url, HTTP!StoreRequest(url, store, doc)))
  BY DEF Serve, HTTP!ServeHTTP, URL, Request, Path, Docs, HTTP!HandleOpenIDConfiguration, HTTP!HandleJWKS
<1>4. url.method = "GET"
  BY DEF URL, Request
<1>5. reply = HTTP!SetHSTS(HTTP!StoreRequest(url, store, doc))
  BY <1>3, <1>4 DEF HTTP!AllowMethods
<1>6. HTTP!StoreRequest(url, store, doc) =
        IF url.shootUID \notin DOMAIN UUIDs THEN HTTP!Reply(400)
        ELSE IF store[k] = NoEntry THEN HTTP!Reply(404)
        ELSE HTTP!Document(store[k][doc])
  BY <1>1, <1>2 DEF HTTP!StoreRequest, HTTP!NotFoundReply
<1> HIDE DEF url
<1>7. CASE url.shootUID \notin DOMAIN UUIDs
  BY <1>5, <1>6, <1>7 DEF HTTP!SetHSTS, HTTP!Reply, url
<1>8. CASE url.shootUID \in DOMAIN UUIDs /\ store[k] = NoEntry
  BY <1>5, <1>6, <1>8 DEF HTTP!SetHSTS, HTTP!Reply
<1>9. CASE url.shootUID \in DOMAIN UUIDs /\ store[k] # NoEntry
  BY <1>5, <1>6, <1>9 DEF HTTP!SetHSTS, HTTP!Reply, HTTP!Document
<1> QED
  BY <1>7, <1>8, <1>9

\* What should be served is found at its path.
LEMMA PublishableHasURL ==
    ASSUME TypeOK, NEW k \in Keys, NEW doc \in Docs, Expected(k) # NoEntry
    PROVE  URL(k, doc).shootUID \in DOMAIN UUIDs
<1>1. Publishable(k)
  BY DEF Expected
<1>2. /\ secret[k] \in SecretValues
      /\ secret[k].shootNamespace # Unset /\ secret[k].shootName # Unset
      /\ ShootOf(secret[k]) # NotFound /\ ShootOf(secret[k]).uid = k[2]
      /\ k[2] = k[Len(k)]
  BY <1>1, ChecksArePublishable
     DEF SecretChecks, ShootChecks, SplitProjectNameAndShootUID, TypeOK
<1> QED
  BY <1>2, ShootUIDsAreUUIDs DEF ShootOf, TypeOK, URL, Request

-----------------------------------------------------------------------------
(* Arithmetic of the bounds. *)

LEMMA RetryTimeFacts ==
    ASSUME ServerTypeOK, NEW k \in Keys
    PROVE  /\ failures[k] \in Nat /\ startFailures[k] \in Nat
           /\ RetryTime(k) \in Nat /\ StartRetryTime(k) \in Nat
           /\ failures'[k] = 1 => RetryTime(k)' = RetryDelay
           /\ failures'[k] = 0 => RetryTime(k)' = 0
           /\ startFailures'[k] = 0 => StartRetryTime(k)' = 0
           /\ failures'[k] = failures[k] => RetryTime(k)' = RetryTime(k)
           /\ startFailures'[k] = startFailures[k] => StartRetryTime(k)' = StartRetryTime(k)
           /\ failures'[k] = failures[k] + 1 => RetryTime(k)' = RetryTime(k) + RetryDelay
           /\ startFailures'[k] = startFailures[k] + 1 =>
                StartRetryTime(k)' = StartRetryTime(k) + RetryDelay
<1>1. disturbed \in Nat
  BY DEF ServerTypeOK, TypeOK
<1>2. failures[k] \in Nat /\ startFailures[k] \in Nat
  BY <1>1 DEF ServerTypeOK
<1>3. ASSUME NEW n \in Nat PROVE n * RetryDelay \in Nat /\ (n + 1) * RetryDelay = n * RetryDelay + RetryDelay
  OBVIOUS
<1>4. /\ RetryTime(k) = failures[k] * RetryDelay /\ RetryTime(k)' = failures'[k] * RetryDelay
      /\ StartRetryTime(k) = startFailures[k] * RetryDelay
      /\ StartRetryTime(k)' = startFailures'[k] * RetryDelay
  BY DEF RetryTime, StartRetryTime
<1>5. 0 * RetryDelay = 0 /\ 1 * RetryDelay = RetryDelay
  OBVIOUS
<1> QED
  BY <1>2, <1>3, <1>4, <1>5

-----------------------------------------------------------------------------
(* Type correctness. *)

LEMMA ServerInitInv == ServerInit => ServerInv
<1> SUFFICES ASSUME ServerInit PROVE ServerInv
  OBVIOUS
<1>1. ServerTypeOK
  <2>1. TypeOK /\ disturbed = 0
    BY InitType DEF ServerInit, Init
  <2>2. due \in [Keys -> 0..(RetryDelay + ResyncPeriod)] /\ copies \in [Keys \X Docs -> Copies]
    BY ControllerAssumption DEF ServerInit, Copies
  <2>3. failures \in [Keys -> 0..disturbed] /\ startFailures \in [Keys -> 0..disturbed]
    BY <2>1 DEF ServerInit
  <2> QED
    BY <2>1, <2>2, <2>3 DEF ServerInit, ServerTypeOK
<1>2. \A k \in Keys : RetryTime(k) = 0 /\ StartRetryTime(k) = 0
  BY DEF ServerInit, RetryTime, StartRetryTime
<1>3. ASSUME NEW k \in Keys PROVE KeyInv(k)
  <2>1. PassInTime(k) /\ StaleInTime(k)
    BY DEF ServerInit, Init, PassInTime, StaleInTime
  <2>2. AbsentInTime(k)
    BY <1>2 DEF ServerInit, Init, AbsentInTime, Wait, AtRest, Delay
  <2>3. \A doc \in Docs : CopyInTime(k, doc)
    BY DEF ServerInit, CopyInTime
  <2>4. SteadyIsExact(k)
    <3>1. Expected(k) # NoEntry => isRelevantSecret(secret[k])
      BY ValidIsRelevant DEF Expected, Publishable
    <3> QED
      BY <3>1 DEF ServerInit, Init, SteadyIsExact, Absent
  <2> QED
    BY <2>1, <2>2, <2>3, <2>4 DEF KeyInv
<1> QED
  BY <1>1, <1>3 DEF ServerInv, ServerInit

\* Only documents are kept, and for max-age at most.
LEMMA FetchType ==
    ASSUME ServerTypeOK, Inv, NEW k \in Keys, NEW doc \in Docs, Fetch(k, doc)
    PROVE  /\ store[k] # NoEntry
           /\ \E copy \in Copies : /\ copy # NoCopy => copy.reply.body = store[k][doc]
                                   /\ copy # NoCopy => copy.left = MaxAge
                                   /\ copies' = [copies EXCEPT ![<<k, doc>>] = copy]
<1>1. PICK reply : /\ reply = Serve(URL(k, doc)) /\ reply.maxAge > 0
                   /\ copies' = [copies EXCEPT ![<<k, doc>>] = [reply |-> reply, left |-> reply.maxAge]]
  BY DEF Fetch
<1>2. /\ store[k] # NoEntry /\ reply.body = store[k][doc] /\ reply.maxAge = MaxAge
      /\ reply = HTTP!SetHSTS(HTTP!Document(store[k][doc]))
  BY <1>1, ServeURL DEF Inv
<1>3. store[k] \in Data
  BY <1>2 DEF ServerTypeOK, TypeOK
<1>4. [reply |-> reply, left |-> MaxAge] \in Copies
  BY <1>2, <1>3 DEF Copies
<1> DEFINE copy == [reply |-> reply, left |-> MaxAge]
<1>5. copy.reply.body = store[k][doc] /\ copy.left = MaxAge
  BY <1>2
<1>6. copies' = [copies EXCEPT ![<<k, doc>>] = copy]
  BY <1>1, <1>2
<1> QED
  BY <1>2, <1>4, <1>5, <1>6

LEMMA ServerNextType ==
    ASSUME Inv, ServerTypeOK, [ServerNext]_serverVars
    PROVE  ServerTypeOK'
<1>0. [Next]_vars
  BY ServerStep
<1>1. TypeOK'
  BY <1>0, NextType DEF Inv
<1>c. ASSUME NEW k \in Keys, NEW doc \in Docs, Fetch(k, doc)
      PROVE  \E copy \in Copies : copies' = [copies EXCEPT ![<<k, doc>>] = copy]
  BY <1>c, FetchType
<1> USE DEF ServerTypeOK
<1>a. disturbed \in Nat /\ disturbed' >= disturbed
  <2>1. disturbed \in Nat
    BY DEF TypeOK
  <2> QED
    BY <1>0, <2>1 DEF Next, Pass, GetSecret, GetProject, GetShoot, WriteEntry, DeleteEntry, End,
         GetFails, Start, EventDelivered, DelayPasses, SecretChanges, InformerResync,
         ProjectChanges, ShootChanges, Restart, reconcilerUnchanged, vars
<1>b. ASSUME NEW f \in [Keys -> 0..disturbed] PROVE f \in [Keys -> 0..disturbed']
  <2>1. disturbed' \in Nat
    BY <1>1 DEF TypeOK
  <2> QED
    BY <1>a, <2>1
<1>d. UNCHANGED retries => failures' \in [Keys -> 0..disturbed'] /\ startFailures' \in [Keys -> 0..disturbed']
  BY <1>b DEF retries
<1>2. ASSUME NEW k \in Keys, PassSteps(k) \/ ReadFails(k) \/ DelayEnds(k) \/ InformerRepeats(k), UNCHANGED copies
      PROVE  ServerTypeOK'
  <2>1. CASE PassSteps(k)
    BY <1>1, <1>d, <1>2, <2>1 DEF PassSteps, EntriesAge, timers
  <2>2. CASE ReadFails(k)
    <3>0. disturbed \in Nat /\ disturbed' = disturbed + 1
      BY <2>2 DEF ReadFails, GetFails, TypeOK
    <3>1. failures' \in [Keys -> 0..disturbed'] /\ startFailures' \in [Keys -> 0..disturbed']
      <4>1. ASSUME NEW f \in [Keys -> 0..disturbed]
            PROVE  [f EXCEPT ![k] = IF Behind(k) THEN @ + 1 ELSE @] \in [Keys -> 0..disturbed']
        <5>1. f[k] \in 0..disturbed' /\ f[k] + 1 \in 0..disturbed'
          BY <1>2, <3>0, <4>1
        <5>2. (IF Behind(k) THEN f[k] + 1 ELSE f[k]) \in 0..disturbed'
          BY <5>1
        <5>3. f \in [Keys -> 0..disturbed']
          BY <1>b, <4>1
        <5> QED
          BY <5>2, <5>3
      <4>2. failures \in [Keys -> 0..disturbed] /\ startFailures \in [Keys -> 0..disturbed]
        OBVIOUS
      <4>3. /\ failures' = [failures EXCEPT ![k] = IF Behind(k) THEN @ + 1 ELSE @]
            /\ startFailures' = [startFailures EXCEPT ![k] = IF Behind(k) THEN @ + 1 ELSE @]
        BY <2>2 DEF ReadFails
      <4> HIDE DEF ServerTypeOK
      <4> QED
        BY <4>1, <4>2, <4>3
    <3> QED
      BY <1>1, <1>2, <2>2, <3>1 DEF ReadFails, timers
  <2>3. CASE DelayEnds(k)
    BY <1>1, <1>d, <1>2, <2>3 DEF DelayEnds, timers, histories
  <2>4. CASE InformerRepeats(k)
    BY <1>1, <1>d, <1>2, <2>4 DEF InformerRepeats, histories
  <2> QED
    BY <1>2, <2>1, <2>2, <2>3, <2>4
<1>3. ASSUME NEW k \in Keys, PassEnds(k), UNCHANGED copies PROVE ServerTypeOK'
  <2>1. due' \in [Keys -> 0..(RetryDelay + ResyncPeriod)]
    BY <1>3, ControllerAssumption DEF PassEnds
  <2> QED
    BY <1>1, <1>d, <1>3, <2>1 DEF PassEnds, histories
<1>4. CASE ClusterChanges /\ UNCHANGED copies
  <2>1. disturbed \in Nat /\ disturbed' = disturbed + 1
    BY <1>4 DEF ClusterChanges, SecretChanges, ProjectChanges, ShootChanges, TypeOK
  <2>2. failures' \in [Keys -> 0..disturbed']
    <3>1. PICK hit \in SUBSET Keys :
            failures' = [k \in Keys |-> IF k \notin hit THEN failures[k]
                                       ELSE IF Retrying(k) THEN 1 ELSE 0]
      BY <1>4 DEF ClusterChanges
    <3>2. \A k \in Keys : failures[k] \in 0..disturbed
      OBVIOUS
    <3>3. \A n \in 0..disturbed : n \in 0..disturbed'
      BY <2>1
    <3>4. 0 \in 0..disturbed' /\ 1 \in 0..disturbed'
      BY <2>1
    <3> HIDE DEF ServerTypeOK
    <3> QED
      BY <3>1, <3>2, <3>3, <3>4
  <2>3. startFailures' \in [Keys -> 0..disturbed']
    BY <1>4, <1>b DEF ClusterChanges
  <2>4. age' \in [Keys -> 0..Horizon]
    BY <1>4 DEF ClusterChanges
  <2> QED
    BY <1>1, <1>4, <2>2, <2>3, <2>4 DEF ClusterChanges, timers
<1>5. CASE ProcessRestarts /\ UNCHANGED copies
  <2>1. failures' \in [Keys -> 0..disturbed']
    BY <1>5, <1>b DEF ProcessRestarts
  <2>2. startFailures' \in [Keys -> 0..disturbed']
    <3>1. disturbed' \in Nat
      BY <1>1 DEF TypeOK
    <3> QED
      BY <1>5, <3>1 DEF ProcessRestarts
  <2> QED
    BY <1>1, <1>5, <2>1, <2>2, ControllerAssumption DEF ProcessRestarts, EntriesAge
<1>6. ASSUME NEW k \in Keys, NEW doc \in Docs, Fetch(k, doc) PROVE ServerTypeOK'
  <2>1. copies' \in [Keys \X Docs -> Copies]
    <3>1. PICK copy : copy \in Copies /\ copies' = [copies EXCEPT ![<<k, doc>>] = copy]
      BY <1>6, <1>c
    <3> QED
      BY <3>1
  <2> QED
    BY <1>1, <1>d, <1>6, <2>1 DEF Fetch, timers, histories, vars
<1>7. CASE Tick
  <2>1. due' \in [Keys -> 0..(RetryDelay + ResyncPeriod)]
    BY <1>7, ControllerAssumption DEF Tick, Sooner
  <2>2. age' \in [Keys -> 0..Horizon] /\ entryAge' \in [Keys -> 0..Horizon] /\ uptime' \in 0..Horizon
    BY <1>7 DEF Tick, Later
  <2>3. informerDue' \in 0..InformerPeriod
    BY <1>7 DEF Tick
  <2>4. copies' \in [Keys \X Docs -> Copies]
    BY <1>7 DEF Tick, Copies
  <2> QED
    BY <1>1, <1>d, <1>7, <2>1, <2>2, <2>3, <2>4 DEF Tick
<1>8. CASE UNCHANGED serverVars
  BY <1>1, <1>d, <1>8 DEF serverVars, timers, histories
<1> QED
  BY <1>2, <1>3, <1>4, <1>5, <1>6, <1>7, <1>8 DEF ServerNext, ReconcilerStep

-----------------------------------------------------------------------------
(* The parts of the invariant that are about one key, under a step that    *)
(* does not touch the key. *)

LEMMA Untouched ==
    ASSUME ServerTypeOK, NEW j \in Keys, KeyInv(j),
           pending'[j] = pending[j], queued'[j] = queued[j], pc'[j] = pc[j], store'[j] = store[j],
           j \in fresh' <=> j \in fresh, due'[j] = due[j], informerDue' = informerDue,
           j \in repeated' <=> j \in repeated, age'[j] = age[j], entryAge'[j] = entryAge[j],
           uptime' = uptime, steady' = steady, copies' = copies, UNCHANGED clusterVars,
           failures'[j] = failures[j], startFailures'[j] = startFailures[j]
    PROVE  KeyInv(j)'
<1>1. Expected(j)' = Expected(j)
  BY SameCachesSameVerdict DEF clusterVars
<1>2. RetryTime(j)' = RetryTime(j) /\ StartRetryTime(j)' = StartRetryTime(j)
  BY RetryTimeFacts
<1>3. Delay(j)' = Delay(j) /\ Wait(j)' = Wait(j)
  BY DEF Delay, Wait, AtRest
<1>4. /\ age[j] \in Nat /\ uptime \in Nat /\ Delay(j) \in Nat /\ Wait(j) \in Nat
      /\ \A doc \in Docs : copies[<<j, doc>>] # NoCopy => copies[<<j, doc>>].left \in Nat
  BY ControllerAssumption DEF ServerTypeOK, Delay, Wait, Copies
<1>5. PassInTime(j)'
  BY <1>2 DEF KeyInv, PassInTime
<1>6. StaleInTime(j)' /\ AbsentInTime(j)'
  BY <1>1, <1>2, <1>3, <1>4, ControllerAssumption DEF KeyInv, StaleInTime, AbsentInTime, Absent
<1>7. SteadyIsExact(j)'
  BY <1>1 DEF KeyInv, SteadyIsExact, Absent
<1>8. ASSUME NEW doc \in Docs PROVE CopyInTime(j, doc)'
  <2>1. CopyInTime(j, doc)
    BY DEF KeyInv
  <2>2. CASE copies[<<j, doc>>] = NoCopy
    BY <2>2 DEF CopyInTime
  <2>3. CASE copies[<<j, doc>>] # NoCopy
    <3>1. copies[<<j, doc>>].left \in Nat
      BY <1>4, <2>3
    <3> QED
      BY <1>1, <1>2, <1>4, <2>1, <2>3, <3>1, ControllerAssumption DEF CopyInTime
  <2> QED
    BY <2>2, <2>3
<1> QED
  BY <1>5, <1>6, <1>7, <1>8 DEF KeyInv

\* The delay of a key, whatever its state.
LEMMA DelayBounds ==
    ASSUME ServerTypeOK, NEW j \in Keys, PassInTime(j)
    PROVE  /\ Delay(j) \in Nat /\ Wait(j) \in Nat
           /\ Retrying(j) => Delay(j) <= RetryDelay
           /\ Retrying(j) => Wait(j) <= RetryDelay \/ Wait(j) <= InformerPeriod
           /\ ~Retrying(j) => Delay(j) <= ResyncPeriod /\ Wait(j) <= InformerPeriod
           /\ age[j] \in Nat /\ uptime \in Nat /\ entryAge[j] \in Nat
           /\ RetryTime(j) \in Nat /\ StartRetryTime(j) \in Nat
           /\ \A doc \in Docs : copies[<<j, doc>>] # NoCopy => copies[<<j, doc>>].left \in 1..MaxAge
<1>1. RetryTime(j) \in Nat /\ StartRetryTime(j) \in Nat
  BY RetryTimeFacts
<1>2. due[j] \in Nat /\ informerDue \in Nat /\ informerDue <= InformerPeriod
  BY ControllerAssumption DEF ServerTypeOK
<1>3. Delay(j) \in Nat /\ Wait(j) \in Nat
  BY <1>2 DEF Delay, Wait
<1>4. /\ Retrying(j) => Delay(j) <= RetryDelay
      /\ ~Retrying(j) => Delay(j) <= ResyncPeriod
      /\ ~Retrying(j) /\ queued[j] # "resync" => Delay(j) = 0
  <2>1. ResyncPeriod \in Nat /\ RetryDelay \in Nat
    BY ControllerAssumption
  <2>2. CASE pc[j] = "rateLimited"
    BY <2>1, <2>2 DEF Delay, Retrying
  <2>3. CASE pc[j] # "rateLimited"
    BY <1>2, <2>1, <2>3 DEF PassInTime, Delay, Retrying
  <2> QED
    BY <2>2, <2>3
<1>5. /\ Retrying(j) => Wait(j) <= RetryDelay \/ Wait(j) <= InformerPeriod
      /\ ~Retrying(j) => Wait(j) <= InformerPeriod
  BY <1>2, <1>3, <1>4 DEF Wait
<1>6. age[j] \in Nat /\ uptime \in Nat /\ entryAge[j] \in Nat
  BY DEF ServerTypeOK
<1>7. ASSUME NEW doc \in Docs, copies[<<j, doc>>] # NoCopy PROVE copies[<<j, doc>>].left \in 1..MaxAge
  BY <1>7 DEF ServerTypeOK, Copies
<1> QED
  BY <1>1, <1>3, <1>4, <1>5, <1>6, <1>7

\* What the handlers serve after a change of an entry, and the copies.
LEMMA CopiesAfterEntry ==
    ASSUME ServerTypeOK, NEW j \in Keys, KeyInv(j), UNCHANGED clusterVars, EntriesAge,
           copies' = copies, age' = age, failures' = failures
    PROVE  \A doc \in Docs : CopyInTime(j, doc)'
<1> SUFFICES ASSUME NEW doc \in Docs PROVE CopyInTime(j, doc)'
  OBVIOUS
<1>1. Expected(j)' = Expected(j)
  BY SameCachesSameVerdict DEF clusterVars
<1>2. RetryTime(j)' = RetryTime(j)
  BY DEF RetryTime
<1>3. CopyInTime(j, doc)
  BY DEF KeyInv
<1>4. copies[<<j, doc>>] # NoCopy => copies[<<j, doc>>].left \in 1..MaxAge
  BY DelayBounds DEF KeyInv
<1>5. entryAge'[j] = IF store'[j] # store[j] THEN 0 ELSE entryAge[j]
  BY DEF EntriesAge
<1> QED
  BY <1>1, <1>2, <1>3, <1>4, <1>5 DEF CopyInTime

-----------------------------------------------------------------------------
(* The steps of the reconciler about the key itself. *)

LEMMA PassStepInTime ==
    ASSUME Inv, Inv', ServerTypeOK, NEW k \in Keys, KeyInv(k), PassSteps(k), copies' = copies
    PROVE  KeyInv(k)'
<1>1. /\ UNCHANGED clusterVars /\ UNCHANGED timers /\ EntriesAge
      /\ age' = age /\ uptime' = uptime /\ steady' = steady /\ UNCHANGED retries
  BY DEF PassSteps, Start, EventDelivered, GetSecret, GetProject, GetShoot, WriteEntry, DeleteEntry,
         reconcilerUnchanged
<1>2. Expected(k)' = Expected(k)
  BY <1>1, SameCachesSameVerdict DEF clusterVars
<1>3. RetryTime(k)' = RetryTime(k) /\ StartRetryTime(k)' = StartRetryTime(k)
  BY <1>1 DEF RetryTime, StartRetryTime, histories, retries
<1>4. /\ PassInTime(k) /\ StaleInTime(k) /\ AbsentInTime(k) /\ SteadyIsExact(k)
      /\ PassIsCurrent(k) /\ PassIsExact(k) /\ PassIsExact(k)'
  BY DEF KeyInv, Inv
<1>5. \/ Start(k) /\ pc[k] = "idle" /\ queued[k] = "now" /\ pc'[k] = "getSecret" /\ queued'[k] = "no"
         /\ pending'[k] = pending[k] /\ store'[k] = store[k] /\ k \in fresh'
      \/ EventDelivered(k) /\ pending[k] > 0 /\ queued'[k] = "now" /\ pc'[k] = pc[k]
         /\ store'[k] = store[k] /\ fresh' = fresh
      \/ /\ pc[k] \in Steps /\ pc'[k] \notin {"idle", "rateLimited"} /\ queued'[k] = queued[k] /\ fresh' = fresh
         /\ \/ store'[k] = store[k]
            \/ pc[k] = "write" /\ pc'[k] = "requeueAfter"
            \/ pc[k] = "delete" /\ store'[k] = NoEntry
  <2> USE DEF Inv, TypeOK, ControllerTypeOK
  <2>1. CASE Start(k)
    BY <2>1 DEF Start, Dequeue, Goto
  <2>2. CASE EventDelivered(k)
    BY <2>2 DEF EventDelivered, Deliver
  <2>3. CASE GetSecret(k) \/ GetProject(k)
    BY <2>3 DEF GetSecret, GetProject, Goto, reconcilerUnchanged, Steps, Reads
  <2>4. CASE GetShoot(k)
    <3>1. AfterContentChecks(snap[k]) \in {"write", "delete"}
      <4>1. snap[k] \in SecretValues /\ snap[k].jwks # Unset
        BY <2>4 DEF GetShoot, PassIsValidated, SecretChecks
      <4> QED
        BY <4>1, NoNullKeySet DEF AfterContentChecks, LoadKeySet
    <3> QED
      BY <2>4, <3>1 DEF GetShoot, Goto, reconcilerUnchanged, Steps, Reads
  <2>5. CASE WriteEntry(k)
    BY <2>5 DEF WriteEntry, Goto, reconcilerUnchanged, Steps
  <2>6. CASE DeleteEntry(k)
    BY <2>6 DEF DeleteEntry, Goto, reconcilerUnchanged, Steps
  <2> QED
    BY <2>1, <2>2, <2>3, <2>4, <2>5, <2>6 DEF PassSteps
<1>6. pc[k] # "idle" => queued[k] \in {"no", "now"}
  BY <1>4 DEF PassIsCurrent
<1>7. "rateLimited" \notin Steps /\ "idle" \notin Steps
  BY DEF Steps, Reads
<1>8. PassInTime(k)'
  BY <1>1, <1>4, <1>5, <1>6, <1>7 DEF PassInTime, timers
<1>9. /\ Delay(k) \in Nat /\ Wait(k) \in Nat /\ Delay(k)' \in Nat /\ Wait(k)' \in Nat
      /\ age[k] \in Nat /\ uptime \in Nat /\ RetryTime(k) \in Nat /\ StartRetryTime(k) \in Nat
  <2>1. due[k] \in Nat /\ informerDue \in Nat
    BY ControllerAssumption DEF ServerTypeOK
  <2>2. Delay(k)' \in Nat /\ Wait(k)' \in Nat
    BY <1>1, <2>1 DEF Delay, Wait, timers
  <2> QED
    BY <1>4, <2>2, DelayBounds
<1>10. Delay(k)' <= Delay(k)
  BY <1>1, <1>5, <1>6, <1>7, <1>9 DEF Delay, timers
<1>11. ~AtRest(k) /\ ~AtRest(k)'
  BY <1>5, <1>7 DEF AtRest
<1>12. Wait(k)' <= Wait(k)
  BY <1>1, <1>5, <1>6, <1>7, <1>9, <1>10, <1>11 DEF Wait, Delay, timers
<1>13. store'[k] # store[k] => age[k] = 0 \/ store'[k] = Expected(k)
  BY <1>2, <1>4, <1>5, <1>7 DEF PassInTime, PassIsExact, Expected
<1>14. store'[k] # store[k] => Delay(k)' = 0 /\ Wait(k)' = 0
  BY <1>1, <1>5, <1>6, <1>7, <1>11 DEF Delay, Wait
<1>15. StaleInTime(k)'
  <2>1. CASE store'[k] = store[k]
    BY <1>1, <1>2, <1>3, <1>4, <1>9, <1>10, <2>1, ControllerAssumption DEF StaleInTime
  <2>2. CASE store'[k] # store[k]
    BY <1>1, <1>2, <1>3, <1>9, <1>13, <1>14, <2>2, ControllerAssumption DEF StaleInTime
  <2> QED
    BY <2>1, <2>2
<1>16. AbsentInTime(k)'
  <2>1. CASE store'[k] = store[k]
    <3>1. Absent(k)' = Absent(k)
      BY <1>2, <2>1 DEF Absent
    <3>2. InformerPeriod \in Nat
      BY DiscoveryServerAssumption
    <3> QED
      BY <1>1, <1>3, <1>4, <1>9, <1>12, <3>1, <3>2 DEF AbsentInTime
  <2>2. CASE store'[k] # store[k]
    BY <1>1, <1>2, <1>3, <1>9, <1>13, <1>14, <2>2 DEF AbsentInTime, Absent
  <2> QED
    BY <2>1, <2>2
<1>17. SteadyIsExact(k)'
  BY <1>1, <1>2, <1>4, <1>5, <1>7 DEF SteadyIsExact, Absent
<1>18. \A doc \in Docs : CopyInTime(k, doc)'
  BY <1>1, CopiesAfterEntry DEF retries
<1> QED
  BY <1>8, <1>15, <1>16, <1>17, <1>18 DEF KeyInv

\* The pass that ends leaves what should be served, or has been disturbed
\* just now, or is followed by a retry.
LEMMA PassEndInTime ==
    ASSUME Inv, ServerTypeOK, NEW k \in Keys, KeyInv(k), PassEnds(k), copies' = copies
    PROVE  KeyInv(k)'
<1>1. /\ UNCHANGED clusterVars /\ store' = store /\ pending' = pending /\ EntriesAge
      /\ fresh' = fresh \ {k}
      /\ UNCHANGED <<informerDue, repeated, age, entryAge, uptime, steady, failures, startFailures>>
  BY DEF PassEnds, End, Finish, EntriesAge, ServerTypeOK, histories, retries
<1>2. Expected(k)' = Expected(k)
  BY <1>1, SameCachesSameVerdict DEF clusterVars
<1>3. RetryTime(k)' = RetryTime(k) /\ StartRetryTime(k)' = StartRetryTime(k)
  BY <1>1 DEF RetryTime, StartRetryTime, histories, retries
<1>4. /\ PassInTime(k) /\ StaleInTime(k) /\ AbsentInTime(k) /\ SteadyIsExact(k)
      /\ PassIsCurrent(k) /\ PassIsExact(k) /\ PassIsValidated(k)
  BY DEF KeyInv, Inv
<1>5. /\ pc[k] \in Results /\ pc'[k] = "idle" /\ queued[k] \in {"no", "now"}
      /\ queued'[k] = QueuedAfter(pc[k], queued[k])
      /\ due'[k] = CASE queued'[k] = "retry" -> RetryDelay
                     [] queued'[k] = "resync" -> ResyncPeriod
                     [] OTHER -> 0
  BY <1>4 DEF PassEnds, End, Finish, Goto, PassIsCurrent, Results, Inv, TypeOK, ControllerTypeOK, ServerTypeOK
<1>6. \/ queued'[k] = "now" /\ Delay(k)' = 0 /\ Wait(k)' = 0
      \/ /\ pc[k] = "rateLimited" /\ queued[k] = "no" /\ queued'[k] = "retry" /\ due'[k] = RetryDelay
         /\ Delay(k)' = RetryDelay /\ Wait(k)' = RetryDelay
         /\ Delay(k) = RetryDelay /\ Wait(k) = RetryDelay
      \/ /\ pc[k] = "requeueAfter" /\ queued'[k] = "resync" /\ due'[k] = ResyncPeriod
         /\ Delay(k)' = ResyncPeriod
      \/ pc[k] = "forget" /\ queued'[k] = "no" /\ Delay(k)' = 0
  BY <1>5, ControllerAssumption DEF Results, QueuedAfter, Delay, Wait, AtRest
<1>7. PassInTime(k)'
  BY <1>1, <1>4, <1>5, <1>6, ControllerAssumption DEF PassInTime
<1>8. /\ Delay(k) \in Nat /\ Wait(k) \in Nat /\ age[k] \in Nat /\ uptime \in Nat /\ RetryTime(k) \in Nat /\ StartRetryTime(k) \in Nat
  BY <1>4, DelayBounds
<1>9. Wait(k)' \in Nat /\ (pc[k] # "rateLimited" => Wait(k)' <= InformerPeriod)
  <2>1. informerDue \in Nat /\ informerDue <= InformerPeriod
    BY DEF ServerTypeOK
  <2> QED
    BY <1>1, <1>5, <1>6, <2>1 DEF Wait, Results
<1>10. pc[k] \in {"forget", "requeueAfter"} => store[k] = Expected(k) \/ age[k] = 0
  BY <1>4 DEF PassInTime, PassIsExact
<1>11. StaleInTime(k)'
  BY <1>1, <1>2, <1>3, <1>4, <1>6, <1>8, <1>10, ControllerAssumption
     DEF StaleInTime, PassIsValidated
<1>12. AbsentInTime(k)'
  <2>1. CASE queued'[k] = "now" \/ pc[k] = "rateLimited"
    BY <1>1, <1>2, <1>3, <1>4, <1>5, <1>6, <1>8, <2>1 DEF AbsentInTime, Absent
  <2>2. CASE pc[k] # "rateLimited"
    <3>1. Absent(k)' => age[k] = 0
      BY <1>1, <1>2, <1>5, <1>10, <2>2 DEF Absent, Results
    <3> QED
      BY <1>1, <1>3, <1>8, <1>9, <2>2, <3>1 DEF AbsentInTime
  <2> QED
    BY <2>1, <2>2
<1>13. SteadyIsExact(k)'
  BY <1>1, <1>2, <1>4, <1>5, <1>6 DEF SteadyIsExact, Absent, PassIsExact
<1>14. \A doc \in Docs : CopyInTime(k, doc)'
  BY <1>1, CopiesAfterEntry
<1> QED
  BY <1>7, <1>11, <1>12, <1>13, <1>14 DEF KeyInv

\* A failed read gives the key the time of a retry.
LEMMA ReadFailsInTime ==
    ASSUME Inv, ServerTypeOK, NEW k \in Keys, KeyInv(k), ReadFails(k), copies' = copies
    PROVE  KeyInv(k)'
<1>1. /\ UNCHANGED clusterVars /\ store' = store /\ pending' = pending /\ queued' = queued
      /\ fresh' = fresh /\ UNCHANGED timers /\ UNCHANGED <<age, entryAge, uptime, steady>>
      /\ failures'[k] = (IF Behind(k) THEN failures[k] + 1 ELSE failures[k])
      /\ startFailures'[k] = (IF Behind(k) THEN startFailures[k] + 1 ELSE startFailures[k])
      /\ pc[k] \in Reads /\ pc'[k] = "rateLimited"
  BY DEF ReadFails, GetFails, Goto, Inv, TypeOK, ControllerTypeOK, ServerTypeOK
<1>2. Expected(k)' = Expected(k)
  BY <1>1, SameCachesSameVerdict DEF clusterVars
<1>3. /\ RetryTime(k)' = RetryTime(k) + (IF Behind(k) THEN RetryDelay ELSE 0)
      /\ StartRetryTime(k)' = StartRetryTime(k) + (IF Behind(k) THEN RetryDelay ELSE 0)
  BY <1>1, RetryTimeFacts
<1>4. /\ PassInTime(k) /\ StaleInTime(k) /\ AbsentInTime(k) /\ SteadyIsExact(k)
      /\ queued[k] \in {"no", "now"}
  BY <1>1 DEF KeyInv, Inv, PassIsCurrent, Reads
<1>5. Delay(k) = 0 /\ Wait(k) = 0 /\ Delay(k)' = RetryDelay /\ Wait(k)' = RetryDelay
  BY <1>1, <1>4 DEF Delay, Wait, AtRest, Reads
<1>6. /\ age[k] \in Nat /\ uptime \in Nat /\ RetryTime(k) \in Nat /\ StartRetryTime(k) \in Nat
      /\ \A doc \in Docs : copies[<<k, doc>>] # NoCopy => copies[<<k, doc>>].left \in 1..MaxAge
  BY <1>4, DelayBounds
<1>7. PassInTime(k)'
  BY <1>1, <1>3, <1>4 DEF PassInTime, Reads, timers
<1>8. StaleInTime(k)' /\ AbsentInTime(k)'
  BY <1>1, <1>2, <1>3, <1>4, <1>5, <1>6, ControllerAssumption
     DEF StaleInTime, AbsentInTime, Absent, Behind
<1>9. SteadyIsExact(k)'
  BY <1>1, <1>2, <1>4 DEF SteadyIsExact, Reads
<1>10. ASSUME NEW doc \in Docs PROVE CopyInTime(k, doc)'
  <2>1. CopyInTime(k, doc)
    BY DEF KeyInv
  <2> QED
    BY <1>1, <1>2, <1>3, <1>6, <2>1, ControllerAssumption DEF CopyInTime
<1> QED
  BY <1>7, <1>8, <1>9, <1>10 DEF KeyInv

LEMMA DelayEndsInTime ==
    ASSUME Inv, ServerTypeOK, NEW k \in Keys, KeyInv(k), DelayEnds(k), copies' = copies
    PROVE  KeyInv(k)'
<1>1. /\ UNCHANGED clusterVars /\ store' = store /\ pending' = pending /\ pc' = pc
      /\ fresh' = fresh /\ UNCHANGED timers /\ UNCHANGED histories
      /\ due[k] = 0 /\ queued[k] \in {"retry", "resync"} /\ queued'[k] = "now"
  BY DEF DelayEnds, DelayPasses, TimerFires, Inv, TypeOK, ControllerTypeOK
<1>2. Expected(k)' = Expected(k)
  BY <1>1, SameCachesSameVerdict DEF clusterVars
<1>3. RetryTime(k)' = RetryTime(k) /\ StartRetryTime(k)' = StartRetryTime(k)
  BY <1>1 DEF RetryTime, StartRetryTime, histories, retries
<1>4. /\ PassInTime(k) /\ StaleInTime(k) /\ AbsentInTime(k) /\ SteadyIsExact(k)
      /\ pc[k] = "idle"
  BY <1>1 DEF KeyInv, Inv, PassIsCurrent
<1>5. Delay(k)' = 0 /\ Wait(k)' = 0
  BY <1>1, <1>4 DEF Delay, Wait, AtRest
<1>6. /\ age[k] \in Nat /\ uptime \in Nat /\ RetryTime(k) \in Nat /\ StartRetryTime(k) \in Nat /\ Delay(k) \in Nat /\ Wait(k) \in Nat
  BY <1>4, DelayBounds
<1>7. PassInTime(k)'
  BY <1>1, <1>4 DEF PassInTime, histories
<1>8. StaleInTime(k)' /\ AbsentInTime(k)'
  BY <1>1, <1>2, <1>3, <1>4, <1>5, <1>6, ControllerAssumption
     DEF StaleInTime, AbsentInTime, Absent, histories
<1>9. SteadyIsExact(k)'
  BY <1>1, <1>4 DEF SteadyIsExact, histories
<1>10. \A doc \in Docs : CopyInTime(k, doc)'
  <2>1. EntriesAge /\ age' = age /\ failures' = failures
    BY <1>1 DEF EntriesAge, ServerTypeOK, histories, retries
  <2> QED
    BY <1>1, <2>1, CopiesAfterEntry
<1> QED
  BY <1>7, <1>8, <1>9, <1>10 DEF KeyInv

\* The informer notifies of whatever should be served.
LEMMA InformerRepeatsInTime ==
    ASSUME Inv, ServerTypeOK, NEW k \in Keys, KeyInv(k), InformerRepeats(k), copies' = copies
    PROVE  KeyInv(k)'
<1>1. /\ UNCHANGED clusterVars /\ store' = store /\ queued' = queued /\ pc' = pc
      /\ fresh' = fresh /\ UNCHANGED <<due, informerDue>> /\ UNCHANGED histories
      /\ informerDue = 0 /\ k \notin repeated /\ pending[k] = 0
      /\ isRelevantSecret(secret[k]) => pending'[k] > 0
  BY DEF InformerRepeats, InformerResync, Notify, isRelevantSecretUpdate, Inv, TypeOK, ControllerTypeOK
<1>2. Expected(k)' = Expected(k)
  BY <1>1, SameCachesSameVerdict DEF clusterVars
<1>3. RetryTime(k)' = RetryTime(k) /\ StartRetryTime(k)' = StartRetryTime(k)
  BY <1>1 DEF RetryTime, StartRetryTime, histories, retries
<1>4. /\ PassInTime(k) /\ StaleInTime(k) /\ AbsentInTime(k) /\ SteadyIsExact(k)
  BY DEF KeyInv
<1>5. Delay(k)' = Delay(k)
  BY <1>1 DEF Delay
<1>6. /\ age[k] \in Nat /\ uptime \in Nat /\ RetryTime(k) \in Nat /\ StartRetryTime(k) \in Nat /\ Delay(k) \in Nat /\ Wait(k) \in Nat
  BY <1>4, DelayBounds
<1>7. Absent(k)' => pending'[k] > 0
  BY <1>1, <1>2, ValidIsRelevant DEF Absent, Expected, Publishable
<1>8. Absent(k)' => Wait(k)' <= Wait(k) /\ Wait(k)' \in Nat
  <2>1. ASSUME Absent(k)' PROVE Wait(k)' = IF queued[k] = "resync" THEN 0 ELSE Delay(k)
    BY <1>1, <1>5, <1>7, <2>1 DEF Wait, AtRest
  <2>2. CASE AtRest(k)
    BY <1>6, <2>1, <2>2 DEF AtRest, Delay
  <2>3. CASE ~AtRest(k)
    BY <1>6, <2>1, <2>3 DEF Wait
  <2> QED
    BY <2>2, <2>3
<1>9. PassInTime(k)'
  BY <1>1, <1>4 DEF PassInTime, histories
<1>10. StaleInTime(k)' /\ AbsentInTime(k)'
  BY <1>1, <1>2, <1>3, <1>4, <1>5, <1>6, <1>8, ControllerAssumption
     DEF StaleInTime, AbsentInTime, Absent, histories
<1>11. SteadyIsExact(k)'
  BY <1>1, <1>4, <1>7 DEF SteadyIsExact, histories
<1>12. \A doc \in Docs : CopyInTime(k, doc)'
  <2>1. EntriesAge /\ age' = age /\ failures' = failures
    BY <1>1 DEF EntriesAge, ServerTypeOK, histories, retries
  <2> QED
    BY <1>1, <2>1, CopiesAfterEntry
<1> QED
  BY <1>9, <1>10, <1>11, <1>12 DEF KeyInv

-----------------------------------------------------------------------------
(* The cluster, the process, relying parties and time. *)

\* A change either leaves the verdict on a key and its pass alone, or makes
\* its age zero.
LEMMA ClusterChangesInTime ==
    ASSUME Inv, ServerTypeOK, NEW k \in Keys, KeyInv(k), ClusterChanges, copies' = copies
    PROVE  KeyInv(k)'
<1>1. /\ store' = store /\ queued' = queued /\ pc' = pc /\ UNCHANGED timers
      /\ UNCHANGED <<entryAge, uptime, startFailures>>
      /\ pending[k] \in Nat /\ pending'[k] \in Nat /\ pending'[k] >= pending[k]
      /\ fresh' \subseteq fresh
  <2>1. pending \in [Keys -> Nat]
    BY DEF Inv, TypeOK, ControllerTypeOK
  <2>2. UNCHANGED timers /\ UNCHANGED <<entryAge, uptime, startFailures>>
    BY DEF ClusterChanges
  <2>3. ASSUME NEW j \in Keys, SecretChanges(j)
        PROVE  /\ store' = store /\ queued' = queued /\ pc' = pc /\ fresh' \subseteq fresh
               /\ pending'[k] \in Nat /\ pending'[k] >= pending[k]
    BY <2>1, <2>3 DEF SecretChanges, Notify
  <2>4. CASE ProjectChanges \/ ShootChanges
    BY <2>1, <2>2, <2>4 DEF ProjectChanges, ShootChanges, controllerVars
  <2> QED
    BY <2>1, <2>2, <2>3, <2>4 DEF ClusterChanges
<1>2. \/ /\ Expected(k)' = Expected(k) /\ (k \in fresh' <=> k \in fresh)
         /\ age'[k] = age[k] /\ failures'[k] = failures[k]
      \/ age'[k] = 0 /\ failures'[k] = (IF Retrying(k) THEN 1 ELSE 0)
  BY <1>1 DEF ClusterChanges
<1>3. /\ failures'[k] = failures[k] => RetryTime(k)' = RetryTime(k)
      /\ failures'[k] = (IF Retrying(k) THEN 1 ELSE 0) =>
           RetryTime(k)' = (IF Retrying(k) THEN RetryDelay ELSE 0)
      /\ StartRetryTime(k)' = StartRetryTime(k)
  BY <1>1, RetryTimeFacts
<1>4. /\ PassInTime(k) /\ StaleInTime(k) /\ AbsentInTime(k) /\ SteadyIsExact(k)
  BY DEF KeyInv
<1>5. Delay(k)' = Delay(k)
  BY <1>1 DEF Delay, timers
<1>6. /\ age[k] \in Nat /\ uptime \in Nat /\ RetryTime(k) \in Nat /\ StartRetryTime(k) \in Nat /\ Delay(k) \in Nat /\ Wait(k) \in Nat
      /\ Retrying(k) => Delay(k) <= RetryDelay
      /\ Retrying(k) => Wait(k) <= RetryDelay \/ Wait(k) <= InformerPeriod
      /\ ~Retrying(k) => Delay(k) <= ResyncPeriod /\ Wait(k) <= InformerPeriod
      /\ \A doc \in Docs : copies[<<k, doc>>] # NoCopy => copies[<<k, doc>>].left \in 1..MaxAge
  BY <1>4, DelayBounds
<1>7. Wait(k)' <= Wait(k) /\ Wait(k)' \in Nat
  <2>1. CASE AtRest(k)' <=> AtRest(k)
    BY <1>1, <1>5, <1>6, <2>1 DEF Wait, timers
  <2>2. CASE AtRest(k) /\ ~AtRest(k)'
    BY <1>1, <1>5, <1>6, <2>2 DEF Wait, AtRest, Delay, timers
  <2>3. AtRest(k)' => AtRest(k)
    BY <1>1 DEF AtRest
  <2> QED
    BY <2>1, <2>2, <2>3
<1>8. PassInTime(k)'
  BY <1>1, <1>2, <1>4 DEF PassInTime, timers
<1>9. StaleInTime(k)'
  BY <1>1, <1>2, <1>3, <1>4, <1>5, <1>6, ControllerAssumption DEF StaleInTime
<1>a. InformerPeriod \in Nat /\ RetryDelay \in Nat /\ ResyncPeriod \in Nat /\ MaxAge \in Nat
  BY DiscoveryServerAssumption, ControllerAssumption
<1>10. AbsentInTime(k)'
  <2>1. CASE Expected(k)' = Expected(k) /\ age'[k] = age[k] /\ failures'[k] = failures[k]
    <3>1. RetryTime(k)' = RetryTime(k) /\ Absent(k)' = Absent(k)
      BY <1>1, <1>3, <2>1 DEF Absent
    <3> QED
      BY <1>1, <1>3, <1>4, <1>6, <1>7, <1>a, <2>1, <3>1 DEF AbsentInTime
  <2>2. CASE age'[k] = 0 /\ failures'[k] = (IF Retrying(k) THEN 1 ELSE 0)
    <3>1. Wait(k)' <= InformerPeriod + RetryTime(k)'
      BY <1>3, <1>6, <1>7, <1>a, <2>2
    <3> QED
      BY <1>7, <1>a, <2>2, <3>1 DEF AbsentInTime
  <2> QED
    BY <1>2, <2>1, <2>2
<1>11. SteadyIsExact(k)'
  <2>1. SUFFICES ASSUME k \in steady' PROVE SteadyIsExact(k)'
    BY DEF SteadyIsExact
  <2>2. PICK j \in Keys : SecretChanges(j) /\ secret' # secret
    BY <2>1 DEF ClusterChanges, ProjectChanges, ShootChanges
  <2>3. k \in steady /\ secret'[k] = secret[k]
    BY <2>1, <2>2 DEF ClusterChanges
  <2>4. secret'[j] # secret[j]
    BY <2>2 DEF SecretChanges, Inv, TypeOK
  <2>5. project' = project /\ shoot' = shoot /\ fresh' = fresh \ {j}
    BY <2>2 DEF SecretChanges
  <2>6. Expected(k)' = Expected(k)
    BY <2>3, <2>5, SameCachesSameVerdict
  <2> QED
    BY <1>1, <1>4, <2>3, <2>4, <2>5, <2>6 DEF SteadyIsExact, Absent
<1>12. ASSUME NEW doc \in Docs PROVE CopyInTime(k, doc)'
  <2>1. CopyInTime(k, doc)
    BY DEF KeyInv
  <2> QED
    <3>1. CASE Expected(k)' = Expected(k) /\ age'[k] = age[k] /\ failures'[k] = failures[k]
      <4>1. RetryTime(k)' = RetryTime(k)
        BY <1>3, <3>1
      <4> QED
        BY <1>1, <2>1, <3>1, <4>1 DEF CopyInTime
    <3>2. CASE age'[k] = 0 /\ failures'[k] = (IF Retrying(k) THEN 1 ELSE 0)
      <4>1. RetryTime(k)' \in Nat
        BY <1>3, <1>a, <3>2
      <4>2. copies[<<k, doc>>] # NoCopy => copies[<<k, doc>>].left \in 1..MaxAge
        BY <1>6
      <4>3. copies[<<k, doc>>] # NoCopy =>
              age'[k] + copies[<<k, doc>>].left <= ResyncPeriod + RetryTime(k)' + MaxAge
        BY <1>a, <3>2, <4>1, <4>2
      <4> QED
        BY <1>1, <2>1, <4>3 DEF CopyInTime
    <3> QED
      BY <1>2, <3>1, <3>2
<1> QED
  BY <1>8, <1>9, <1>10, <1>11, <1>12 DEF KeyInv

\* A new process has no entries, and gets every labelled Secret.
LEMMA RestartInTime ==
    ASSUME Inv, ServerTypeOK, NEW k \in Keys, KeyInv(k), ProcessRestarts, copies' = copies
    PROVE  KeyInv(k)'
<1>1. /\ UNCHANGED clusterVars /\ store'[k] = NoEntry /\ queued'[k] = "no" /\ pc'[k] = "idle"
      /\ pending'[k] = (IF isRelevantSecret(secret[k]) THEN 1 ELSE 0)
      /\ EntriesAge /\ age' = age /\ failures' = failures /\ uptime' = 0 /\ startFailures'[k] = 0
      /\ informerDue' = InformerPeriod /\ repeated' = {}
  BY DEF ProcessRestarts, Restart, ControllerStart
<1>2. Expected(k)' = Expected(k)
  BY <1>1, SameCachesSameVerdict DEF clusterVars
<1>3. StartRetryTime(k)' = 0
  BY <1>1, RetryTimeFacts
<1>4. PassInTime(k)' /\ StaleInTime(k)'
  BY <1>1 DEF PassInTime, StaleInTime
<1>5. AbsentInTime(k)'
  BY <1>1, <1>3 DEF AbsentInTime, Wait, Delay
<1>6. SteadyIsExact(k)'
  BY <1>1, <1>2, ValidIsRelevant DEF SteadyIsExact, Absent, Expected, Publishable
<1>7. \A doc \in Docs : CopyInTime(k, doc)'
  BY <1>1, CopiesAfterEntry
<1> QED
  BY <1>4, <1>5, <1>6, <1>7 DEF KeyInv

\* A function that was changed in one place.
LEMMA ChangedAt ==
    ASSUME NEW S, NEW T, NEW f \in [S -> T], NEW x \in S, NEW v, NEW g, g = [f EXCEPT ![x] = v]
    PROVE  g[x] = v /\ \A y \in S : y # x => g[y] = f[y]
OBVIOUS

\* What is fetched is the entry, which is not too old.
LEMMA FetchInTime ==
    ASSUME Inv, ServerTypeOK, NEW j \in Keys, NEW d \in Docs, Fetch(j, d),
           NEW k \in Keys, KeyInv(k)
    PROVE  KeyInv(k)'
<1>1. UNCHANGED <<vars, timers, histories>>
  BY DEF Fetch
<1>2. Expected(k)' = Expected(k)
  BY <1>1, SameCachesSameVerdict DEF vars, clusterVars
<1>3. RetryTime(k)' = RetryTime(k) /\ StartRetryTime(k)' = StartRetryTime(k)
  BY <1>1 DEF RetryTime, StartRetryTime, histories, retries
<1>4. Delay(k)' = Delay(k) /\ Wait(k)' = Wait(k)
  BY <1>1 DEF Delay, Wait, AtRest, vars, controllerVars, timers
<1>5. PassInTime(k)' /\ StaleInTime(k)' /\ AbsentInTime(k)' /\ SteadyIsExact(k)'
  BY <1>1, <1>2, <1>3, <1>4
     DEF KeyInv, PassInTime, StaleInTime, AbsentInTime, Absent, SteadyIsExact,
         vars, controllerVars, timers, histories
<1>6. ASSUME NEW doc \in Docs PROVE CopyInTime(k, doc)'
  <2>1. CopyInTime(k, doc) /\ StaleInTime(k) /\ PassInTime(k)
    BY DEF KeyInv
  <2>0. \E copy \in Copies : /\ copy # NoCopy => copy.reply.body = store[j][d]
                             /\ copy # NoCopy => copy.left = MaxAge
                             /\ copies' = [copies EXCEPT ![<<j, d>>] = copy]
    BY FetchType
  <2>2. PICK copy : /\ copy # NoCopy => copy.reply.body = store[j][d]
                    /\ copy # NoCopy => copy.left = MaxAge
                    /\ copies' = [copies EXCEPT ![<<j, d>>] = copy]
    BY <2>0
  <2>3. store[j] # NoEntry
    BY FetchType
  <2>4. /\ age[k] \in Nat /\ RetryTime(k) \in Nat /\ Delay(k) \in Nat
    BY <2>1, DelayBounds
  <2>5. copies \in [Keys \X Docs -> Copies]
    BY DEF ServerTypeOK
  <2> DEFINE x == <<j, d>>
             y == <<k, doc>>
  <2>8. x \in Keys \X Docs /\ y \in Keys \X Docs
    OBVIOUS
  <2>9. copies' = [copies EXCEPT ![x] = copy]
    BY <2>2
  <2>10. copies'[x] = copy /\ (y # x => copies'[y] = copies[y])
    <3> HIDE DEF x, y
    <3> QED
      BY <2>5, <2>8, <2>9, ChangedAt
  <2>6. CASE y = x
    <3>1. k = j /\ doc = d
      BY <2>6
    <3>2. copies'[<<k, doc>>] = copy
      BY <2>6, <2>10
    <3>3. store[k] # Expected(k) => age[k] <= ResyncPeriod + RetryTime(k)
      BY <2>1, <2>3, <2>4, <3>1, ControllerAssumption DEF StaleInTime
    <3>4. copy # NoCopy => copy.left = MaxAge /\ copy.reply.body = store[k][doc] /\ store[k] # NoEntry
      BY <2>2, <2>3, <3>1
    <3> HIDE DEF x, y
    <3> QED
      BY <1>1, <1>2, <1>3, <2>4, <3>2, <3>3, <3>4, ControllerAssumption
         DEF CopyInTime, vars, histories
  <2>7. CASE y # x
    <3>1. copies'[<<k, doc>>] = copies[<<k, doc>>]
      BY <2>7, <2>10
    <3> HIDE DEF x, y
    <3> QED
      BY <1>1, <1>2, <1>3, <2>1, <3>1 DEF CopyInTime, vars, histories
  <2> QED
    BY <2>6, <2>7
<1> QED
  BY <1>5, <1>6 DEF KeyInv

\* What a tick does to the sum of an age and of the time that is left.
LEMMA OneLess ==
    ASSUME NEW a \in Nat, NEW w \in Nat, NEW aNext \in Nat, NEW wNext \in Nat, NEW bound \in Nat,
           aNext <= a + 1, wNext = w - 1, a + w <= bound
    PROVE  aNext + wNext <= bound
OBVIOUS

\* Time goes on only when no key waits for anything but its delay.
LEMMA TickInTime ==
    ASSUME Inv, ServerTypeOK, repeated # {} => informerDue = 0, Tick, NEW k \in Keys, KeyInv(k)
    PROVE  KeyInv(k)'
<1>1. UNCHANGED <<vars, steady, failures, startFailures>> /\ repeated' = {}
  BY DEF Tick, retries
<1>2. Expected(k)' = Expected(k)
  BY <1>1, SameCachesSameVerdict DEF vars, clusterVars
<1>3. RetryTime(k)' = RetryTime(k) /\ StartRetryTime(k)' = StartRetryTime(k)
  BY <1>1 DEF RetryTime, StartRetryTime, histories, retries
<1>4. /\ PassInTime(k) /\ StaleInTime(k) /\ AbsentInTime(k) /\ SteadyIsExact(k)
  BY DEF KeyInv
<1>5. /\ pending[k] = 0 /\ pc[k] = "idle" /\ queued[k] \in {"no", "retry", "resync"}
      /\ queued[k] \in {"retry", "resync"} => due[k] > 0
      /\ informerDue = 0 => k \in repeated \/ secret[k] = NotFound
  BY DEF Tick, Urgent, Inv, TypeOK, ControllerTypeOK, ServerTypeOK
<1>6. /\ due[k] \in Nat /\ due'[k] = (IF due[k] > 0 THEN due[k] - 1 ELSE 0)
      /\ informerDue \in Nat
      /\ informerDue' = (IF informerDue = 0 THEN InformerPeriod ELSE informerDue) - 1
  BY ControllerAssumption DEF Tick, Sooner, ServerTypeOK
<1>7. /\ age[k] \in Nat /\ uptime \in Nat /\ entryAge[k] \in Nat
      /\ RetryTime(k) \in Nat /\ StartRetryTime(k) \in Nat
      /\ age'[k] \in Nat /\ uptime' \in Nat /\ entryAge'[k] \in Nat
      /\ age'[k] <= age[k] + 1 /\ uptime' <= uptime + 1 /\ entryAge'[k] <= entryAge[k] + 1
  <2>1. /\ age[k] \in Nat /\ uptime \in Nat /\ entryAge[k] \in Nat
        /\ RetryTime(k) \in Nat /\ StartRetryTime(k) \in Nat
    BY <1>4, DelayBounds
  <2>2. age'[k] = Later(age[k]) /\ uptime' = Later(uptime) /\ entryAge'[k] = Later(entryAge[k])
    BY DEF Tick
  <2>3. \A n \in Nat : Later(n) \in Nat /\ Later(n) <= n + 1
    BY DiscoveryServerAssumption DEF Later
  <2> QED
    BY <2>1, <2>2, <2>3
<1>a. InformerPeriod \in Nat /\ ResyncPeriod \in Nat /\ MaxAge \in Nat
  BY DiscoveryServerAssumption, ControllerAssumption
<1>8. PassInTime(k)'
  BY <1>1, <1>4, <1>5, <1>6, ControllerAssumption DEF PassInTime, vars, controllerVars
<1>9. StaleInTime(k)'
  <2>1. queued[k] = "no" => store[k] = NoEntry
    BY <1>5 DEF Inv, Tracked
  <2>2. queued[k] # "no" => Delay(k) = due[k] /\ Delay(k)' = due[k] - 1 /\ due[k] > 0
    BY <1>1, <1>5, <1>6 DEF Delay, vars, controllerVars
  <2>3. SUFFICES ASSUME store[k] \notin {NoEntry, Expected(k)}
                 PROVE  age'[k] + Delay(k)' <= ResyncPeriod + RetryTime(k)'
    BY <1>1, <1>2 DEF StaleInTime, vars
  <2>4. age[k] + Delay(k) <= ResyncPeriod + RetryTime(k)
    BY <1>4, <2>3 DEF StaleInTime
  <2>5. Delay(k) \in Nat /\ Delay(k)' \in Nat /\ Delay(k)' = Delay(k) - 1
    BY <1>6, <2>1, <2>2, <2>3
  <2>6. ResyncPeriod + RetryTime(k) \in Nat
    BY <1>7, <1>a
  <2>7. age'[k] + Delay(k)' <= ResyncPeriod + RetryTime(k)
    BY <1>7, <2>4, <2>5, <2>6, OneLess
  <2> QED
    BY <1>3, <2>7
<1>10. AbsentInTime(k)'
  <2>1. SUFFICES ASSUME Absent(k)' PROVE AbsentInTime(k)'
    BY DEF AbsentInTime
  <2>2. Absent(k) /\ secret[k] # NotFound
    BY <1>1, <1>2, <2>1 DEF Absent, Expected, Publishable, SecretValid, SecretValidAs, vars
  <2>3. Wait(k) \in Nat /\ Wait(k)' \in Nat /\ Wait(k)' = Wait(k) - 1
    <3>1. CASE queued[k] = "retry"
      BY <1>1, <1>5, <1>6, <3>1 DEF Wait, AtRest, Delay, vars, controllerVars
    <3>2. CASE queued[k] # "retry"
      <4>1. AtRest(k) /\ AtRest(k)'
        BY <1>1, <1>5, <3>2 DEF AtRest, vars, controllerVars
      <4> QED
        BY <1>1, <1>5, <1>6, <2>2, <4>1 DEF Wait
    <3> QED
      BY <3>1, <3>2
  <2>4. \/ age[k] + Wait(k) <= InformerPeriod + RetryTime(k)
        \/ uptime + Wait(k) <= InformerPeriod + StartRetryTime(k)
    BY <1>4, <2>2 DEF AbsentInTime
  <2>5. CASE age[k] + Wait(k) <= InformerPeriod + RetryTime(k)
    <3>1. InformerPeriod + RetryTime(k) \in Nat
      BY <1>7, <1>a
    <3>2. age'[k] + Wait(k)' <= InformerPeriod + RetryTime(k)
      BY <1>7, <2>3, <2>5, <3>1, OneLess
    <3>3. age'[k] + Wait(k)' <= InformerPeriod + RetryTime(k)'
      BY <1>3, <3>2
    <3> QED
      BY <3>3 DEF AbsentInTime
  <2>6. CASE uptime + Wait(k) <= InformerPeriod + StartRetryTime(k)
    <3>1. InformerPeriod + StartRetryTime(k) \in Nat
      BY <1>7, <1>a
    <3>2. uptime' + Wait(k)' <= InformerPeriod + StartRetryTime(k)
      BY <1>7, <2>3, <2>6, <3>1, OneLess
    <3>3. uptime' + Wait(k)' <= InformerPeriod + StartRetryTime(k)'
      BY <1>3, <3>2
    <3> QED
      BY <3>3 DEF AbsentInTime
  <2> QED
    BY <2>4, <2>5, <2>6
<1>11. SteadyIsExact(k)'
  BY <1>1, <1>2, <1>4 DEF SteadyIsExact, Absent, vars, controllerVars
<1>12. ASSUME NEW doc \in Docs PROVE CopyInTime(k, doc)'
  <2>1. CopyInTime(k, doc)
    BY DEF KeyInv
  <2>2. \/ copies'[<<k, doc>>] = NoCopy
        \/ /\ copies[<<k, doc>>] # NoCopy
           /\ copies'[<<k, doc>>] = [reply |-> copies[<<k, doc>>].reply, left |-> copies[<<k, doc>>].left - 1]
    BY DEF Tick
  <2>3. copies[<<k, doc>>] # NoCopy => copies[<<k, doc>>].left \in 1..MaxAge
    BY <1>4, DelayBounds
  <2>4. CASE copies'[<<k, doc>>] = NoCopy
    BY <2>4 DEF CopyInTime
  <2>5. CASE copies'[<<k, doc>>] # NoCopy
    <3>0. PICK old, new : old = copies[<<k, doc>>] /\ new = copies'[<<k, doc>>]
      OBVIOUS
    <3>1. old # NoCopy /\ new.reply = old.reply /\ new.left = old.left - 1 /\ old.left \in 1..MaxAge
      BY <2>2, <2>3, <2>5, <3>0
    <3>2. store' = store
      BY <1>1 DEF vars
    <3>3. /\ \/ store[k] # NoEntry /\ old.reply.body = store[k][doc]
             \/ entryAge[k] + old.left <= MaxAge
          /\ Expected(k) = NoEntry \/ old.reply.body # Expected(k)[doc] =>
               age[k] + old.left <= ResyncPeriod + RetryTime(k) + MaxAge
      BY <2>1, <3>0, <3>1 DEF CopyInTime
    <3>4. \/ store'[k] # NoEntry /\ new.reply.body = store'[k][doc]
          \/ entryAge'[k] + new.left <= MaxAge
      BY <1>7, <3>1, <3>2, <3>3
    <3>5. Expected(k)' = NoEntry \/ new.reply.body # Expected(k)'[doc] =>
            age'[k] + new.left <= ResyncPeriod + RetryTime(k)' + MaxAge
      <4>1. new.left = old.left - 1 /\ old.left \in Nat /\ new.left \in Nat
        BY <1>a, <3>1
      <4>2. ResyncPeriod + RetryTime(k) + MaxAge \in Nat
        BY <1>7, <1>a
      <4>3. age[k] + old.left <= ResyncPeriod + RetryTime(k) + MaxAge =>
              age'[k] + new.left <= ResyncPeriod + RetryTime(k) + MaxAge
        <5>1. age[k] \in Nat /\ age'[k] \in Nat /\ age'[k] <= age[k] + 1
          BY <1>7
        <5> QED
          BY <4>1, <4>2, <5>1, OneLess
      <4> QED
        BY <1>2, <1>3, <3>1, <3>3, <4>3
    <3> QED
      BY <3>0, <3>4, <3>5 DEF CopyInTime
  <2> QED
    BY <2>4, <2>5
<1> QED
  BY <1>8, <1>9, <1>10, <1>11, <1>12 DEF KeyInv

-----------------------------------------------------------------------------
(* The invariant, and what follows from it. *)

\* What is done about one key leaves the others alone.
LEMMA OthersUntouched ==
    ASSUME Inv, ServerTypeOK, NEW k \in Keys, NEW j \in Keys, j # k, KeyInv(j), copies' = copies,
           \/ PassSteps(k) \/ PassEnds(k) \/ ReadFails(k) \/ DelayEnds(k) \/ InformerRepeats(k)
    PROVE  KeyInv(j)'
<1>1. UNCHANGED clusterVars
  BY DEF PassSteps, PassEnds, ReadFails, DelayEnds, InformerRepeats, Start, EventDelivered,
         GetSecret, GetProject, GetShoot, WriteEntry, DeleteEntry, End, GetFails, DelayPasses,
         InformerResync, reconcilerUnchanged
<1>2. /\ pending'[j] = pending[j] /\ queued'[j] = queued[j] /\ pc'[j] = pc[j]
      /\ store'[j] = store[j] /\ (j \in fresh' <=> j \in fresh)
  <2> USE DEF Inv, TypeOK, ControllerTypeOK, Goto, reconcilerUnchanged
  <2>1. CASE PassSteps(k)
    <3>1. CASE Start(k) \/ EventDelivered(k)
      BY <3>1 DEF Start, EventDelivered, Dequeue, Deliver
    <3>2. CASE GetSecret(k) \/ GetProject(k) \/ GetShoot(k) \/ WriteEntry(k) \/ DeleteEntry(k)
      BY <3>2 DEF GetSecret, GetProject, GetShoot, WriteEntry, DeleteEntry
    <3> QED
      BY <2>1, <3>1, <3>2 DEF PassSteps
  <2>2. CASE PassEnds(k)
    BY <2>2 DEF PassEnds, End, Finish
  <2>3. CASE ReadFails(k)
    BY <2>3 DEF ReadFails, GetFails
  <2>4. CASE DelayEnds(k)
    BY <2>4 DEF DelayEnds, DelayPasses, TimerFires
  <2>5. CASE InformerRepeats(k)
    BY <2>5 DEF InformerRepeats, InformerResync, Notify
  <2> QED
    BY <2>1, <2>2, <2>3, <2>4, <2>5
<1>3. /\ due'[j] = due[j] /\ informerDue' = informerDue /\ (j \in repeated' <=> j \in repeated)
      /\ age'[j] = age[j] /\ uptime' = uptime /\ steady' = steady
      /\ failures'[j] = failures[j] /\ startFailures'[j] = startFailures[j]
  BY DEF PassSteps, PassEnds, ReadFails, DelayEnds, InformerRepeats, timers, histories, retries, ServerTypeOK
<1>4. entryAge'[j] = entryAge[j]
  BY <1>2 DEF PassSteps, PassEnds, ReadFails, DelayEnds, InformerRepeats, timers, histories,
              EntriesAge, ServerTypeOK
<1> QED
  BY <1>1, <1>2, <1>3, <1>4, Untouched

\* The informer repeats its objects only when its period is over.
LEMMA RepeatedWhenDue ==
    ASSUME ServerTypeOK, repeated # {} => informerDue = 0, [ServerNext]_serverVars
    PROVE  (repeated # {} => informerDue = 0)'
BY DEF ServerNext, ReconcilerStep, PassSteps, PassEnds, ReadFails, DelayEnds, InformerRepeats,
       ClusterChanges, ProcessRestarts, Fetch, Tick, serverVars, timers, histories

\* Every step keeps the invariant.
LEMMA ServerNextInv ==
    ASSUME Inv, Inv', ServerInv, [ServerNext]_serverVars
    PROVE  ServerInv'
<1> USE DEF ServerInv
<1>1. ServerTypeOK'
  BY ServerNextType
<1>2. (repeated # {} => informerDue = 0)'
  BY RepeatedWhenDue
<1>3. ASSUME NEW j \in Keys PROVE KeyInv(j)'
  <2>1. ASSUME NEW k \in Keys, copies' = copies,
               \/ PassSteps(k) \/ PassEnds(k) \/ ReadFails(k) \/ DelayEnds(k) \/ InformerRepeats(k)
        PROVE  KeyInv(j)'
    <3>1. CASE j = k
      BY <2>1, <3>1, PassStepInTime, PassEndInTime, ReadFailsInTime, DelayEndsInTime,
         InformerRepeatsInTime
    <3>2. CASE j # k
      BY <2>1, <3>2, OthersUntouched
    <3> QED
      BY <3>1, <3>2
  <2>2. CASE ClusterChanges /\ copies' = copies
    BY <2>2, ClusterChangesInTime
  <2>3. CASE ProcessRestarts /\ copies' = copies
    BY <2>3, RestartInTime
  <2>4. ASSUME NEW k \in Keys, NEW doc \in Docs, Fetch(k, doc) PROVE KeyInv(j)'
    BY <2>4, FetchInTime
  <2>5. CASE Tick
    BY <2>5, TickInTime
  <2>6. CASE UNCHANGED serverVars
    BY <2>6, Untouched DEF serverVars, vars, controllerVars, timers, histories, retries
  <2> QED
    BY <2>1, <2>2, <2>3, <2>4, <2>5, <2>6 DEF ServerNext, ReconcilerStep
<1> QED
  BY <1>1, <1>2, <1>3

\* The inductive invariant holds in every reachable state, together with
\* that of the reconciler.
THEOREM ServerInvariance == ServerSpec => [](Inv /\ ServerInv)
<1>1. ServerInit => ServerInv
  BY ServerInitInv
<1>2. Inv /\ Inv' /\ ServerInv /\ [ServerNext]_serverVars => ServerInv'
  BY ServerNextInv
<1>3. ServerSpec => []Inv
  BY ImplementsReconciler, Invariance, PTL
<1> QED
  BY <1>1, <1>2, <1>3, PTL DEF ServerSpec

\* The timers, ages and copies have their types: nobody keeps an answer but
\* a document, and none for longer than max-age.
THEOREM ServerTypeCorrect == ServerSpec => []ServerTypeOK
<1>1. ServerInv => ServerTypeOK
  BY DEF ServerInv
<1> QED
  BY <1>1, ServerInvariance, PTL

\* An entry that is no longer what it should be is there for a resync
\* period and the delays of the retries at most.
THEOREM EntriesAreNotStaleForLong == ServerSpec => []StaleIsBounded
<1>1. Inv /\ ServerInv => StaleIsBounded
  <2> SUFFICES ASSUME ServerInv, NEW k \in Keys, store[k] \notin {NoEntry, Expected(k)}
               PROVE  age[k] <= ResyncPeriod + RetryTime(k)
    BY DEF StaleIsBounded
  <2>1. PassInTime(k) /\ StaleInTime(k) /\ ServerTypeOK
    BY DEF ServerInv, KeyInv
  <2> QED
    BY <2>1, DelayBounds, ControllerAssumption DEF StaleInTime
<1> QED
  BY <1>1, ServerInvariance, PTL

\* What is answered, or kept, and may be used: a document of the entry or a
\* copy of one.
LEMMA SeenFromStore ==
    ASSUME TypeOK, NEW k \in Keys, NEW doc \in Docs, copies[<<k, doc>>] = NoCopy
    PROVE  /\ Seen(k, doc).code = 200 => store[k] # NoEntry /\ Seen(k, doc).body = store[k][doc]
           /\ Seen(k, doc).code # 200 => store[k] = NoEntry \/ URL(k, doc).shootUID \notin DOMAIN UUIDs
<1>1. Seen(k, doc) = Serve(URL(k, doc))
  BY DEF Seen
<1> QED
  BY <1>1, ServeURL

\* A document that is not valid any more is trusted for the resync period,
\* the delays of the retries and max-age at most.
THEOREM TrustEnds == ServerSpec => []TrustIsBounded
<1>1. Inv /\ ServerInv => TrustIsBounded
  <2> SUFFICES ASSUME Inv, ServerInv, NEW k \in Keys, NEW doc \in Docs, Seen(k, doc).code = 200,
                      Expected(k) = NoEntry \/ Seen(k, doc).body # Expected(k)[doc]
               PROVE  age[k] <= ResyncPeriod + RetryTime(k) + MaxAge
    BY DEF TrustIsBounded
  <2>1. PassInTime(k) /\ StaleInTime(k) /\ CopyInTime(k, doc) /\ ServerTypeOK /\ TypeOK
    BY DEF ServerInv, KeyInv, Inv
  <2>2. /\ age[k] \in Nat /\ RetryTime(k) \in Nat /\ Delay(k) \in Nat
        /\ copies[<<k, doc>>] # NoCopy => copies[<<k, doc>>].left \in 1..MaxAge
    BY <2>1, DelayBounds
  <2>3. CASE copies[<<k, doc>>] = NoCopy
    <3>1. store[k] # NoEntry /\ store[k] # Expected(k)
      BY <2>1, <2>3, SeenFromStore
    <3> QED
      BY <2>1, <2>2, <3>1, ControllerAssumption DEF StaleInTime
  <2>4. CASE copies[<<k, doc>>] # NoCopy
    <3>1. Seen(k, doc) = copies[<<k, doc>>].reply
      BY <2>4 DEF Seen
    <3>2. age[k] + copies[<<k, doc>>].left <= ResyncPeriod + RetryTime(k) + MaxAge
      BY <2>1, <2>4, <3>1 DEF CopyInTime
    <3> QED
      BY <2>2, <2>4, <3>2, ControllerAssumption
  <2> QED
    BY <2>3, <2>4
<1> QED
  BY <1>1, ServerInvariance, PTL

\* The copies that are kept are documents.
LEMMA CopiesAreDocuments ==
    ASSUME ServerTypeOK, NEW k \in Keys, NEW doc \in Docs, copies[<<k, doc>>] # NoCopy
    PROVE  copies[<<k, doc>>].reply.code = 200
<1>1. copies[<<k, doc>>] \in Copies
  BY DEF ServerTypeOK
<1>2. PICK data \in Data, name \in Docs :
        copies[<<k, doc>>].reply = HTTP!SetHSTS(HTTP!Document(data[name]))
  BY <1>1 DEF Copies
<1> QED
  BY <1>2 DEF HTTP!SetHSTS, HTTP!Document, HTTP!Reply

\* A document that should be served is refused for as long as the informer
\* takes to repeat its Secret, and for the delays of the retries, at most.
THEOREM AbsenceEnds == ServerSpec => []AbsenceIsBounded
<1>1. Inv /\ ServerInv => AbsenceIsBounded
  <2> SUFFICES ASSUME Inv, ServerInv, NEW k \in Keys, NEW doc \in Docs,
                      Seen(k, doc).code # 200, Expected(k) # NoEntry
               PROVE  \/ age[k] <= InformerPeriod + RetryTime(k)
                      \/ uptime <= InformerPeriod + StartRetryTime(k)
    BY DEF AbsenceIsBounded
  <2>1. PassInTime(k) /\ AbsentInTime(k) /\ ServerTypeOK /\ TypeOK
    BY DEF ServerInv, KeyInv, Inv
  <2>2. age[k] \in Nat /\ uptime \in Nat /\ RetryTime(k) \in Nat /\ StartRetryTime(k) \in Nat /\ Wait(k) \in Nat
    BY <2>1, DelayBounds
  <2>3. copies[<<k, doc>>] = NoCopy
    BY <2>1, CopiesAreDocuments DEF Seen
  <2>4. Absent(k)
    BY <2>1, <2>3, SeenFromStore, PublishableHasURL DEF Absent
  <2> QED
    BY <2>1, <2>2, <2>4 DEF AbsentInTime
<1> QED
  BY <1>1, ServerInvariance, PTL

\* What is seen of a pair of documents is the entry, as soon as it is older
\* than max-age.
THEOREM PairsSettle == ServerSpec => []PairSettles
<1>1. Inv /\ ServerInv => PairSettles
  <2> SUFFICES ASSUME Inv, ServerInv, NEW k \in Keys,
                      Seen(k, "config").code = 200, Seen(k, "jwks").code = 200,
                      ~(entryAge[k] < MaxAge)
               PROVE  [config |-> Seen(k, "config").body, jwks |-> Seen(k, "jwks").body] \in Data
    BY DEF PairSettles
  <2>1. ServerTypeOK /\ TypeOK /\ PassInTime(k)
    BY DEF ServerInv, KeyInv, Inv
  <2>2. ASSUME NEW doc \in Docs, Seen(k, doc).code = 200
        PROVE  store[k] # NoEntry /\ Seen(k, doc).body = store[k][doc]
    <3>1. CASE copies[<<k, doc>>] = NoCopy
      BY <2>1, <2>2, <3>1, SeenFromStore
    <3>2. CASE copies[<<k, doc>>] # NoCopy
      <4>1. Seen(k, doc) = copies[<<k, doc>>].reply
        BY <3>2 DEF Seen
      <4>2. copies[<<k, doc>>].left \in 1..MaxAge /\ entryAge[k] \in Nat
        BY <2>1, <3>2, DelayBounds
      <4>3. CopyInTime(k, doc)
        BY DEF ServerInv, KeyInv
      <4> QED
        BY <3>2, <4>1, <4>2, <4>3 DEF CopyInTime
    <3> QED
      BY <3>1, <3>2
  <2>3. /\ store[k] # NoEntry
        /\ Seen(k, "config").body = store[k].config /\ Seen(k, "jwks").body = store[k].jwks
    BY <2>2 DEF Docs
  <2>4. store[k] \in Data
    BY <2>1, <2>3 DEF TypeOK
  <2>5. PICK s \in SecretValues : store[k] = DataOf(s)
    BY <2>4 DEF Data
  <2> QED
    BY <2>3, <2>4, <2>5 DEF DataOf
<1> QED
  BY <1>1, ServerInvariance, PTL

\* What a new process does not serve yet, it is about to publish.
THEOREM MissesAreTransient == ServerSpec => []MissMeansPassIsDue
<1>1. Inv /\ ServerInv => MissMeansPassIsDue
  BY DEF ServerInv, KeyInv, ServerTypeOK, SteadyIsExact, Absent, MissMeansPassIsDue
<1> QED
  BY <1>1, ServerInvariance, PTL

-----------------------------------------------------------------------------
(* Which requests are answered with a document. *)

\* An error is a refusal.
LEMMA RefusalAnswer ==
    ASSUME NEW code, code # 200
    PROVE  IsRefusal(HTTP!SetHSTS(HTTP!Reply(code)))
BY DEF IsRefusal, HTTP!SetHSTS, HTTP!Reply

LEMMA NotFoundAnswer == IsRefusal(HTTP!SetHSTS(HTTP!Reply(404)))
BY RefusalAnswer

\* A handler of one of the stores answers with a document if and only if the
\* method, the UID and the key are right.
LEMMA StoreAnswer ==
    ASSUME NEW r, NEW entries, NEW field, NEW key, key = HTTP!StoreKey(r), NEW reply,
           reply = HTTP!SetHSTS(HTTP!AllowMethods(r, HTTP!StoreRequest(r, entries, field)))
    PROVE  IF /\ r.method \in {"GET", "HEAD"} /\ r.shootUID \in DOMAIN UUIDs
              /\ key \in DOMAIN entries /\ entries[key] # NoEntry
           THEN IsDocument(reply) ELSE IsRefusal(reply)
<1>1. HTTP!StoreRequest(r, entries, field) =
        IF r.shootUID \notin DOMAIN UUIDs THEN HTTP!Reply(400)
        ELSE IF key \notin DOMAIN entries \/ entries[key] = NoEntry THEN HTTP!Reply(404)
        ELSE HTTP!Document(entries[key][field])
  BY DEF HTTP!StoreRequest, HTTP!NotFoundReply
<1>2. IsRefusal(HTTP!SetHSTS(HTTP!Reply(400)))
  BY RefusalAnswer
<1>3. IsRefusal(HTTP!SetHSTS(HTTP!Reply(404)))
  BY NotFoundAnswer
<1>4. IsRefusal(HTTP!SetHSTS(HTTP!Reply(405)))
  BY RefusalAnswer
<1>5. IsDocument(HTTP!SetHSTS(HTTP!Document(entries[key][field])))
  BY DEF IsDocument, HTTP!SetHSTS, HTTP!Reply, HTTP!Document
<1>6. HTTP!AllowMethods(r, HTTP!StoreRequest(r, entries, field)) =
        IF r.method \in {"GET", "HEAD"} THEN HTTP!StoreRequest(r, entries, field) ELSE HTTP!Reply(405)
  BY DEF HTTP!AllowMethods
<1> QED
  BY <1>1, <1>2, <1>3, <1>4, <1>5, <1>6

\* The keys near one of the store are sequences with a UID at the end.
LEMMA NearbyKeys ==
    ASSUME NEW k \in Keys, NEW d \in KeysNear(k)
    PROVE  \E S : d \in Seq(S) /\ d # <<>>
<1> DEFINE S == STRING \cup DOMAIN UUIDs \cup {"x", "not-a-uid"}
           name == SubSeq(k, 1, Len(k) - 1)
           uid == k[Len(k)]
<1>1. k \in Seq(STRING) /\ k # <<>> /\ Len(k) \in Nat \ {0}
  BY OpenIDMetaAssumption
<1>2. k \in Seq(S) /\ uid \in S /\ name \in Seq(S)
  BY <1>1
<1>3. "x" \in S /\ DOMAIN UUIDs \cup {"not-a-uid"} \subseteq S
  BY Zenon
<1> HIDE DEF S, name, uid
<1>4. ASSUME NEW u \in S PROVE name \o <<u>> \in Seq(S) /\ name \o <<u>> # <<>>
  BY <1>2, <1>4
<1>5. ASSUME NEW x \in S PROVE name \o <<x, uid>> \in Seq(S) /\ name \o <<x, uid>> # <<>>
  BY <1>2, <1>5
<1>6. \/ \E u \in DOMAIN UUIDs \cup {"not-a-uid"} : d = name \o <<u>>
      \/ d \in {name \o <<"x", uid>>, k}
  BY DEF KeysNear, name, uid
<1> QED
  BY <1>1, <1>2, <1>3, <1>4, <1>5, <1>6

\* The UID of what is published is one that requests may name.
LEMMA PublishedHasURL ==
    ASSUME Inv, NEW k \in Keys, store[k] # NoEntry
    PROVE  k[Len(k)] \in DOMAIN UUIDs
<1>1. store[k] \in Endorsed[k]
  BY DEF Inv, PublishedWasValidated
<1>2. PICK s \in SecretValues, shoots \in ShootStates : SecretValidAs(k, s) /\ OwnedBy(k, s, shoots)
  BY <1>1 DEF Endorsed
<1>3. k[Len(k)] = k[2]
  BY <1>2 DEF SecretValidAs
<1>4. s.shootNamespace # Unset /\ s.shootName # Unset
  BY <1>2 DEF SecretValidAs
<1> QED
  BY <1>2, <1>3, <1>4, ShootUIDsAreUUIDs DEF OwnedBy

\* Requests for two keys differ.
LEMMA RequestsDiffer ==
    ASSUME NEW S, NEW d \in Seq(S), d # <<>>, NEW method, NEW path,
           NEW T, NEW e \in Seq(T), e # <<>>, NEW other, NEW elsewhere,
           Request(method, d, path) = Request(other, e, elsewhere)
    PROVE  method = other /\ d = e /\ path = elsewhere
<1>1. HTTP!StoreKey(Request(method, d, path)) = d
  BY KeyOfRequest
<1>2. HTTP!StoreKey(Request(other, e, elsewhere)) = e
  BY KeyOfRequest
<1>3. method = other /\ path = elsewhere
  BY DEF Request
<1> QED
  BY <1>1, <1>2, <1>3

\* What a request for a key asks for is there if a store has that key.
LEMMA RequestFound ==
    ASSUME NEW S, NEW d \in Seq(S), d # <<>>, NEW method, NEW path
    PROVE  Request(method, d, path) \in DocumentRequests <=>
             /\ method \in {"GET", "HEAD"}
             /\ \/ path \in {"shoot openid-configuration", "shoot jwks"}
                   /\ d \in Keys /\ store[d] # NoEntry
                \/ path = "shoot cluster-ca"
                   /\ d \in DOMAIN CABundles /\ CABundles[d] # NoEntry
<1> DEFINE r == Request(method, d, path)
           reading == {"GET", "HEAD"}
           ca == "shoot cluster-ca"
           entries == {k \in Keys : store[k] # NoEntry}
           bundles == {e \in DOMAIN CABundles : CABundles[e] # NoEntry}
           forEntries == {Request(m, k, Path(doc)) : m \in reading, k \in entries, doc \in Docs}
           forBundles == {Request(m, e, ca) : m \in reading, e \in bundles}
<1>1. DocumentRequests = forEntries \cup forBundles
  BY DEF DocumentRequests
<1>2. \A p : p \in {"shoot openid-configuration", "shoot jwks"} <=> \E doc \in Docs : p = Path(doc)
  BY DEF Path, Docs
<1>3. entries \subseteq Seq(STRING) \ {<<>>} /\ bundles \subseteq Seq(STRING) \ {<<>>}
  BY OpenIDMetaAssumption, CABundlesAssumption
<1> HIDE DEF reading, ca, entries, bundles
<1>4. r \in forEntries <=> method \in reading /\ d \in entries /\ \E doc \in Docs : path = Path(doc)
  <2>1. ASSUME NEW m \in reading, NEW k \in entries, NEW doc \in Docs, r = Request(m, k, Path(doc))
        PROVE  method = m /\ d = k /\ path = Path(doc)
    BY <1>3, <2>1, RequestsDiffer
  <2>2. r \in forEntries <=>
          \E m \in reading, k \in entries, doc \in Docs : r = Request(m, k, Path(doc))
    <3> HIDE DEF r
    <3> QED
      OBVIOUS
  <2> QED
    BY <2>1, <2>2
<1>5. r \in forBundles <=> method \in reading /\ d \in bundles /\ path = ca
  <2>1. ASSUME NEW m \in reading, NEW e \in bundles, r = Request(m, e, ca)
        PROVE  method = m /\ d = e /\ path = ca
    BY <1>3, <2>1, RequestsDiffer
  <2>2. r \in forBundles <=> \E m \in reading, e \in bundles : r = Request(m, e, ca)
    <3> HIDE DEF r
    <3> QED
      OBVIOUS
  <2> QED
    BY <2>1, <2>2
<1>6. /\ d \in entries <=> d \in Keys /\ store[d] # NoEntry
      /\ d \in bundles <=> d \in DOMAIN CABundles /\ CABundles[d] # NoEntry
  BY DEF entries, bundles
<1> HIDE DEF r, forEntries, forBundles
<1>7. r \in DocumentRequests <=>
        /\ method \in reading
        /\ \/ path \in {"shoot openid-configuration", "shoot jwks"} /\ d \in Keys /\ store[d] # NoEntry
           \/ path = ca /\ d \in DOMAIN CABundles /\ CABundles[d] # NoEntry
  BY <1>1, <1>2, <1>4, <1>5, <1>6
<1> QED
  BY <1>7 DEF r, reading, ca

\* Every request for a key is answered as AnswersAreExact says.
LEMMA AnswerIsExact ==
    ASSUME Inv, NEW S, NEW d \in Seq(S), d # <<>>, NEW method, NEW path,
           path # "garden openid-configuration", NEW r, r = Request(method, d, path)
    PROVE  IF r \in DocumentRequests THEN IsDocument(Serve(r)) ELSE IsRefusal(Serve(r))
<1>1. r.path = path /\ r.method = method /\ r.shootUID = d[Len(d)]
  BY DEF Request
<1>2. HTTP!StoreKey(r) = d
  BY KeyOfRequest
<1>3. r \in DocumentRequests <=>
        /\ method \in {"GET", "HEAD"}
        /\ \/ path \in {"shoot openid-configuration", "shoot jwks"} /\ d \in Keys /\ store[d] # NoEntry
           \/ path = "shoot cluster-ca" /\ d \in DOMAIN CABundles /\ CABundles[d] # NoEntry
  BY RequestFound
<1>4. DOMAIN store = Keys
  BY DEF Inv, TypeOK
<1>5. CASE path \in {"shoot openid-configuration", "shoot jwks"}
  <2>1. \E field : Serve(r) = HTTP!SetHSTS(HTTP!AllowMethods(r, HTTP!StoreRequest(r, store, field)))
    BY <1>1, <1>5 DEF Serve, HTTP!ServeHTTP, HTTP!HandleOpenIDConfiguration, HTTP!HandleJWKS
  <2>2. IF r.method \in {"GET", "HEAD"} /\ r.shootUID \in DOMAIN UUIDs /\ d \in Keys /\ store[d] # NoEntry
        THEN IsDocument(Serve(r)) ELSE IsRefusal(Serve(r))
    BY <1>2, <1>4, <2>1, StoreAnswer
  <2>3. r \in DocumentRequests <=>
          r.method \in {"GET", "HEAD"} /\ r.shootUID \in DOMAIN UUIDs /\ d \in Keys /\ store[d] # NoEntry
    BY <1>1, <1>3, <1>5, PublishedHasURL
  <2> QED
    BY <2>2, <2>3
<1>6. CASE path = "shoot cluster-ca"
  <2>1. Serve(r) = HTTP!SetHSTS(HTTP!AllowMethods(r, HTTP!StoreRequest(r, CABundles, "caBundle")))
    BY <1>1, <1>6 DEF Serve, HTTP!ServeHTTP, HTTP!HandleCABundle
  <2>2. IF /\ r.method \in {"GET", "HEAD"} /\ r.shootUID \in DOMAIN UUIDs
           /\ d \in DOMAIN CABundles /\ CABundles[d] # NoEntry
        THEN IsDocument(Serve(r)) ELSE IsRefusal(Serve(r))
    BY <1>2, <2>1, StoreAnswer
  <2>3. r \in DocumentRequests <=>
          /\ r.method \in {"GET", "HEAD"} /\ r.shootUID \in DOMAIN UUIDs
          /\ d \in DOMAIN CABundles /\ CABundles[d] # NoEntry
    BY <1>1, <1>3, <1>6, CABundlesAssumption
  <2> QED
    BY <2>2, <2>3
<1>7. CASE path \notin {"shoot openid-configuration", "shoot jwks", "shoot cluster-ca"}
  <2>1. Serve(r) = HTTP!SetHSTS(HTTP!Reply(404))
    BY <1>1, <1>7 DEF Serve, HTTP!ServeHTTP, HTTP!NotFoundReply
  <2>2. IsRefusal(Serve(r))
    BY <2>1, NotFoundAnswer
  <2> QED
    BY <1>3, <1>7, <2>2
<1> QED
  BY <1>5, <1>6, <1>7

\* A published document has one URL, and is the only thing that is answered
\* with 200 or may be kept.
THEOREM AnswersAreOfTheStores == ServerSpec => []AnswersAreExact
<1>1. Inv => AnswersAreExact
  <2> SUFFICES ASSUME Inv, NEW k \in Keys, NEW method, NEW path \in Paths, NEW d \in KeysNear(k),
                      NEW r, r = Request(method, d, path)
               PROVE  IF r \in DocumentRequests THEN IsDocument(Serve(r)) ELSE IsRefusal(Serve(r))
    BY DEF AnswersAreExact
  <2>1. PICK S : d \in Seq(S) /\ d # <<>>
    BY NearbyKeys
  <2>2. path # "garden openid-configuration"
    BY DEF Paths, Path, Docs
  <2> QED
    BY <2>1, <2>2, AnswerIsExact
<1> QED
  BY <1>1, ServerInvariance, PTL

\* So the documents that relying parties are answered are those that the
\* abstract specification of the reconciler publishes.
COROLLARY ServerFollowsTheCaches == ServerSpec => FollowsTheCaches
BY ImplementsReconciler, ImplementsPublishing, PTL
=============================================================================
