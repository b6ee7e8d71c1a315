-------------------------------- MODULE Handler --------------------------------
(***************************************************************************)
(* What the discovery server answers to a request: the patterns of the     *)
(* mux, the middleware around the handlers, and the handlers.  They keep   *)
(* no state, so that an answer is a function of the request and of what    *)
(* the stores and the workload identity handler hold at that moment.       *)
(*                                                                         *)
(* A request is a record of its method, its path and the two values in the *)
(* path; "/" stands for every path without a pattern of its own.  A        *)
(* project name is the sequence of its parts between the separators "--",  *)
(* as the keys of the stores are.  An answer is a record of the status     *)
(* code, whether Strict-Transport-Security is set, the seconds for which   *)
(* Cache-Control lets a copy be used, and the content.                     *)
(***************************************************************************)
EXTENDS Naturals, Sequences

CONSTANTS
    NoEntry,   \* the store has no entry
    MaxAge,    \* the max-age of pubCacheControl
    UUIDs      \* the UID that each accepted spelling denotes

Reply(code) == [code |-> code, hsts |-> FALSE, maxAge |-> 0, body |-> NoEntry]

SetHSTS(reply) == [reply EXCEPT !.hsts = TRUE]

AllowMethods(r, reply) == IF r.method \in {"GET", "HEAD"} THEN reply ELSE Reply(405)

\* Faulty variant: an answer that something is missing may be kept.
CachedNotFound == [Reply(404) EXCEPT !.maxAge = MaxAge]

NotFoundReply == Reply(404)

\* Faulty variant: a digit too many in max-age.
DocumentKeptLonger(body) == [Reply(200) EXCEPT !.maxAge = 10 * MaxAge, !.body = body]

\* Cache-Control and content of an answer that has a document.
Document(body) == [Reply(200) EXCEPT !.maxAge = MaxAge, !.body = body]

\* Faulty variant: the store is asked for the UID, not for its spelling.
StoreKeyOfUID(r) == r.projectName \o <<UUIDs[r.shootUID]>>

\* projectName + "--" + shootUID.
StoreKey(r) == r.projectName \o <<r.shootUID>>

\* Read is one atomic step of the store, and both fields of an entry come
\* from one Write.
StoreRequest(r, entries, field) ==
    IF r.shootUID \notin DOMAIN UUIDs THEN Reply(400)
    ELSE IF StoreKey(r) \notin DOMAIN entries \/ entries[StoreKey(r)] = NoEntry THEN NotFoundReply
    ELSE Document(entries[StoreKey(r)][field])

HandleOpenIDConfiguration(r, oidStore) ==
    SetHSTS(AllowMethods(r, StoreRequest(r, oidStore, "config")))

HandleJWKS(r, oidStore) ==
    SetHSTS(AllowMethods(r, StoreRequest(r, oidStore, "jwks")))

HandleCABundle(r, certStore) ==
    SetHSTS(AllowMethods(r, StoreRequest(r, certStore, "caBundle")))

\* The two handlers of the workload identity documents, which are fixed
\* when the process starts.
HandleWorkloadIdentity(r, document) == SetHSTS(AllowMethods(r, Document(document)))

\* The mux.  The patterns of the workload identity are registered only if
\* it is enabled.
ServeHTTP(r, oidStore, certStore, workloadIdentity) ==
    CASE r.path = "shoot openid-configuration" -> HandleOpenIDConfiguration(r, oidStore)
      [] r.path = "shoot jwks" -> HandleJWKS(r, oidStore)
      [] r.path = "shoot cluster-ca" -> HandleCABundle(r, certStore)
      [] r.path = "garden openid-configuration" /\ workloadIdentity # NoEntry ->
            HandleWorkloadIdentity(r, workloadIdentity.config)
      [] r.path = "garden jwks" /\ workloadIdentity # NoEntry ->
            HandleWorkloadIdentity(r, workloadIdentity.jwks)
      [] OTHER -> SetHSTS(NotFoundReply)
=============================================================================
