----------------------------- MODULE MCStoreImpl ------------------------------
(***************************************************************************)
(* Instances of StoreImpl for TLC: an OpenID entry of two documents that   *)
(* one goroutine publishes and another one serves, and the lock of a       *)
(* bundle between two workers and a handler.                               *)
(***************************************************************************)
EXTENDS StoreImpl, TLC

CONSTANTS worker, otherWorker, handler

OneWorker == {worker}
TwoWorkers == {worker, otherWorker}
OneHandler == {handler}

\* Two buffers for each entry, four for each caller.
TenBuffers == 1..10
TwelveBuffers == 1..12
OwnDocuments == worker :> ("config" :> 1 @@ "jwks" :> 2) @@ handler :> NoData

SevenBuffers == 1..7
OwnBundles ==
    worker :> ("bundle" :> 1) @@ otherWorker :> ("bundle" :> 2) @@ handler :> NoData
=============================================================================
