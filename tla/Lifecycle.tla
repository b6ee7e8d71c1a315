------------------------------ MODULE Lifecycle -------------------------------
(***************************************************************************)
(* How the process starts its two servers and stops them: run starts the   *)
(* controller manager and the discovery server in a goroutine each, and    *)
(* waits for the result of both.  runServer listens in a goroutine of its  *)
(* own.  All channels are unbuffered, so that a send and its receive are   *)
(* one step of two goroutines.                                             *)
(*                                                                         *)
(*  cancelled  the contexts that are cancelled: "ctx" of the command, and  *)
(*             "mgrCtx" and "serverCtx" derived from it                    *)
(*  main       run: in its select, waiting for the other result, returned  *)
(*  mgr, srv   the goroutines of the manager and of runServer              *)
(*  listener   the goroutine that runs ListenAndServeTLS                   *)
(*  accepting  the HTTP server accepts connections                         *)
(*  closing    Shutdown was called on the HTTP server                      *)
(*  errs       the errors mgr and srv have to report                       *)
(*  returned   the errors that run joins into its result                   *)
(***************************************************************************)
EXTENDS FiniteSets

VARIABLES cancelled, main, mgr, srv, listener, accepting, closing, errs, returned

vars == <<cancelled, main, mgr, srv, listener, accepting, closing, errs, returned>>

Servers == {"mgr", "srv"}

TypeOK ==
    /\ cancelled \subseteq {"ctx", "mgrCtx", "serverCtx"}
    /\ main \in {"select", "awaitSrv", "awaitMgr", "returned"}
    /\ mgr \in {"running", "send", "defer", "done"}
    /\ srv \in {"select", "shutdown", "send", "defer", "done"}
    /\ listener \in {"listening", "sendErr", "done"}
    /\ accepting \in BOOLEAN
    /\ closing \in BOOLEAN
    /\ errs \subseteq Servers
    /\ returned \subseteq Servers

\* A context is cancelled by its own cancel function or with its parent.
Done(c) == {c, "ctx"} \cap cancelled # {}

\* Faulty variant: run returns with the first result.
MainReturnsAtOnce(s, first, other) ==
    /\ main \in {"select", first}
    /\ main' = "returned"
    /\ returned' = IF s \in errs THEN returned \cup {s} ELSE returned

\* run receives the result of s, and returns when it has both.
MainReceives(s, first, other) ==
    /\ main \in {"select", first}
    /\ main' = IF main = "select" THEN other ELSE "returned"
    /\ returned' = IF s \in errs THEN returned \cup {s} ELSE returned

MgrReceived == MainReceives("mgr", "awaitMgr", "awaitSrv")
SrvReceived == MainReceives("srv", "awaitSrv", "awaitMgr")

Init ==
    /\ cancelled = {}
    /\ main = "select"
    /\ mgr = "running"
    /\ srv = "select"
    /\ listener = "listening"
    /\ accepting = FALSE
    /\ closing = FALSE
    /\ errs = {}
    /\ returned = {}

-----------------------------------------------------------------------------
\* The process gets a signal to stop.
Signal ==
    /\ "ctx" \notin cancelled
    /\ cancelled' = cancelled \cup {"ctx"}
    /\ UNCHANGED <<main, mgr, srv, listener, accepting, closing, errs, returned>>

\* The manager stops, with its context or because one of its parts failed.
\* A graceful shutdown may fail as well.
MgrStops ==
    /\ mgr = "running"
    /\ mgr' = "send"
    /\ \/ Done("mgrCtx") /\ errs' = errs
       \/ errs' = errs \cup {"mgr"}
    /\ UNCHANGED <<cancelled, main, srv, listener, accepting, closing, returned>>

MgrSends ==
    /\ mgr = "send"
    /\ MgrReceived
    /\ mgr' = "defer"
    /\ UNCHANGED <<cancelled, srv, listener, accepting, closing, errs>>

\* Faulty variant: the manager's goroutine cancels its own context.
MgrCancelsItself ==
    /\ mgr = "defer"
    /\ mgr' = "done"
    /\ cancelled' = cancelled \cup {"mgrCtx"}
    /\ UNCHANGED <<main, srv, listener, accepting, closing, errs, returned>>

\* The deferred call stops the other server.
MgrCancelsSrv ==
    /\ mgr = "defer"
    /\ mgr' = "done"
    /\ cancelled' = cancelled \cup {"serverCtx"}
    /\ UNCHANGED <<main, srv, listener, accepting, closing, errs, returned>>

\* ListenAndServeTLS binds the address, unless Shutdown came first.
ListenerBinds ==
    /\ listener = "listening"
    /\ ~accepting
    /\ ~closing
    /\ accepting' = TRUE
    /\ UNCHANGED <<cancelled, main, mgr, srv, listener, closing, errs, returned>>

\* ListenAndServeTLS fails, when it binds the address or later.
ListenerFails ==
    /\ listener = "listening"
    /\ ~closing
    /\ accepting' = FALSE
    /\ listener' = "sendErr"
    /\ UNCHANGED <<cancelled, main, mgr, srv, closing, errs, returned>>

\* ListenAndServeTLS returns ErrServerClosed.
ListenerCloses ==
    /\ listener = "listening"
    /\ closing
    /\ listener' = "done"
    /\ UNCHANGED <<cancelled, main, mgr, srv, accepting, closing, errs, returned>>

\* runServer receives the error of the listener and returns it.
SrvFails ==
    /\ srv = "select"
    /\ listener = "sendErr"
    /\ srv' = "send"
    /\ listener' = "done"
    /\ errs' = errs \cup {"srv"}
    /\ UNCHANGED <<cancelled, main, mgr, accepting, closing, returned>>

\* runServer sees its context cancelled; an error that the listener sends at
\* the same time is not received any more.
SrvStops ==
    /\ srv = "select"
    /\ Done("serverCtx")
    /\ srv' = "shutdown"
    /\ UNCHANGED <<cancelled, main, mgr, listener, accepting, closing, errs, returned>>

\* Faulty variant: runServer returns without shutting down the HTTP server.
SrvReturnsWithoutShutdown ==
    /\ srv = "shutdown"
    /\ srv' = "send"
    /\ UNCHANGED <<cancelled, main, mgr, listener, accepting, closing, errs, returned>>

\* Shutdown stops accepting at once, then waits for the connections, or
\* gives up after its timeout.
SrvShutsDown ==
    /\ srv = "shutdown"
    /\ srv' = "send"
    /\ closing' = TRUE
    /\ accepting' = FALSE
    /\ \/ errs' = errs
       \/ errs' = errs \cup {"srv"}
    /\ UNCHANGED <<cancelled, main, mgr, listener, returned>>

SrvSends ==
    /\ srv = "send"
    /\ SrvReceived
    /\ srv' = "defer"
    /\ UNCHANGED <<cancelled, mgr, listener, accepting, closing, errs>>

\* Faulty variant: the deferred call is missing.
SrvCancelsNothing ==
    /\ srv = "defer"
    /\ srv' = "done"
    /\ UNCHANGED <<cancelled, main, mgr, listener, accepting, closing, errs, returned>>

SrvCancelsMgr ==
    /\ srv = "defer"
    /\ srv' = "done"
    /\ cancelled' = cancelled \cup {"mgrCtx"}
    /\ UNCHANGED <<main, mgr, listener, accepting, closing, errs, returned>>

\* The process may end as soon as run has returned.
Next ==
    \/ Signal
    \/ MgrStops \/ MgrSends \/ MgrCancelsSrv
    \/ ListenerBinds \/ ListenerFails \/ ListenerCloses
    \/ SrvFails \/ SrvStops \/ SrvShutsDown \/ SrvSends \/ SrvCancelsMgr

Spec == Init /\ [][Next]_vars

-----------------------------------------------------------------------------
(* Properties. *)

\* When run returns no connection is accepted any more and the manager has
\* stopped, whichever of them stopped first: nobody new is served by a process
\* whose manager is gone.  Connections that Shutdown gave up on when its
\* context expired are not modelled.
NothingRunsAfterReturn ==
    main = "returned" => ~accepting /\ mgr # "running"

\* The result of run joins the errors of both servers.
AllErrorsReturned == main = "returned" => returned = errs

-----------------------------------------------------------------------------
\* The inductive invariant: where run is says which results it has, and a
\* result is sent only when its server has stopped.
Inv ==
    /\ TypeOK
    /\ main \in {"select", "awaitMgr"} <=> mgr \in {"running", "send"}
    /\ main \in {"select", "awaitSrv"} <=> srv \in {"select", "shutdown", "send"}
    /\ srv \in {"send", "defer", "done"} => ~accepting /\ (closing \/ listener # "listening")
    /\ closing \/ listener # "listening" => ~accepting
    /\ "mgr" \in errs => mgr # "running"
    /\ "srv" \in errs => srv \in {"send", "defer", "done"}
    /\ returned = {s \in errs : \/ s = "mgr" /\ mgr \in {"defer", "done"}
                                \/ s = "srv" /\ srv \in {"defer", "done"}}
=============================================================================
