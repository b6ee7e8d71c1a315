-------------------------------- MODULE Process --------------------------------
(***************************************************************************)
(* The process from its start to its end: PreRunE validates the flags,     *)
(* RunE reads the files of the workload identity, run builds the manager,  *)
(* the handlers and the serving certificate, and then the goroutines of    *)
(* Lifecycle run until the process ends and is started again.  Files are   *)
(* read at different times, and somebody may change them in between; a     *)
(* signal may come at any time.                                            *)
(*                                                                         *)
(*  flags     the arguments of the process                                 *)
(*  files     the contents of the four files                               *)
(*  boot      how far the start is; "running" while Lifecycle runs         *)
(*  conf      options.WorkloadIdentityConfig                               *)
(*  pair      the certificate file and the key file as New reads them      *)
(*  handler   the workload identity documents that are served, or NoEntry  *)
(*  together  history: the two documents as the files held them when the   *)
(*            first was read, or NoEntry if one was written before the     *)
(*            second was read                                              *)
(*  disturbed history: the number of changes, failures and signals so far, *)
(*            at most MaxDisturbances                                      *)
(***************************************************************************)
EXTENDS Lifecycle, Options, WorkloadIdentity

CONSTANTS
    FlagValues,       \* the arguments the process may be started with
    Contents,         \* contents of the files of the workload identity
    KeyPairs,         \* what identifies a certificate and its private key
    MaxDisturbances,  \* bound on what the environment does
    Missing,          \* a file that cannot be read
    Broken,           \* a certificate or key file that cannot be loaded
    NoEntry,          \* there is no document
    MaxAge            \* the max-age of the handlers' Cache-Control

VARIABLES flags, files, boot, conf, pair, handler, together, disturbed

configVars == <<flags, files, conf, pair, handler, together>>
processVars == <<vars, configVars, boot, disturbed>>

ASSUME ProcessAssumption ==
    /\ Missing \notin Contents
    /\ Broken \notin KeyPairs
    /\ NoEntry \notin [config : Contents, jwks : Contents]
    /\ MaxDisturbances \in Nat

HTTP == INSTANCE Handler WITH UUIDs <- <<>>

FileStates == [config : Contents \cup {Missing}, jwks : Contents \cup {Missing},
               cert : KeyPairs \cup {Broken}, key : KeyPairs \cup {Broken}]

NoConf == [Enabled |-> FALSE, OpenIDConfig |-> Missing, JWKS |-> Missing]
\* The two documents that are in the files.
Documents == [config |-> files.config, jwks |-> files.jwks]

NoPair == [cert |-> Broken, key |-> Broken]

Starting == {"validate", "applyTo", "readJWKS", "build", "newHandler", "loadCert", "loadKey"}

ProcessTypeOK ==
    /\ TypeOK
    /\ flags \in FlagValues
    /\ files \in FileStates
    /\ boot \in Starting \cup {"running", "exited"}
    /\ conf \in [Enabled : BOOLEAN, OpenIDConfig : Contents \cup {Missing},
                 JWKS : Contents \cup {Missing}]
    /\ pair \in [cert : KeyPairs \cup {Broken}, key : KeyPairs \cup {Broken}]
    /\ handler \in [config : Contents, jwks : Contents] \cup {NoEntry}
    /\ together \in [config : Contents \cup {Missing}, jwks : Contents \cup {Missing}] \cup {NoEntry}
    /\ disturbed \in 0..MaxDisturbances

\* A path that is blank leads to no file.
ReadFile(path, content) == IF TrimSpace(path) = "" THEN Missing ELSE content

ProcessInit ==
    /\ Init
    /\ flags \in FlagValues
    /\ files \in FileStates
    /\ boot = "validate"
    /\ conf = NoConf
    /\ pair = NoPair
    /\ handler = NoEntry
    /\ together = NoEntry
    /\ disturbed = 0

-----------------------------------------------------------------------------
(* The start.  An error ends the process. *)

GoesOn(accepted, next) == boot' = IF accepted THEN next ELSE "exited"

\* PreRunE.
ValidateFlags ==
    /\ boot = "validate"
    /\ GoesOn(Validate(flags), "applyTo")
    /\ UNCHANGED <<conf, pair, handler, together>>

\* Options.ApplyTo up to the first file.
ApplyTo ==
    /\ boot = "applyTo"
    /\ IF Enabled(flags)
       THEN LET content == ReadFile(flags.config, files.config) IN
              /\ conf' = [conf EXCEPT !.Enabled = TRUE, !.OpenIDConfig = content]
              /\ GoesOn(content # Missing, "readJWKS")
              /\ together' = Documents
       ELSE /\ conf' = [conf EXCEPT !.Enabled = FALSE]
            /\ GoesOn(TRUE, "build")
            /\ UNCHANGED together
    /\ UNCHANGED <<pair, handler>>

ReadJWKS ==
    /\ boot = "readJWKS"
    /\ LET content == ReadFile(flags.jwks, files.jwks) IN
         /\ conf' = [conf EXCEPT !.JWKS = content]
         /\ GoesOn(content # Missing, "build")
    /\ UNCHANGED <<pair, handler, together>>

\* run creates the manager, the stores, the reconcilers and the handlers.
Build ==
    /\ boot = "build"
    /\ GoesOn(TRUE, IF conf.Enabled THEN "newHandler" ELSE "loadCert")
    /\ UNCHANGED <<conf, pair, handler, together>>

\* Faulty variant: the handler gets the configuration only.
NewHandlerForgetsJWKS ==
    /\ boot = "newHandler"
    /\ IF NewSucceeds(conf.OpenIDConfig, conf.JWKS)
       THEN handler' = [config |-> conf.OpenIDConfig, jwks |-> Missing] /\ boot' = "loadCert"
       ELSE handler' = handler /\ boot' = "exited"
    /\ UNCHANGED <<conf, pair, together>>

\* Faulty variant: the key set that is served is read again.
NewHandlerReadsAgain ==
    /\ boot = "newHandler"
    /\ IF NewSucceeds(conf.OpenIDConfig, conf.JWKS)
       THEN handler' = [config |-> conf.OpenIDConfig, jwks |-> files.jwks] /\ boot' = "loadCert"
       ELSE handler' = handler /\ boot' = "exited"
    /\ UNCHANGED <<conf, pair, together>>

\* The handler keeps the bytes it has checked.
NewHandler ==
    /\ boot = "newHandler"
    /\ IF NewSucceeds(conf.OpenIDConfig, conf.JWKS)
       THEN handler' = [config |-> conf.OpenIDConfig, jwks |-> conf.JWKS] /\ boot' = "loadCert"
       ELSE handler' = handler /\ boot' = "exited"
    /\ UNCHANGED <<conf, pair, together>>

\* dynamiccert.New reads the certificate file, then the key file.
LoadCert ==
    /\ boot = "loadCert"
    /\ pair' = [pair EXCEPT !.cert = files.cert]
    /\ GoesOn(files.cert # Broken, "loadKey")
    /\ UNCHANGED <<conf, handler, together>>

\* The key must be that of the certificate; then run starts its goroutines.
LoadKey ==
    /\ boot = "loadKey"
    /\ pair' = [pair EXCEPT !.key = files.key]
    /\ GoesOn(files.key = pair.cert, "running")
    /\ UNCHANGED <<conf, handler, together>>

BootStep ==
    /\ \/ ValidateFlags \/ ApplyTo \/ ReadJWKS \/ Build \/ NewHandler \/ LoadCert \/ LoadKey
    /\ UNCHANGED <<vars, flags, files, disturbed>>

-----------------------------------------------------------------------------
(* The process that has started, with the steps of Lifecycle. *)

Running == boot = "running" /\ UNCHANGED <<configVars, boot>>

MgrObeys == Running /\ Done("mgrCtx") /\ MgrStops /\ UNCHANGED disturbed
ServersStep ==
    /\ Running
    /\ \/ MgrSends \/ MgrCancelsSrv
       \/ ListenerBinds \/ ListenerCloses
       \/ SrvFails \/ SrvStops \/ SrvShutsDown \/ SrvSends \/ SrvCancelsMgr
    /\ UNCHANGED disturbed

\* main returns when the command does.
Exit ==
    /\ boot = "running"
    /\ main = "returned"
    /\ boot' = "exited"
    /\ UNCHANGED <<vars, configVars, disturbed>>

\* The process is started again, with the same arguments or others.
Start ==
    /\ boot = "exited"
    /\ cancelled' = {} /\ main' = "select" /\ mgr' = "running" /\ srv' = "select"
    /\ listener' = "listening" /\ accepting' = FALSE /\ closing' = FALSE
    /\ errs' = {} /\ returned' = {}
    /\ boot' = "validate"
    /\ conf' = NoConf /\ pair' = NoPair /\ handler' = NoEntry
    /\ together' = NoEntry
    /\ flags' \in FlagValues
    /\ disturbed' = IF flags' = flags THEN disturbed ELSE disturbed + 1
    /\ disturbed' <= MaxDisturbances
    /\ UNCHANGED files

-----------------------------------------------------------------------------
(* What may happen to it. *)

Disturbance == disturbed < MaxDisturbances /\ disturbed' = disturbed + 1

\* Somebody writes one of the files.
FileChanges ==
    /\ Disturbance
    /\ \E f \in DOMAIN files : \E content \in (IF f \in {"config", "jwks"}
                                                THEN Contents \cup {Missing}
                                                ELSE KeyPairs \cup {Broken}) \ {files[f]} :
         /\ files' = [files EXCEPT ![f] = content]
         /\ together' = IF f \in {"config", "jwks"} /\ boot = "readJWKS" THEN NoEntry ELSE together
    /\ UNCHANGED <<vars, flags, boot, conf, pair, handler>>

\* The configuration of the cluster cannot be had, or a part of the manager
\* cannot be made.
BuildFails ==
    /\ Disturbance
    /\ boot = "build"
    /\ boot' = "exited"
    /\ UNCHANGED <<vars, configVars>>

\* A server fails.
ServerFails ==
    /\ Running
    /\ Disturbance
    /\ (~Done("mgrCtx") /\ MgrStops) \/ ListenerFails

\* A signal cancels the context, which run looks at when it has started
\* its goroutines.
SignalComes ==
    /\ boot # "exited"
    /\ Disturbance
    /\ Signal
    /\ UNCHANGED <<configVars, boot>>

\* The process is killed.
Killed ==
    /\ boot # "exited"
    /\ Disturbance
    /\ boot' = "exited"
    /\ UNCHANGED <<vars, configVars>>

ProcessNext ==
    \/ BootStep \/ MgrObeys \/ ServersStep \/ Exit \/ Start
    \/ FileChanges \/ BuildFails \/ ServerFails \/ SignalComes \/ Killed

ProcessSpec == ProcessInit /\ [][ProcessNext]_processVars

\* The start goes on, goroutines run, the manager obeys its context, the
\* listener binds its address if it does not fail, Shutdown returns after
\* its timeout, and the process is started again when it has ended.
FairProcessSpec ==
    /\ ProcessSpec
    /\ WF_processVars(BootStep)
    /\ WF_processVars(MgrObeys)
    /\ WF_processVars(Running /\ MgrSends /\ UNCHANGED disturbed)
    /\ WF_processVars(Running /\ MgrCancelsSrv /\ UNCHANGED disturbed)
    /\ WF_processVars(Running /\ ListenerBinds /\ UNCHANGED disturbed)
    /\ WF_processVars(Running /\ (SrvFails \/ SrvStops) /\ UNCHANGED disturbed)
    /\ WF_processVars(Running /\ SrvShutsDown /\ UNCHANGED disturbed)
    /\ WF_processVars(Running /\ SrvSends /\ UNCHANGED disturbed)
    /\ WF_processVars(Running /\ SrvCancelsMgr /\ UNCHANGED disturbed)
    /\ WF_processVars(Exit)
    /\ WF_processVars(Start /\ flags' = flags)

-----------------------------------------------------------------------------
(* Properties. *)

\* What a GET of a path of the workload identity is answered.
Serve(path) ==
    HTTP!ServeHTTP([method |-> "GET", path |-> path, shootUID |-> "", projectName |-> <<>>],
                   <<>>, <<>>, handler)

GardenPaths == {"garden openid-configuration", "garden jwks"}

\* The URLs of the configuration and the keys of the key set are fit to be
\* published.
DocumentsValid(documents) ==
    /\ documents.config.json = "object" /\ documents.jwks.json = "object"
    /\ documents.config.issuer.scheme = "https" /\ documents.config.jwksURI.scheme = "https"
    /\ ~documents.config.issuer.query /\ ~documents.config.issuer.fragment
    /\ ~\E key \in documents.jwks.keys : ~key.public

\* Whatever happens to the files during the start, a process that serves
\* has checked the documents that it serves, its certificate belongs to its
\* key, and its reconcilers repeat themselves.
RunningIsValidated ==
    boot = "running" =>
        /\ \A path \in GardenPaths : Serve(path).code = 200 => DocumentsValid(handler)
        /\ pair.cert = pair.key /\ pair.cert # Broken
        /\ flags.resync > 0

\* ApplyTo decides by the first of the two flags if the workload identity
\* is served: a process that serves has left neither flag unheeded.
NoFlagIsIgnored ==
    boot = "running" =>
        \A path \in GardenPaths :
            Serve(path).code = 200 <=> TrimSpace(flags.config) # "" \/ TrimSpace(flags.jwks) # ""

\* The configuration and the key set are read one after the other, and never
\* again.  A write between the two reads, and nothing else, can make the
\* process serve a configuration and a key set that the files never held
\* together: whatever is written before the first read, after the second, by
\* whoever restarts the process or during its service.
OnlyATornReadMixes ==
    boot = "running" /\ handler # NoEntry /\ together # NoEntry =>
        /\ Serve("garden openid-configuration").body = together.config
        /\ Serve("garden jwks").body = together.jwks

\* A signal, a manager that stops and a listener that fails all end the
\* process, whenever they come: the two servers stop each other, and no
\* goroutine that run waits for is left waiting itself.
ReturnsWhenAnythingStops ==
    "ctx" \in cancelled \/ mgr # "running" \/ listener = "sendErr" ~> boot = "exited"

\* The arguments and files are such that a start succeeds.
Startable ==
    /\ Validate(flags)
    /\ Enabled(flags) => /\ Missing \notin {files.config, files.jwks}
                         /\ NewSucceeds(files.config, files.jwks)
    /\ files.cert # Broken /\ files.key = files.cert

\* When nothing fails any more and the arguments and the files are good,
\* the process comes up, manager and server, however it was disturbed.
ComesUp == <>[](Startable => boot = "running" /\ accepting /\ mgr = "running")

-----------------------------------------------------------------------------
(* The inductive invariant: what the start has established so far. *)

HasHandler == {"loadCert", "loadKey", "running"}
HasConf == {"build", "newHandler"} \cup HasHandler

ProcessInv ==
    /\ ProcessTypeOK
    /\ Inv
    /\ boot \notin {"validate", "exited"} => Validate(flags)
    /\ boot = "readJWKS" => conf.Enabled /\ Enabled(flags)
    /\ boot \in HasConf => (conf.Enabled <=> Enabled(flags))
    /\ boot \in HasConf \cup {"readJWKS"} /\ conf.Enabled =>
         conf.OpenIDConfig # Missing /\ (together # NoEntry => conf.OpenIDConfig = together.config)
    /\ boot = "readJWKS" /\ together # NoEntry => together = Documents
    /\ boot \in HasConf /\ conf.Enabled =>
         conf.JWKS # Missing /\ (together # NoEntry => conf.JWKS = together.jwks)
    /\ boot = "newHandler" => conf.Enabled
    /\ boot \in Starting \ HasHandler => handler = NoEntry
    /\ boot \in HasHandler =>
         IF conf.Enabled
         THEN /\ handler = [config |-> conf.OpenIDConfig, jwks |-> conf.JWKS]
              /\ NewSucceeds(conf.OpenIDConfig, conf.JWKS)
         ELSE handler = NoEntry
    /\ boot \in {"loadKey", "running"} => pair.cert # Broken
    /\ boot = "running" => pair.key = pair.cert
=============================================================================
