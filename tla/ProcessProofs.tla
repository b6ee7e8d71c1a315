----------------------------- MODULE ProcessProofs -----------------------------
(***************************************************************************)
(* Proofs about Process, for any documents, files, arguments and number of *)
(* disturbances.                                                           *)
(***************************************************************************)
EXTENDS Process, LifecycleProofs

USE ProcessAssumption

\* The goroutines keep what LifecycleProofs shows of them, whenever the
\* process is started, signalled and ended.
LEMMA LifecycleKept == Inv /\ [ProcessNext]_processVars => Inv'
<1> SUFFICES ASSUME Inv, [ProcessNext]_processVars PROVE Inv'
  OBVIOUS
<1>1. CASE Start
  <2>1. /\ cancelled' = {} /\ main' = "select" /\ mgr' = "running" /\ srv' = "select"
        /\ listener' = "listening" /\ accepting' = FALSE /\ closing' = FALSE
        /\ errs' = {} /\ returned' = {}
    BY <1>1 DEF Start
  <2> QED
    BY <2>1 DEF Inv, TypeOK, Servers
<1>2. CASE ~Start
  <2>1. [Next]_vars
    BY <1>2 DEF ProcessNext, BootStep, MgrObeys, ServersStep, Exit, FileChanges, BuildFails,
                ServerFails, SignalComes, Killed, Next, processVars
  <2> QED
    BY <2>1, NextInv
<1> QED
  BY <1>1, <1>2

\* The invariant holds when the process is started for the first time.
LEMMA ProcessInitInv == ProcessInit => ProcessInv
<1> SUFFICES ASSUME ProcessInit PROVE ProcessInv
  OBVIOUS
<1>1. Inv /\ TypeOK
  BY InitInv DEF ProcessInit, Inv
<1> QED
  BY <1>1 DEF ProcessInit, ProcessInv, ProcessTypeOK, Starting, HasHandler, HasConf, NoConf, NoPair

\* The steps of the start.
LEMMA BootStepInv ==
    ASSUME ProcessInv, BootStep, Inv'
    PROVE  ProcessInv'
<1> USE DEF ProcessInv, ProcessTypeOK, Starting, HasHandler, HasConf
<1>1. UNCHANGED <<vars, flags, files, disturbed>> /\ TypeOK'
  BY DEF BootStep, Inv
<1>2. CASE ValidateFlags
  BY <1>1, <1>2 DEF ValidateFlags, GoesOn
<1>3. CASE ApplyTo
  <2>1. CASE Enabled(flags)
    <3>1. PICK content : /\ content = ReadFile(flags.config, files.config)
                         /\ conf' = [conf EXCEPT !.Enabled = TRUE, !.OpenIDConfig = content]
                         /\ boot' = IF content # Missing THEN "readJWKS" ELSE "exited"
                         /\ together' = Documents
      BY <1>3, <2>1 DEF ApplyTo, GoesOn
    <3>2. content = Missing \/ content = files.config
      BY <3>1 DEF ReadFile
    <3>3. content \in Contents \cup {Missing}
      BY <3>2 DEF FileStates
    <3>4. /\ together' = [config |-> files.config, jwks |-> files.jwks]
          /\ files.config \in Contents \cup {Missing} /\ files.jwks \in Contents \cup {Missing}
          /\ together' = Documents'
      BY <1>1, <3>1 DEF Documents, FileStates
    <3>5. /\ together' \in [config : Contents \cup {Missing}, jwks : Contents \cup {Missing}]
          /\ together'.config = files.config
      BY <3>4
    <3>6. /\ conf' \in [Enabled : BOOLEAN, OpenIDConfig : Contents \cup {Missing},
                         JWKS : Contents \cup {Missing}]
          /\ conf'.Enabled /\ conf'.OpenIDConfig = content
      BY <3>1, <3>3
    <3>7. UNCHANGED <<pair, handler>> /\ handler = NoEntry
      BY <1>3 DEF ApplyTo
    <3>8. boot' \in {"readJWKS", "exited"} /\ (boot' = "readJWKS" => content = files.config /\ content # Missing)
      BY <3>1, <3>2
    <3>9. Validate(flags)
      BY <1>3 DEF ApplyTo
    <3> HIDE DEF ProcessInv, ProcessTypeOK
    <3>10. ProcessTypeOK'
      BY <1>1, <3>5, <3>6, <3>7, <3>8 DEF ProcessTypeOK, ProcessInv
    <3>11. /\ boot' \notin HasConf /\ boot' \notin HasHandler
           /\ boot' # "newHandler" /\ boot' # "loadKey" /\ boot' # "running"
      BY <3>8
    <3>12. (boot = "readJWKS" /\ together # NoEntry => together = Documents)'
      BY <3>4
    <3> HIDE DEF HasConf, HasHandler, Starting
    <3> QED
      BY <1>1, <2>1, <3>5, <3>6, <3>7, <3>8, <3>9, <3>10, <3>11, <3>12 DEF ProcessInv
  <2>2. CASE ~Enabled(flags)
    BY <1>1, <1>3, <2>2 DEF ApplyTo, GoesOn
  <2> QED
    BY <2>1, <2>2
<1>4. CASE ReadJWKS
  <2>1. PICK content : /\ content = ReadFile(flags.jwks, files.jwks)
                       /\ conf' = [conf EXCEPT !.JWKS = content]
                       /\ boot' = IF content # Missing THEN "build" ELSE "exited"
    BY <1>4 DEF ReadJWKS, GoesOn
  <2>2. content = Missing \/ content = files.jwks
    BY <2>1 DEF ReadFile
  <2>3. content \in Contents \cup {Missing}
    BY <2>2 DEF FileStates
  <2>4. Enabled(flags)
    BY <1>4 DEF ReadJWKS
  <2> QED
    BY <1>1, <1>4, <2>1, <2>2, <2>3, <2>4 DEF ReadJWKS, Documents
<1>5. CASE Build
  BY <1>1, <1>5 DEF Build, GoesOn
<1>6. CASE NewHandler
  BY <1>1, <1>6 DEF NewHandler
<1>7. CASE LoadCert
  BY <1>1, <1>7 DEF LoadCert, GoesOn, FileStates
<1>8. CASE LoadKey
  BY <1>1, <1>8 DEF LoadKey, GoesOn, FileStates
<1> QED
  BY <1>2, <1>3, <1>4, <1>5, <1>6, <1>7, <1>8 DEF BootStep

\* Every step keeps the invariant.
LEMMA ProcessNextInv == ProcessInv /\ [ProcessNext]_processVars => ProcessInv'
<1> SUFFICES ASSUME ProcessInv, [ProcessNext]_processVars PROVE ProcessInv'
  OBVIOUS
<1>1. Inv' /\ TypeOK'
  BY LifecycleKept DEF ProcessInv, Inv
<1>2. CASE BootStep
  BY <1>1, <1>2, BootStepInv
<1> USE DEF ProcessInv, ProcessTypeOK, Starting, HasHandler, HasConf
<1>3. CASE MgrObeys \/ ServersStep
  BY <1>1, <1>3 DEF MgrObeys, ServersStep, Running, configVars
<1>4. CASE Exit
  BY <1>1, <1>4 DEF Exit, configVars
<1>5. CASE Start
  <2>1. disturbed' \in 0..MaxDisturbances
    BY <1>5 DEF Start
  <2> QED
    BY <1>1, <1>5, <2>1 DEF Start, NoConf, NoPair
<1>6. CASE FileChanges
  <2>1. files' \in FileStates
    BY <1>6 DEF FileChanges, FileStates
  <2>2. disturbed' \in 0..MaxDisturbances
    BY <1>6 DEF FileChanges, Disturbance
  <2>3. UNCHANGED <<flags, boot, conf, pair, handler>>
    BY <1>6 DEF FileChanges
  <2>4. \/ together' = NoEntry
        \/ /\ together' = together
           /\ boot = "readJWKS" => files'.config = files.config /\ files'.jwks = files.jwks
    <3>1. PICK f \in DOMAIN files : \E content :
            /\ files' = [files EXCEPT ![f] = content]
            /\ together' = IF f \in {"config", "jwks"} /\ boot = "readJWKS" THEN NoEntry ELSE together
      BY <1>6 DEF FileChanges
    <3> QED
      BY <3>1 DEF FileStates
  <2>5. boot = "readJWKS" /\ together' # NoEntry => Documents' = Documents
    BY <2>4 DEF Documents
  <2>6. together' = NoEntry \/ together' = together
    BY <2>4
  <2> QED
    BY <1>1, <2>1, <2>2, <2>3, <2>5, <2>6
<1>7. CASE BuildFails \/ Killed
  BY <1>1, <1>7 DEF BuildFails, Killed, Disturbance, configVars
<1>8. CASE ServerFails \/ SignalComes
  BY <1>1, <1>8 DEF ServerFails, SignalComes, Running, Disturbance, configVars, Documents
<1>9. CASE UNCHANGED processVars
  BY <1>1, <1>9 DEF processVars, configVars, Documents
<1> QED
  BY <1>2, <1>3, <1>4, <1>5, <1>6, <1>7, <1>8, <1>9 DEF ProcessNext

\* The invariant holds throughout.
LEMMA ProcessInvariance == ProcessSpec => []ProcessInv
BY ProcessInitInv, ProcessNextInv, PTL DEF ProcessSpec

\* What has been read, checked and kept has the type of its step.
THEOREM ProcessTypeCorrect == ProcessSpec => []ProcessTypeOK
<1>1. ProcessInv => ProcessTypeOK
  BY DEF ProcessInv
<1> QED
  BY <1>1, ProcessInvariance, PTL

\* The two answers about the workload identity.
LEMMA ServeGarden ==
    /\ handler = NoEntry => \A path \in GardenPaths : Serve(path).code # 200
    /\ handler # NoEntry =>
         /\ \A path \in GardenPaths : Serve(path).code = 200
         /\ Serve("garden openid-configuration").body = handler.config
         /\ Serve("garden jwks").body = handler.jwks
BY DEF Serve, GardenPaths, HTTP!ServeHTTP, HTTP!SetHSTS, HTTP!NotFoundReply, HTTP!Reply,
       HTTP!HandleWorkloadIdentity, HTTP!AllowMethods, HTTP!Document

\* A process that serves has validated what it serves.
THEOREM ValidatedBeforeServing == ProcessSpec => []RunningIsValidated
<1>1. ProcessInv => RunningIsValidated
  <2> SUFFICES ASSUME ProcessInv, boot = "running"
               PROVE  /\ \A path \in GardenPaths : Serve(path).code = 200 => DocumentsValid(handler)
                      /\ pair.cert = pair.key /\ pair.cert # Broken
                      /\ flags.resync > 0
    BY DEF RunningIsValidated
  <2>1. handler # NoEntry => DocumentsValid(handler)
    BY DEF ProcessInv, HasHandler, DocumentsValid, NewSucceeds, OpenIDConfigAccepted,
           KeySetAccepted, IssuerAccepted, JWKSURIAccepted, Issuer, JWKSURI, NoURL
  <2>2. handler = NoEntry => \A path \in GardenPaths : Serve(path).code # 200
    BY ServeGarden
  <2> QED
    BY <2>1, <2>2 DEF ProcessInv, Validate, ResyncOptionsValid
<1> QED
  BY <1>1, ProcessInvariance, PTL

\* The documents are served if one of the flags is set, and then both.
THEOREM FlagsAreHeeded == ProcessSpec => []NoFlagIsIgnored
<1>1. ProcessInv => NoFlagIsIgnored
  <2> SUFFICES ASSUME ProcessInv, boot = "running", NEW path \in GardenPaths
               PROVE  Serve(path).code = 200 <=> TrimSpace(flags.config) # "" \/ TrimSpace(flags.jwks) # ""
    BY DEF NoFlagIsIgnored
  <2>1. handler # NoEntry <=> Enabled(flags)
    BY DEF ProcessInv, ProcessTypeOK, HasHandler, HasConf
  <2>2. Enabled(flags) <=> TrimSpace(flags.config) # "" \/ TrimSpace(flags.jwks) # ""
    BY DEF ProcessInv, Validate, WorkloadIdentityOptionsValid, Enabled
  <2> QED
    BY <2>1, <2>2, ServeGarden
<1> QED
  BY <1>1, ProcessInvariance, PTL

\* What is served was in the files together, unless one of them was written
\* between the two reads.
THEOREM OnlyWritesBetweenTheReadsMix == ProcessSpec => []OnlyATornReadMixes
<1>1. ProcessInv => OnlyATornReadMixes
  <2> SUFFICES ASSUME ProcessInv, boot = "running", handler # NoEntry, together # NoEntry
               PROVE  /\ Serve("garden openid-configuration").body = together.config
                      /\ Serve("garden jwks").body = together.jwks
    BY DEF OnlyATornReadMixes
  <2>1. handler.config = together.config /\ handler.jwks = together.jwks
    BY DEF ProcessInv, HasHandler, HasConf
  <2> QED
    BY <2>1, ServeGarden
<1> QED
  BY <1>1, ProcessInvariance, PTL

\* When run has returned, no connection is accepted any more and the manager
\* has stopped, in every process.
THEOREM ProcessReturnMeansStopped == ProcessSpec => []NothingRunsAfterReturn
<1>1. ProcessInv => NothingRunsAfterReturn
  BY DEF ProcessInv, Inv, TypeOK, NothingRunsAfterReturn
<1> QED
  BY <1>1, ProcessInvariance, PTL

\* No error of a server is dropped, in any process.
THEOREM ProcessErrorsAreJoined == ProcessSpec => []AllErrorsReturned
<1>1. ProcessInv => AllErrorsReturned
  BY DEF ProcessInv, Inv, TypeOK, Servers, AllErrorsReturned
<1> QED
  BY <1>1, ProcessInvariance, PTL
=============================================================================
