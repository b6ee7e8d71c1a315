----------------------------- MODULE DynamicCert ------------------------------
(***************************************************************************)
(* The serving certificate: a goroutine loads the certificate file and the *)
(* key file again at every tick, and the TLS server serves what was last   *)
(* loaded.  The two files are read one after the other while somebody else *)
(* replaces them, one at a time or both at once.                           *)
(*                                                                         *)
(*  files    contents of the certificate file and of the key file, Broken  *)
(*           for one that is missing or cannot be parsed                   *)
(*  pc       step of the reload goroutine                                  *)
(*  read     what the running reload has read from the certificate file    *)
(*  served   the certificate chain and the key that are served             *)
(*  changes  history: number of file changes so far, at most MaxChanges    *)
(***************************************************************************)
EXTENDS Naturals, Sequences

CONSTANTS
    Chains,      \* certificate chains, leaf first
    PrivateKeys, \* private keys
    KeyFor,      \* the private key of each leaf certificate
    MaxChanges,  \* bound on the changes of the files
    Broken       \* a file that cannot be loaded

VARIABLES files, pc, read, served, changes

vars == <<files, pc, read, served, changes>>

ASSUME DynamicCertAssumption ==
    /\ \A chain \in Chains : chain # <<>> /\ KeyFor[chain[1]] \in PrivateKeys
    /\ Broken \notin Chains \cup PrivateKeys
    /\ MaxChanges \in Nat

CertFiles == Chains \cup {Broken}
KeyFiles == PrivateKeys \cup {Broken}

TypeOK ==
    /\ files \in [cert : CertFiles, key : KeyFiles]
    /\ pc \in {"wait", "readKey"}
    /\ read \in CertFiles
    /\ served \in [chain : Chains, key : PrivateKeys]
    /\ changes \in 0..MaxChanges

\* Faulty variant: the two files are parsed one by one.
LoadsAnyKey(cert, key) == cert # Broken /\ key # Broken

\* tls.LoadX509KeyPair returns a pair only if the key is that of the leaf.
Loads(cert, key) == cert # Broken /\ key = KeyFor[cert[1]]

\* Faulty variant: the shorter chain decides.
areEqualPrefix(cert1, cert2) ==
    \A i \in DOMAIN cert1 \cap DOMAIN cert2 : cert1[i] = cert2[i]

areEqual(cert1, cert2) ==
    /\ Len(cert1) = Len(cert2)
    /\ \A i \in 1..Len(cert1) : cert1[i] = cert2[i]

\* The process starts only with a pair that loads.
Init ==
    /\ files \in [cert : CertFiles, key : KeyFiles]
    /\ Loads(files.cert, files.key)
    /\ served = [chain |-> files.cert, key |-> files.key]
    /\ pc = "wait"
    /\ read = Broken
    /\ changes = 0

-----------------------------------------------------------------------------
FilesChange ==
    /\ changes < MaxChanges
    /\ changes' = changes + 1
    /\ files' \in [cert : CertFiles, key : KeyFiles] \ {files}
    /\ UNCHANGED <<pc, read, served>>

\* The ticker fires and reloadCert reads the certificate file.
ReadCertFile ==
    /\ pc = "wait"
    /\ read' = files.cert
    /\ pc' = "readKey"
    /\ UNCHANGED <<files, served, changes>>

\* Faulty variant: the error of the load is dropped.
ReloadIgnoresError ==
    /\ pc = "readKey"
    /\ pc' = "wait"
    /\ read' = Broken
    /\ served' = IF Loads(read, files.key)
                 THEN [chain |-> read, key |-> files.key]
                 ELSE [chain |-> <<>>, key |-> Broken]
    /\ UNCHANGED <<files, changes>>

\* Then it reads the key file, and with the lock held replaces the served
\* certificate by the loaded one unless the chains are equal.  If the pair
\* does not load, the old one stays until the next tick.
ReadKeyFileAndSwap ==
    /\ pc = "readKey"
    /\ pc' = "wait"
    /\ read' = Broken
    /\ served' = IF Loads(read, files.key) /\ ~areEqual(read, served.chain)
                 THEN [chain |-> read, key |-> files.key]
                 ELSE served
    /\ UNCHANGED <<files, changes>>

reloadCert == ReadCertFile \/ ReadKeyFileAndSwap

Next == FilesChange \/ reloadCert

Spec == Init /\ [][Next]_vars

\* The ticker keeps firing.
FairSpec == Spec /\ WF_vars(reloadCert)

-----------------------------------------------------------------------------
\* The server never presents a certificate with the key of another one,
\* although the two files are read at different times.
ServedPairMatches == served.chain # <<>> /\ served.key = KeyFor[served.chain[1]]

\* When the files have been replaced by a pair that belongs together, the
\* server comes to serve it, also if only an intermediate certificate is
\* new.
ServesNewPair ==
    <>[](Loads(files.cert, files.key) => served = [chain |-> files.cert, key |-> files.key])
=============================================================================
