-------------------------- MODULE DynamicCertProofs ---------------------------
(***************************************************************************)
(* Proofs about DynamicCert, for any chains and keys and any number of     *)
(* changes of the files.                                                   *)
(***************************************************************************)
EXTENDS DynamicCert, TLAPS

USE DynamicCertAssumption

\* A pair that loads is made of a chain and a key.
LEMMA LoadsType ==
    ASSUME NEW cert \in CertFiles, NEW key, Loads(cert, key)
    PROVE  cert \in Chains /\ key \in PrivateKeys /\ cert # <<>>
BY DEF CertFiles, Loads

Inv == TypeOK /\ ServedPairMatches

\* Every step keeps types and the match.
LEMMA NextInv == Inv /\ [Next]_vars => Inv'
<1> SUFFICES ASSUME Inv, [Next]_vars PROVE Inv'
  OBVIOUS
<1> USE DEF Inv, TypeOK, ServedPairMatches
<1>1. CASE FilesChange
  BY <1>1 DEF FilesChange
<1>2. CASE ReadCertFile
  BY <1>2 DEF ReadCertFile
<1>3. CASE ReadKeyFileAndSwap
  <2>1. CASE Loads(read, files.key) /\ ~areEqual(read, served.chain)
    <3>1. read \in Chains /\ files.key \in PrivateKeys /\ read # <<>>
      BY <2>1, LoadsType
    <3>2. served' = [chain |-> read, key |-> files.key]
      BY <1>3, <2>1 DEF ReadKeyFileAndSwap
    <3> QED
      BY <1>3, <2>1, <3>1, <3>2 DEF ReadKeyFileAndSwap, Loads, CertFiles
  <2>2. CASE ~(Loads(read, files.key) /\ ~areEqual(read, served.chain))
    BY <1>3, <2>2 DEF ReadKeyFileAndSwap, CertFiles
  <2> QED
    BY <2>1, <2>2
<1>4. CASE UNCHANGED vars
  BY <1>4 DEF vars
<1> QED
  BY <1>1, <1>2, <1>3, <1>4 DEF Next, reloadCert

\* The invariant holds throughout.
LEMMA Invariance == Spec => []Inv
<1>1. Init => Inv
  BY LoadsType DEF Init, Inv, TypeOK, ServedPairMatches, CertFiles, Loads
<1> QED
  BY <1>1, NextInv, PTL DEF Spec

\* What is read and served is what the files may hold.
THEOREM TypeCorrect == Spec => []TypeOK
<1>1. Inv => TypeOK
  BY DEF Inv
<1> QED
  BY <1>1, Invariance, PTL

\* The served certificate always comes with its own key.
THEOREM ServesMatchingPairs == Spec => []ServedPairMatches
<1>1. Inv => ServedPairMatches
  BY DEF Inv
<1> QED
  BY <1>1, Invariance, PTL
=============================================================================
