--------------------------- MODULE LifecycleProofs ----------------------------
(***************************************************************************)
(* Proofs about Lifecycle.                                                 *)
(***************************************************************************)
EXTENDS Lifecycle, TLAPS

\* The invariant holds when run starts both servers.
LEMMA InitInv == Init => Inv
BY DEF Init, Inv, TypeOK, Servers

\* Every step of every goroutine keeps it.
LEMMA NextInv == Inv /\ [Next]_vars => Inv'
<1> SUFFICES ASSUME Inv, [Next]_vars PROVE Inv'
  OBVIOUS
<1> USE DEF Inv, TypeOK, Servers
<1>1. CASE Signal
  BY <1>1 DEF Signal
<1>2. CASE MgrStops
  BY <1>2 DEF MgrStops
<1>3. CASE MgrSends
  BY <1>3 DEF MgrSends, MgrReceived, MainReceives
<1>4. CASE MgrCancelsSrv
  BY <1>4 DEF MgrCancelsSrv
<1>5. CASE ListenerBinds
  BY <1>5 DEF ListenerBinds
<1>6. CASE ListenerFails
  BY <1>6 DEF ListenerFails
<1>7. CASE ListenerCloses
  BY <1>7 DEF ListenerCloses
<1>8. CASE SrvFails
  BY <1>8 DEF SrvFails
<1>9. CASE SrvStops
  BY <1>9 DEF SrvStops
<1>10. CASE SrvShutsDown
  BY <1>10 DEF SrvShutsDown
<1>11. CASE SrvSends
  BY <1>11 DEF SrvSends, SrvReceived, MainReceives
<1>12. CASE SrvCancelsMgr
  BY <1>12 DEF SrvCancelsMgr
<1>13. CASE UNCHANGED vars
  BY <1>13 DEF vars
<1> QED
  BY <1>1, <1>2, <1>3, <1>4, <1>5, <1>6, <1>7, <1>8, <1>9, <1>10, <1>11, <1>12, <1>13 DEF Next

\* The invariant holds throughout.
LEMMA Invariance == Spec => []Inv
BY InitInv, NextInv, PTL DEF Spec

\* When run has returned, no connection is accepted any more and the manager
\* has stopped.
THEOREM ReturnMeansStopped == Spec => []NothingRunsAfterReturn
<1>1. Inv => NothingRunsAfterReturn
  BY DEF Inv, TypeOK, NothingRunsAfterReturn
<1> QED
  BY <1>1, Invariance, PTL

\* No error of a server that run waited for is dropped.
THEOREM ErrorsAreJoined == Spec => []AllErrorsReturned
<1>1. Inv => AllErrorsReturned
  BY DEF Inv, TypeOK, Servers, AllErrorsReturned
<1> QED
  BY <1>1, Invariance, PTL
=============================================================================
