-------------------------- MODULE BridgePresenceProofs --------------------------
(* Proofs about BridgePresence, for every number of connections. *)
EXTENDS BridgePresence, BridgeLinkProofs

Inv == LinkInv /\ TypeOK

-----------------------------------------------------------------------------
\* Whatever the presence of devices does, the link takes steps of its own.
LEMMA StepOfTheLink ==
  ASSUME [Next]_vars
  PROVE  [LinkNext]_linkVars
<1>1. CASE LinkOnly
  BY <1>1 DEF LinkOnly, LinkNext
<1>2. CASE Restart
  BY <1>2 DEF Restart, LinkNext
<1>3. CASE Heartbeat \/ GoStale \/ Reconcile
  BY <1>3 DEF Heartbeat, GoStale, Reconcile
<1>4. ASSUME NEW w \in writes, StatusWritten(w) PROVE LinkNext
  BY <1>4 DEF StatusWritten, LinkNext
<1>5. ASSUME NEW m \in marks, MarkDevices(m) PROVE UNCHANGED linkVars
  BY <1>5 DEF MarkDevices
<1>6. CASE UNCHANGED vars
  BY <1>6 DEF vars
<1> QED
  BY <1>1, <1>2, <1>3, <1>4, <1>5, <1>6 DEF Next

LEMMA InvInit == Init => Inv
<1> SUFFICES ASSUME Init PROVE Inv
  OBVIOUS
<1>1. LinkInv
  BY LinkInitInv DEF Init
<1> QED
  BY <1>1 DEF Init, Inv, LinkInv, TypeOK

LEMMA InvStep ==
  ASSUME Inv, [Next]_vars
  PROVE  Inv'
<1>1. LinkInv'
  BY StepOfTheLink, LinkInvStep DEF Inv
<1> DEFINE PresenceOK == /\ fresh \in BOOLEAN /\ devices \in {"online", "offline"}
                         /\ marks \subseteq {"online", "offline"}
<1>2. PresenceOK'
  <2> USE DEF Inv, TypeOK
  <2>1. CASE LinkOnly
    BY <2>1 DEF LinkOnly, presenceVars
  <2>2. CASE Restart
    BY <2>2 DEF Restart
  <2>3. CASE Heartbeat
    BY <2>3 DEF Heartbeat
  <2>4. CASE GoStale
    BY <2>4 DEF GoStale
  <2>5. CASE Reconcile
    BY <2>5 DEF Reconcile, Shown
  <2>6. ASSUME NEW w \in writes, StatusWritten(w) PROVE PresenceOK'
    BY <2>6 DEF StatusWritten
  <2>7. ASSUME NEW m \in marks, MarkDevices(m) PROVE PresenceOK'
    BY <2>7 DEF MarkDevices
  <2>8. CASE UNCHANGED vars
    BY <2>8 DEF vars, presenceVars
  <2> QED
    BY <2>1, <2>2, <2>3, <2>4, <2>5, <2>6, <2>7, <2>8 DEF Next
<1> QED
  BY <1>1, <1>2 DEF Inv, LinkInv, TypeOK

LEMMA InvHolds == Spec => []Inv
BY InvInit, InvStep, PTL DEF Spec

-----------------------------------------------------------------------------
(* The theorems *)

\* Every variable keeps its type: no handler writes a status that its column lacks.
THEOREM TypeCorrect == Spec => []TypeOK
<1>1. Inv => TypeOK
  BY DEF Inv
<1> QED
  BY <1>1, InvHolds, PTL

\* However many connections overlap and in whatever order their ends are noticed, the
\* maps hold the one the agent uses, unless an older one was resolved after it.
THEOREM RoutesTheAgent == Spec => []AgentIsRouted
<1>1. Inv => AgentIsRouted
  BY LinkIsRouted DEF Inv
<1> QED
  BY <1>1, InvHolds, PTL
=============================================================================
