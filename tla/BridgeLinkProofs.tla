---------------------------- MODULE BridgeLinkProofs ----------------------------
(* Lemmas about the link alone, for every number of connections: the two    *)
(* modules built on it cite them for the part of their steps that is the    *)
(* link's.                                                                  *)
EXTENDS BridgeLink, TLAPS

\* The maps never hold a socket whose end the gateway has handled.
RegisteredIsLive == Bound(registered) => sock[registered].line # "gone"

\* The agent opens its sockets one after the other and holds the last of them.
ClientIsLast ==
  /\ \A s, t \in Sockets : s < t /\ sock[t].phase # "none" => sock[s].phase # "none"
  /\ client # NoSocket => /\ sock[client].phase # "none"
                         /\ \A t \in Sockets : client < t => sock[t].phase = "none"

\* AgentIsRouted, also of a line whose end is not noticed yet.
BoundIsRouted ==
  Bound(client) /\ sock[client].line # "gone" /\ ~overtaken => registered = client

LinkInv == LinkTypeOK /\ ClientIsLast /\ BoundIsRouted /\ RegisteredIsLive

-----------------------------------------------------------------------------
LEMMA LinkInitInv == LinkInit => LinkInv
<1> SUFFICES ASSUME LinkInit PROVE LinkInv
  OBVIOUS
<1> USE SocketAssumption DEF LinkInit
<1>1. LinkTypeOK
  BY DEF LinkTypeOK
<1>2. ClientIsLast /\ BoundIsRouted /\ RegisteredIsLive
  BY DEF ClientIsLast, BoundIsRouted, RegisteredIsLive, Bound
<1> QED
  BY <1>1, <1>2 DEF LinkInv

LEMMA LinkTypeStep ==
  ASSUME LinkTypeOK, LinkNext
  PROVE  LinkTypeOK'
<1> USE SocketAssumption DEF LinkTypeOK, Bound, Open
<1>1. ASSUME NEW s \in Sockets, Connect(s) PROVE LinkTypeOK'
  BY <1>1 DEF Connect
<1>2. ASSUME NEW s \in Sockets, Break(s) PROVE LinkTypeOK'
  BY <1>2 DEF Break
<1>3. ASSUME NEW s \in Sockets, Resolve(s) PROVE LinkTypeOK'
  BY <1>3 DEF Resolve
<1>4. ASSUME NEW s \in Sockets, Disconnect(s) PROVE LinkTypeOK'
  BY <1>4 DEF Disconnect, Unrouted
<1>5. CASE AgentNotices
  BY <1>5 DEF AgentNotices
<1>6. CASE RotateToken
  BY <1>6 DEF RotateToken
<1>7. CASE Reinstall
  BY <1>7 DEF Reinstall
<1>8. CASE RestartLink
  BY <1>8 DEF RestartLink
<1>9. ASSUME NEW w \in writes, NEW o \in Outcomes, WriteStatus(w, o) PROVE LinkTypeOK'
  BY <1>9 DEF WriteStatus
<1> QED
  BY <1>1, <1>2, <1>3, <1>4, <1>5, <1>6, <1>7, <1>8, <1>9 DEF LinkNext, LinkStep

LEMMA LinkOrderStep ==
  ASSUME LinkTypeOK, ClientIsLast, LinkNext
  PROVE  ClientIsLast'
<1> USE SocketAssumption DEF LinkTypeOK, ClientIsLast, Sockets
<1>1. ASSUME NEW s \in Sockets, Connect(s) PROVE ClientIsLast'
  BY <1>1 DEF Connect
<1>2. ASSUME NEW s \in Sockets, Break(s) \/ Disconnect(s) PROVE ClientIsLast'
  <2>1. \A t \in Sockets : sock'[t].phase = sock[t].phase
    <3>1. CASE Break(s)
      BY <3>1 DEF Break
    <3>2. CASE Disconnect(s)
      <4>1. sock' = [sock EXCEPT ![s].line = "gone"]
        BY <3>2 DEF Disconnect
      <4> QED
        BY <4>1
    <3> QED
      BY <1>2, <3>1, <3>2
  <2>2. client' = client
    BY <1>2 DEF Break, Disconnect
  <2> QED
    BY <2>1, <2>2
<1>3. ASSUME NEW s \in Sockets, Resolve(s) PROVE ClientIsLast'
  <2>1. \A t \in Sockets : sock'[t].phase = "none" <=> sock[t].phase = "none"
    BY <1>3 DEF Resolve
  <2>2. client' = client
    BY <1>3 DEF Resolve
  <2> QED
    BY <2>1, <2>2
<1>4. CASE AgentNotices \/ RotateToken \/ Reinstall
  BY <1>4 DEF AgentNotices, RotateToken, Reinstall
<1>5. CASE RestartLink
  BY <1>5 DEF RestartLink
<1>6. ASSUME NEW w \in writes, NEW o \in Outcomes, WriteStatus(w, o) PROVE ClientIsLast'
  BY <1>6 DEF WriteStatus
<1> QED
  BY <1>1, <1>2, <1>3, <1>4, <1>5, <1>6 DEF LinkNext, LinkStep

\* The entry of the agent's socket in the maps goes only with that socket: by its own
\* end, by a restart, or by an older one that is resolved after it.
LEMMA LinkRoutingStep ==
  ASSUME LinkInv, LinkNext
  PROVE  BoundIsRouted' /\ RegisteredIsLive'
<1> USE SocketAssumption DEF LinkInv, LinkTypeOK, BoundIsRouted, RegisteredIsLive, Bound, Open
<1>1. ASSUME NEW s \in Sockets, Connect(s) PROVE BoundIsRouted' /\ RegisteredIsLive'
  BY <1>1 DEF Connect
<1>2. ASSUME NEW s \in Sockets, Break(s) PROVE BoundIsRouted' /\ RegisteredIsLive'
  BY <1>2 DEF Break
<1>3. ASSUME NEW s \in Sockets, Resolve(s) PROVE BoundIsRouted' /\ RegisteredIsLive'
  BY <1>3 DEF Resolve
<1>4. ASSUME NEW s \in Sockets, Disconnect(s) PROVE BoundIsRouted' /\ RegisteredIsLive'
  BY <1>4 DEF Disconnect, Unrouted
<1>5. CASE AgentNotices \/ RotateToken \/ Reinstall
  BY <1>5 DEF AgentNotices, RotateToken, Reinstall
<1>6. CASE RestartLink
  BY <1>6 DEF RestartLink
<1>7. ASSUME NEW w \in writes, NEW o \in Outcomes, WriteStatus(w, o)
      PROVE  BoundIsRouted' /\ RegisteredIsLive'
  BY <1>7 DEF WriteStatus
<1> QED
  BY <1>1, <1>2, <1>3, <1>4, <1>5, <1>6, <1>7 DEF LinkNext, LinkStep

\* What both modules need: their steps are steps of the link or leave it alone.
LEMMA LinkInvStep ==
  ASSUME LinkInv, [LinkNext]_linkVars
  PROVE  LinkInv'
<1>1. CASE LinkNext
  BY <1>1, LinkTypeStep, LinkOrderStep, LinkRoutingStep DEF LinkInv
<1>2. CASE UNCHANGED linkVars
  BY <1>2 DEF linkVars, LinkInv, LinkTypeOK, ClientIsLast, BoundIsRouted, RegisteredIsLive, Bound
<1> QED
  BY <1>1, <1>2

LEMMA LinkIsRouted == LinkInv => AgentIsRouted
BY SocketAssumption DEF LinkInv, BoundIsRouted, AgentIsRouted, Connected, Open, Bound
=============================================================================
