-------------------------- MODULE BridgeCommandsProofs --------------------------
(* Proofs about BridgeCommands, for every number of connections, calls,     *)
(* devices and cameras.                                                     *)
EXTENDS BridgeCommands, BridgeLinkProofs

\* A pending entry is that of a call for its own device.
EntryOfItsDevice ==
  \A d \in Devices : pending[d] # NoCall => Device[pending[d]] = d

CallInv == EntryOfItsDevice /\ TimerOwnsPending

Inv == LinkInv /\ TypeOK /\ CallInv /\ StartDiesWithItsSocket

-----------------------------------------------------------------------------
LEMMA StepOfTheLink ==
  ASSUME [Next]_vars
  PROVE  [LinkNext]_linkVars
<1>1. CASE LinkOnly
  BY <1>1 DEF LinkOnly, LinkNext
<1>2. CASE Restart
  BY <1>2 DEF Restart, LinkNext
<1>3. ASSUME NEW w \in writes, StatusWritten(w) PROVE LinkNext
  BY <1>3 DEF StatusWritten, LinkNext
<1>4. ASSUME NEW k \in Calls, Configure(k) \/ Timeout(k) PROVE UNCHANGED linkVars
  BY <1>4 DEF Configure, Timeout
<1>5. ASSUME NEW k \in Calls, NEW s \in Sockets, Answer(k, s) \/ Lose(k, s)
      PROVE  UNCHANGED linkVars
  BY <1>5 DEF Answer, Lose
<1>6. ASSUME NEW d \in Devices, Result(d) \/ LoseResult(d) PROVE UNCHANGED linkVars
  BY <1>6 DEF Result, LoseResult
<1>7. ASSUME NEW c \in Cameras, Watch(c) PROVE UNCHANGED linkVars
  BY <1>7 DEF Watch
<1>8. ASSUME NEW s \in Sockets, Clear(s) PROVE UNCHANGED linkVars
  BY <1>8 DEF Clear
<1>9. CASE UNCHANGED vars
  BY <1>9 DEF vars
<1> QED
  BY <1>1, <1>2, <1>3, <1>4, <1>5, <1>6, <1>7, <1>8, <1>9 DEF Next

LEMMA InvInit == Init => Inv
<1> SUFFICES ASSUME Init PROVE Inv
  OBVIOUS
<1> USE DEF Init
<1>1. LinkInv
  BY LinkInitInv
<1>2. TypeOK
  BY <1>1 DEF LinkInv, TypeOK
<1>3. CallInv
  BY CallAssumption DEF CallInv, EntryOfItsDevice, TimerOwnsPending, Devices
<1>4. StartDiesWithItsSocket
  BY DEF StartDiesWithItsSocket
<1> QED
  BY <1>1, <1>2, <1>3, <1>4 DEF Inv

-----------------------------------------------------------------------------
(* Type correctness *)

CommandTypes ==
  /\ call \in [Calls -> {"none", "refused", "waiting", "answered", "timedOut", "lost"}]
  /\ pending \in [Devices -> Calls \union {NoCall}]
  /\ timer \subseteq Calls
  /\ asked \subseteq Calls \X Sockets
  /\ answers \in [Devices -> Nat]
  /\ streaming \subseteq Cameras
  /\ startedOn \in [Cameras -> Sockets \union {NoSocket}]
  /\ clearing \subseteq Sockets

LEMMA TypeStep ==
  ASSUME LinkTypeOK, CommandTypes, [Next]_vars
  PROVE  CommandTypes'
<1> USE DEF CommandTypes
<1>1. CASE LinkOnly
  BY <1>1 DEF LinkOnly, commandVars, configures, streams
<1>2. CASE Restart
  BY <1>2 DEF Restart
<1>3. ASSUME NEW w \in writes, StatusWritten(w) PROVE CommandTypes'
  <2>1. w[2] \in Sockets
    BY DEF LinkTypeOK
  <2> QED
    BY <1>3, <2>1 DEF StatusWritten, configures
<1>4. ASSUME NEW k \in Calls, Configure(k) PROVE CommandTypes'
  <2>1. registered # NoSocket => registered \in Sockets
    BY DEF LinkTypeOK
  <2>2. Timers(k) \subseteq Calls
    BY DEF Timers
  <2> QED
    BY <1>4, <2>1, <2>2 DEF Configure, streams
<1>5. ASSUME NEW k \in Calls, Timeout(k) PROVE CommandTypes'
  BY <1>5 DEF Timeout, streams
<1>6. ASSUME NEW k \in Calls, NEW s \in Sockets, Answer(k, s) PROVE CommandTypes'
  BY <1>6 DEF Answer, streams, Devices
<1>7. ASSUME NEW k \in Calls, NEW s \in Sockets, Lose(k, s) PROVE CommandTypes'
  BY <1>7 DEF Lose, streams
<1>8. ASSUME NEW d \in Devices, Result(d) PROVE CommandTypes'
  BY <1>8 DEF Result, streams
<1>9. ASSUME NEW d \in Devices, LoseResult(d) PROVE CommandTypes'
  BY <1>9 DEF LoseResult, streams
<1>10. ASSUME NEW c \in Cameras, Watch(c) PROVE CommandTypes'
  BY <1>10 DEF Watch, configures, LinkTypeOK
<1>11. ASSUME NEW s \in Sockets, Clear(s) PROVE CommandTypes'
  BY <1>11 DEF Clear, configures
<1>12. CASE UNCHANGED vars
  BY <1>12 DEF vars, commandVars, configures, streams
<1> QED
  BY <1>1, <1>2, <1>3, <1>4, <1>5, <1>6, <1>7, <1>8, <1>9, <1>10, <1>11, <1>12 DEF Next

-----------------------------------------------------------------------------
(* configure *)

\* Every end of a call removes its entry and its timer together, or those of the
\* call it replaces.
LEMMA CallStep ==
  ASSUME CommandTypes, CallInv, [Next]_vars
  PROVE  CallInv'
<1> USE CallAssumption DEF CommandTypes, CallInv, EntryOfItsDevice, TimerOwnsPending
<1>1. CASE UNCHANGED <<call, pending, timer>>
  BY <1>1
<1>2. CASE Restart
  BY <1>2 DEF Restart, Devices
<1>3. ASSUME NEW k \in Calls, Configure(k) PROVE CallInv'
  <2>1. CASE registered = NoSocket
    BY <1>3, <2>1 DEF Configure
  <2>2. CASE registered # NoSocket
    <3> DEFINE d == Device[k]
    <3>1. /\ call[k] = "none" /\ call' = [call EXCEPT ![k] = "waiting"]
          /\ pending' = [pending EXCEPT ![d] = k]
          /\ timer' = (timer \ {pending[d]}) \union {k}
      BY <1>3, <2>2 DEF Configure, Timers
    <3>2. d \in Devices
      BY DEF Devices
    <3>3. EntryOfItsDevice'
      BY <3>1, <3>2
    <3>4. ASSUME NEW j \in Calls
          PROVE  /\ j \in timer' <=> pending'[Device[j]] = j
                 /\ j \in timer' => call'[j] = "waiting"
      <4>1. Device[j] \in Devices
        BY DEF Devices
      <4>2. CASE j = k
        BY <3>1, <3>2, <4>2
      <4>3. CASE j # k /\ Device[j] = d
        BY <3>1, <3>2, <4>3
      <4>4. CASE j # k /\ Device[j] # d
        BY <3>1, <3>2, <4>1, <4>4
      <4> QED
        BY <4>2, <4>3, <4>4
    <3> QED
      BY <3>3, <3>4
  <2> QED
    BY <2>1, <2>2
<1>4. ASSUME NEW k \in Calls, Timeout(k) PROVE CallInv'
  BY <1>4 DEF Timeout, Devices
<1>5. ASSUME NEW d \in Devices, Result(d) PROVE CallInv'
  <2>1. CASE Connected /\ pending[d] # NoCall
    BY <1>5, <2>1 DEF Result, Devices
  <2>2. CASE ~(Connected /\ pending[d] # NoCall)
    BY <1>5, <2>2 DEF Result
  <2> QED
    BY <2>1, <2>2
<1>6. \/ Restart
      \/ \E k \in Calls : Configure(k) \/ Timeout(k)
      \/ \E d \in Devices : Result(d)
      \/ UNCHANGED <<call, pending, timer>>
  BY DEF Next, LinkOnly, StatusWritten, Answer, Lose, LoseResult, Watch, Clear,
         vars, commandVars, configures
<1> QED
  BY <1>1, <1>2, <1>3, <1>4, <1>5, <1>6

-----------------------------------------------------------------------------
(* Live streams *)

\* A socket in the maps is live, so no camera is started on one that has ended, and
\* every end of a bound socket leads to a clearing of the cameras.
LEMMA StreamStep ==
  ASSUME LinkInv, CommandTypes, StartDiesWithItsSocket, [Next]_vars
  PROVE  StartDiesWithItsSocket'
<1> USE SocketAssumption
    DEF LinkInv, LinkTypeOK, RegisteredIsLive, CommandTypes, StartDiesWithItsSocket, Bound, Open
<1>1. CASE UNCHANGED <<linkVars, streams>>
  BY <1>1 DEF linkVars, streams
<1>2. CASE Restart
  BY <1>2 DEF Restart
<1>3. ASSUME NEW w \in writes, StatusWritten(w) PROVE StartDiesWithItsSocket'
  BY <1>3 DEF StatusWritten, WriteStatus, Heard
<1>4. ASSUME NEW c \in Cameras, Watch(c) PROVE StartDiesWithItsSocket'
  BY <1>4 DEF Watch, linkVars
<1>5. ASSUME NEW s \in Sockets, Clear(s) PROVE StartDiesWithItsSocket'
  BY <1>5 DEF Clear
<1>6. CASE LinkOnly
  <2> USE DEF LinkOnly, commandVars, streams
  <2>1. ASSUME NEW s \in Sockets, Connect(s) PROVE StartDiesWithItsSocket'
    BY <1>6, <2>1 DEF Connect
  <2>2. ASSUME NEW s \in Sockets, Break(s) PROVE StartDiesWithItsSocket'
    BY <1>6, <2>2 DEF Break
  <2>3. ASSUME NEW s \in Sockets, Resolve(s) PROVE StartDiesWithItsSocket'
    BY <1>6, <2>3 DEF Resolve
  <2>4. ASSUME NEW s \in Sockets, Disconnect(s) PROVE StartDiesWithItsSocket'
    BY <1>6, <2>4 DEF Disconnect
  <2>5. CASE AgentNotices \/ RotateToken \/ Reinstall
    BY <1>6, <2>5 DEF AgentNotices, RotateToken, Reinstall
  <2> QED
    BY <1>6, <2>1, <2>2, <2>3, <2>4, <2>5 DEF LinkStep
<1>7. \/ Restart \/ LinkOnly
      \/ \E w \in writes : StatusWritten(w)
      \/ \E c \in Cameras : Watch(c)
      \/ \E s \in Sockets : Clear(s)
      \/ UNCHANGED <<linkVars, streams>>
  BY DEF Next, Configure, Timeout, Answer, Lose, Result, LoseResult, vars, commandVars
<1> QED
  BY <1>1, <1>2, <1>3, <1>4, <1>5, <1>6, <1>7

-----------------------------------------------------------------------------
LEMMA InvStep ==
  ASSUME Inv, [Next]_vars
  PROVE  Inv'
<1>1. LinkInv'
  BY StepOfTheLink, LinkInvStep DEF Inv
<1>2. CommandTypes /\ LinkTypeOK
  BY DEF Inv, TypeOK, CommandTypes
<1>3. CommandTypes'
  BY <1>2, TypeStep
<1>4. TypeOK'
  BY <1>1, <1>3 DEF LinkInv, TypeOK, CommandTypes
<1>5. CallInv'
  BY <1>2, CallStep DEF Inv
<1>6. StartDiesWithItsSocket'
  BY <1>2, StreamStep DEF Inv
<1> QED
  BY <1>1, <1>4, <1>5, <1>6 DEF Inv

LEMMA InvHolds == Spec => []Inv
BY InvInit, InvStep, PTL DEF Spec

-----------------------------------------------------------------------------
(* The theorems *)

\* Every variable keeps its type; in particular no more results are taken than the
\* agent sent.
THEOREM TypeCorrect == Spec => []TypeOK
<1>1. Inv => TypeOK
  BY DEF Inv
<1> QED
  BY <1>1, InvHolds, PTL

\* For any number of overlapping configures of any devices: a timer that runs, and so a
\* timeout, is always that of the call the device's entry belongs to.
THEOREM TimersOwnEntries == Spec => []TimerOwnsPending
<1>1. Inv => TimerOwnsPending
  BY DEF Inv, CallInv
<1> QED
  BY <1>1, InvHolds, PTL

\* No camera stays marked as streaming on a socket whose end the cloud has handled.
THEOREM StreamsRestart == Spec => []StartDiesWithItsSocket
<1>1. Inv => StartDiesWithItsSocket
  BY DEF Inv
<1> QED
  BY <1>1, InvHolds, PTL
=============================================================================
