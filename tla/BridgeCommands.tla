----------------------------- MODULE BridgeCommands -----------------------------
(***************************************************************************)
(* What the cloud asks of a bridge agent over the link of BridgeLink:      *)
(* `configure`, a call that waits for an answer or a timeout, and          *)
(* `stream:start`, which is sent once per camera until the link goes.      *)
(* Source: bridge/bridge-dispatch.service.ts, cctv/cctv.service.ts and the *)
(* agent's index.ts.                                                       *)
(***************************************************************************)
EXTENDS BridgeLink

CONSTANTS
  Calls,       \* calls of dispatchConfigure
  Device,      \* the device each of them is for
  Cameras,
  NoCall

Devices == {Device[k] : k \in Calls}

ASSUME CallAssumption == NoCall \notin Calls

VARIABLES
  call,        \* the promise of each call
  pending,     \* pendingConfigures
  timer,       \* calls whose timer runs
  asked,       \* configures under way to the agent, by call and socket
  answers,     \* configure:result the agent has sent, or keeps until it is connected
  streaming,   \* cameras that were asked for
  startedOn,   \* the socket the camera's last stream:start was sent on
  clearing     \* onBridgeOffline that read the cameras of the branch, by socket

configures == <<call, pending, timer, asked, answers>>
streams == <<streaming, startedOn, clearing>>
commandVars == <<configures, streams>>
vars == <<linkVars, commandVars>>

-----------------------------------------------------------------------------
(* Plausible bugs: wrong versions of the definitions below. *)

Timers_StaleRuns(k) == timer \union {k}    \* the timer of the first call is not cleared
Timers_Restarted(k) == timer \union {pending[Device[k]]}    \* the first one's again

Heard_IfOffline(w) == w[1] = "offline" /\ registered = NoSocket    \* if not back already

-----------------------------------------------------------------------------
Init ==
  /\ LinkInit
  /\ call = [k \in Calls |-> "none"]
  /\ pending = [d \in Devices |-> NoCall]
  /\ timer = {}
  /\ asked = {}
  /\ answers = [d \in Devices |-> 0]
  /\ streaming = {}
  /\ startedOn = [c \in Cameras |-> NoSocket]
  /\ clearing = {}

(* configure *)

\* A second call for a device replaces the first, whose promise is forgotten.
Timers(k) == (timer \ {pending[Device[k]]}) \union {k}

Configure(k) ==
  /\ call[k] = "none"
  /\ IF registered = NoSocket
     THEN /\ call' = [call EXCEPT ![k] = "refused"]
          /\ UNCHANGED <<pending, timer, asked>>
     ELSE /\ call' = [call EXCEPT ![k] = "waiting"]
          /\ pending' = [pending EXCEPT ![Device[k]] = k]
          /\ timer' = Timers(k)
          /\ asked' = asked \union {<<k, registered>>}
  /\ UNCHANGED <<linkVars, answers, streams>>

\* The agent answers each configure that reaches it once, well or not.
Answer(k, s) ==
  /\ <<k, s>> \in asked /\ client = s /\ Open(s)
  /\ asked' = asked \ {<<k, s>>}
  /\ answers' = [answers EXCEPT ![Device[k]] = @ + 1]
  /\ UNCHANGED <<linkVars, call, pending, timer, streams>>

\* A result that finds a call of its device ends it; one that comes while the token
\* of its socket is still being resolved is dropped by the gateway.
Result(d) ==
  /\ answers[d] > 0 /\ client # NoSocket /\ Open(client)
  /\ answers' = [answers EXCEPT ![d] = @ - 1]
  /\ IF Connected /\ pending[d] # NoCall
     THEN /\ call' = [call EXCEPT ![pending[d]] = "answered"]
          /\ timer' = timer \ {pending[d]}
          /\ pending' = [pending EXCEPT ![d] = NoCall]
     ELSE UNCHANGED <<call, timer, pending>>
  /\ UNCHANGED <<linkVars, asked, streams>>

\* Twenty seconds: the entry of the device goes, whoever's it is.
Timeout(k) ==
  /\ k \in timer
  /\ timer' = timer \ {k}
  /\ pending' = [pending EXCEPT ![Device[k]] = NoCall]
  /\ call' = [call EXCEPT ![k] = "timedOut"]
  /\ UNCHANGED <<linkVars, asked, answers, streams>>

\* What was under way on a line that broke is lost, from either side.
Lose(k, s) ==
  /\ <<k, s>> \in asked /\ ~Open(s)
  /\ asked' = asked \ {<<k, s>>}
  /\ UNCHANGED <<linkVars, call, pending, timer, answers, streams>>

LoseResult(d) ==
  /\ answers[d] > 0 /\ ~(client # NoSocket /\ Open(client))
  /\ answers' = [answers EXCEPT ![d] = @ - 1]
  /\ UNCHANGED <<linkVars, call, pending, timer, asked, streams>>

(* Live streams *)

\* ensureStreaming, on each request of a live playlist: asked for once, sent or not.
Watch(c) ==
  /\ c \notin streaming
  /\ streaming' = streaming \union {c}
  /\ startedOn' = [startedOn EXCEPT ![c] = registered]
  /\ UNCHANGED <<linkVars, configures, clearing>>

\* onBridgeOffline, when its SELECT answers.
Clear(s) ==
  /\ s \in clearing
  /\ clearing' = clearing \ {s}
  /\ streaming' = {}
  /\ UNCHANGED <<linkVars, configures, startedOn>>

(* The steps of the link that commands depend on *)

\* CctvService hears of the end of every socket that was bound, replaced or not.
Heard(w) == w[1] = "offline"

StatusWritten(w) ==
  /\ \E landed \in Outcomes : WriteStatus(w, landed)
  /\ clearing' = IF Heard(w) THEN clearing \union {w[2]} ELSE clearing
  /\ UNCHANGED <<configures, streaming, startedOn>>

Restart ==
  /\ RestartLink
  /\ call' = [k \in Calls |-> IF call[k] = "waiting" THEN "lost" ELSE call[k]]
  /\ pending' = [d \in Devices |-> NoCall]
  /\ timer' = {}
  /\ streaming' = {} /\ clearing' = {}
  /\ UNCHANGED <<asked, answers, startedOn>>

LinkOnly == LinkStep /\ UNCHANGED commandVars

-----------------------------------------------------------------------------
Next ==
  \/ LinkOnly \/ Restart
  \/ \E w \in writes : StatusWritten(w)
  \/ \E k \in Calls : Configure(k) \/ Timeout(k) \/ \E s \in Sockets : Answer(k, s) \/ Lose(k, s)
  \/ \E d \in Devices : Result(d) \/ LoseResult(d)
  \/ \E c \in Cameras : Watch(c)
  \/ \E s \in Sockets : Clear(s)

Spec == Init /\ [][Next]_vars

-----------------------------------------------------------------------------
(* Properties *)

TypeOK ==
  /\ LinkTypeOK
  /\ call \in [Calls -> {"none", "refused", "waiting", "answered", "timedOut", "lost"}]
  /\ pending \in [Devices -> Calls \union {NoCall}]
  /\ timer \subseteq Calls
  /\ asked \subseteq Calls \X Sockets
  /\ answers \in [Devices -> Nat]
  /\ streaming \subseteq Cameras
  /\ startedOn \in [Cameras -> Sockets \union {NoSocket}]
  /\ clearing \subseteq Sockets

\* A timer that runs is the one of the call that its device waits for, through second
\* calls that replace the first and answers that end whichever call they find: the
\* timeout of one call never takes away the entry of another.
TimerOwnsPending ==
  \A k \in Calls : /\ k \in timer <=> pending[Device[k]] = k
                   /\ k \in timer => call[k] = "waiting"

\* A camera does not count as streaming on a socket whose end was seen, once its event
\* has been handled, however fast the agent came back ("otherwise the already streaming
\* guard would keep serving frozen, stale segments").
StartDiesWithItsSocket ==
  \A c \in streaming, s \in Sockets :
    startedOn[c] = s /\ Bound(s) /\ sock[s].line = "gone" =>
      <<"offline", s>> \in writes \/ s \in clearing
=============================================================================
