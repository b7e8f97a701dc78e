------------------------------- MODULE BridgeLink -------------------------------
(***************************************************************************)
(* The socket between the bridge agent of a branch and the cloud, and what *)
(* the cloud keeps of it: the map that routes commands and the bridge's    *)
(* row.  What depends on the link is in BridgePresence and BridgeCommands. *)
(* Source: bridge/bridge.gateway.ts, bridge.service.ts, and the agent's    *)
(* cloud-client.ts.                                                        *)
(*                                                                         *)
(* Sockets are numbered as the agent opens them.  The two maps of the      *)
(* gateway, by bridge and by outlet, change together and are one variable. *)
(* Every `await` on the database splits a handler: the UPDATEs it issues   *)
(* are in flight, land in any order, and may fail, which is caught and     *)
(* logged only.                                                            *)
(***************************************************************************)
EXTENDS Naturals

CONSTANTS
  MaxSockets,  \* bound: connections the agent opens
  NoSocket,
  Outcomes     \* how a setStatus of the instance may end: landed (TRUE), failed (FALSE)

Sockets == 1 .. MaxSockets

ASSUME SocketAssumption ==
  MaxSockets \in Nat /\ NoSocket \notin Sockets /\ Outcomes \subseteq BOOLEAN

VARIABLES
  sock,       \* what the server holds of each socket, and whether its line is up
  client,     \* the socket the agent holds
  registered, \* outletSockets, bridgeSockets
  overtaken,  \* an older socket was resolved after the one the agent holds
  row,        \* branch_bridges: the status, and whether the agent has its token
  writes      \* setStatus in flight

linkVars == <<sock, client, registered, overtaken, row, writes>>

-----------------------------------------------------------------------------
(* A plausible bug: a wrong version of the definition below. *)

Unrouted_Always(s) == NoSocket    \* an old socket's end clears the new one's entry

-----------------------------------------------------------------------------
Bound(s) == s \in Sockets /\ sock[s].phase = "bound"
Open(s) == s \in Sockets /\ sock[s].line = "open"

\* What the agent sends reaches the handlers of the gateway.
Connected == Bound(client) /\ Open(client)

\* What the maps hold once the socket is gone: its own entry is cleared.
Unrouted(s) == IF registered = s THEN NoSocket ELSE registered

LinkInit ==
  /\ sock = [s \in Sockets |-> [phase |-> "none", line |-> "none"]]
  /\ client = NoSocket /\ registered = NoSocket /\ overtaken = FALSE
  /\ row = [status |-> "offline", paired |-> TRUE]
  /\ writes = {}

(* The agent and the line between *)

\* The client library connects again when it has noticed that its socket is dead.
Connect(s) ==
  /\ client = NoSocket /\ sock[s].phase = "none"
  /\ \A t \in Sockets : t < s => sock[t].phase # "none"
  /\ sock' = [sock EXCEPT ![s] = [phase |-> "resolving", line |-> "open"]]
  /\ client' = s /\ overtaken' = FALSE
  /\ UNCHANGED <<registered, row, writes>>

Break(s) ==
  /\ Open(s)
  /\ sock' = [sock EXCEPT ![s].line = "lost"]
  /\ UNCHANGED <<client, registered, overtaken, row, writes>>

AgentNotices ==
  /\ client # NoSocket /\ ~Open(client)
  /\ client' = NoSocket
  /\ UNCHANGED <<sock, registered, overtaken, row, writes>>

(* The gateway *)

\* handleConnection, when resolveByToken answers: a socket that is gone by then is
\* put into the maps all the same, an orphan that nobody will take out, and so is one
\* that the agent has left for another which is bound already.
Resolve(s) ==
  /\ sock[s].phase = "resolving"
  /\ IF row.paired
     THEN /\ sock' = [sock EXCEPT ![s].phase = IF sock[s].line = "gone" THEN "orphan" ELSE "bound"]
          /\ registered' = s
          /\ overtaken' = (overtaken \/ (s # client /\ Bound(client)))
          /\ writes' = writes \union {<<"online", s>>}
     ELSE /\ sock' = [sock EXCEPT ![s] = [phase |-> "refused", line |-> "gone"]]
          /\ UNCHANGED <<registered, overtaken, writes>>
  /\ UNCHANGED <<client, row>>

\* handleDisconnect; a socket that is still being resolved is not known to it.
Disconnect(s) ==
  /\ sock[s].line = "lost"
  /\ sock' = [sock EXCEPT ![s].line = "gone"]
  /\ IF Bound(s)
     THEN registered' = Unrouted(s) /\ writes' = writes \union {<<"offline", s>>}
     ELSE UNCHANGED <<registered, writes>>
  /\ UNCHANGED <<client, overtaken, row>>

\* setStatus lands or fails; an offline one is followed by the event bridge:offline
\* either way.
WriteStatus(w, landed) ==
  /\ w \in writes /\ landed \in Outcomes
  /\ writes' = writes \ {w}
  /\ row' = IF landed THEN [row EXCEPT !.status = w[1]] ELSE row
  /\ UNCHANGED <<sock, client, registered, overtaken>>

RotateToken ==
  /\ row.paired
  /\ row' = [status |-> "offline", paired |-> FALSE]
  /\ UNCHANGED <<sock, client, registered, overtaken, writes>>

\* The agent is installed again with the new token.
Reinstall ==
  /\ ~row.paired /\ client = NoSocket
  /\ row' = [row EXCEPT !.paired = TRUE]
  /\ UNCHANGED <<sock, client, registered, overtaken, writes>>

\* The cloud process stops: handlers end where they are, and no row is touched.
RestartLink ==
  /\ sock' = [s \in Sockets |->
       IF sock[s].phase = "none" THEN sock[s] ELSE [phase |-> "refused", line |-> "gone"]]
  /\ registered' = NoSocket
  /\ writes' = {}
  /\ UNCHANGED <<client, overtaken, row>>

-----------------------------------------------------------------------------
\* The steps that nobody else hears of.
LinkStep ==
  \/ \E s \in Sockets : Connect(s) \/ Break(s) \/ Resolve(s) \/ Disconnect(s)
  \/ AgentNotices \/ RotateToken \/ Reinstall

LinkNext == LinkStep \/ RestartLink \/ \E w \in writes, o \in Outcomes : WriteStatus(w, o)

LinkSpec == LinkInit /\ [][LinkNext]_linkVars

-----------------------------------------------------------------------------
(* Properties *)

LinkTypeOK ==
  /\ sock \in [Sockets -> [phase : {"none", "resolving", "bound", "orphan", "refused"},
                           line : {"none", "open", "lost", "gone"}]]
  /\ client \in Sockets \union {NoSocket}
  /\ registered \in Sockets \union {NoSocket}
  /\ overtaken \in BOOLEAN
  /\ row \in [status : {"online", "offline"}, paired : BOOLEAN]
  /\ writes \subseteq {"online", "offline"} \X Sockets

\* Commands reach the agent over the connection it holds, whatever becomes of its older
\* ones: a disconnect that is noticed late never takes the newer socket out of the maps
\* ("guards against a fast reconnect having already replaced it").  An older socket
\* whose token is resolved after the agent's own does take its place.
AgentIsRouted == Connected /\ ~overtaken => registered = client
=============================================================================
