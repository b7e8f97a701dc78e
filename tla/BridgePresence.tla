----------------------------- MODULE BridgePresence -----------------------------
(***************************************************************************)
(* Whether the devices of a branch are shown online: heartbeats, the event *)
(* bridge:offline and a periodic reconciliation with the bridge's row all  *)
(* write it, over the link of BridgeLink.                                  *)
(* Source: the liveness half of device-registry/device-registry.service.ts,*)
(* bridge.gateway.ts (onHeartbeat), bridge.service.ts (touch).             *)
(***************************************************************************)
EXTENDS BridgeLink

VARIABLES
  fresh,    \* branch_bridges.last_seen_at is less than 90 s ago
  devices,  \* branch_devices: the status of the bridge's devices
  marks     \* setStatusForBridge in flight

presenceVars == <<fresh, devices, marks>>
vars == <<linkVars, presenceVars>>

-----------------------------------------------------------------------------
(* Plausible bugs: wrong versions of the definitions below. *)

Alive_Status == row.status = "online"    \* last_seen_at is not looked at

\* A status that the devices do not have.
Shown_Stale == IF fresh THEN row.status ELSE "stale"

-----------------------------------------------------------------------------
\* What the reconciliation takes for a live bridge.
Alive == row.status = "online" /\ fresh

Shown == IF Alive THEN "online" ELSE "offline"

Init ==
  /\ LinkInit
  /\ fresh = FALSE /\ devices = "offline" /\ marks = {}

\* last_seen_at is written with the status; bridge:offline follows an offline one.
StatusWritten(w) ==
  /\ \E landed \in Outcomes : WriteStatus(w, landed) /\ fresh' = (landed \/ fresh)
  /\ marks' = IF w[1] = "offline" THEN marks \union {"offline"} ELSE marks
  /\ UNCHANGED devices

\* onHeartbeat: touch and, through the event, setStatusForBridge.
Heartbeat ==
  /\ Connected
  /\ fresh' = TRUE
  /\ marks' = marks \union {"online"}
  /\ UNCHANGED <<linkVars, devices>>

\* Ninety seconds without a heartbeat; they come every fifteen.
GoStale ==
  /\ fresh /\ ~Connected
  /\ fresh' = FALSE
  /\ UNCHANGED <<linkVars, devices, marks>>

MarkDevices(m) ==
  /\ m \in marks
  /\ marks' = marks \ {m}
  /\ devices' = m
  /\ UNCHANGED <<linkVars, fresh>>

\* reconcileLiveness, every 30 s: it reads the row, and then marks the devices.
Reconcile ==
  /\ marks' = marks \union {Shown}
  /\ UNCHANGED <<linkVars, fresh, devices>>

Restart ==
  /\ RestartLink
  /\ marks' = {}
  /\ UNCHANGED <<fresh, devices>>

LinkOnly == LinkStep /\ UNCHANGED presenceVars

Next ==
  \/ LinkOnly \/ Restart \/ Heartbeat \/ GoStale \/ Reconcile
  \/ \E w \in writes : StatusWritten(w)
  \/ \E m \in marks : MarkDevices(m)

Spec == Init /\ [][Next]_vars

\* Statements end, time passes, heartbeats and the reconciliation are periodic, and
\* the server notices in the end that a line is dead.
FairSpec ==
  /\ Spec
  /\ \A s \in Sockets :
       /\ WF_vars(Resolve(s) /\ UNCHANGED presenceVars)
       /\ WF_vars(Disconnect(s) /\ UNCHANGED presenceVars)
       /\ \A v \in {"online", "offline"} : WF_vars(StatusWritten(<<v, s>>))
  /\ WF_vars(Heartbeat) /\ WF_vars(GoStale) /\ WF_vars(Reconcile)
  /\ \A m \in {"online", "offline"} : SF_vars(MarkDevices(m))

-----------------------------------------------------------------------------
(* Properties *)

TypeOK ==
  /\ LinkTypeOK
  /\ fresh \in BOOLEAN /\ devices \in {"online", "offline"}
  /\ marks \subseteq {"online", "offline"}

\* The devices of an agent that is gone for good are shown offline in the end, through
\* lost disconnects, late writes and restarts of the cloud: "this is what guarantees
\* topology flips a branch's devices offline" (reconcileLiveness).
DeadShowsOffline == <>[](client = NoSocket) => <>[](devices = "offline")

(* What the code says and does not do. *)

\* "so topology + alerts reflect reality": the devices of an agent that stays
\* connected, with a valid token, and sends its heartbeats are shown online in the end.
BeatingShowsOnline == <>[](Connected /\ row.paired) => <>[](devices = "online")
=============================================================================
