------------------------------ MODULE Reconnect ------------------------------
(***************************************************************************)
(* The page's connection (web/src/hooks/useWebSocket.ts): the effect React *)
(* sets up and cleans up, the sockets connect() makes, the close events    *)
(* they deliver later, and the timers of scheduleReconnect.                *)
(*                                                                         *)
(* The four refs outlive the effect: a set-up that follows a clean-up has  *)
(* those of its predecessor (React sets effects up twice in development,   *)
(* and again whenever url changes). Callbacks run one at a time, in any    *)
(* order. A socket and a timer are numbers, free for use when not in use.  *)
(*                                                                         *)
(* Definitions every module has carry Conn in their names, so that proofs  *)
(* can extend this module beside Conversation.                             *)
(***************************************************************************)
EXTENDS Naturals, FiniteSets

CONSTANTS
  Sockets, Timers,         (* identities of sockets and timers             *)
  None,
  MinBackoff, MaxBackoff,  (* 1000 and 30000 in the code                   *)
  MaxSetups                (* bound: times the effect is set up            *)

ASSUME ReconnectAssumption ==
  /\ None \notin Sockets \cup Timers
  /\ MinBackoff \in Nat \ {0} /\ MaxBackoff \in Nat /\ MinBackoff <= MaxBackoff
  /\ MaxSetups \in Nat

VARIABLES
  sock,       (* of each socket: unused, connecting, open, closing (close  *)
              (* was called) or failed; the last two have a close event due *)
  pending,    (* timers that will fire                                     *)
  wsRef, timerRef, backoffRef, unmounted,
  setups,     (* times the effect was set up                               *)
  network,    (* whether the server can be reached                         *)
  stale,      (* history: sockets whose close event was due at a clean-up  *)
  revived     (* history: how many of those events scheduled a connection  *)

refs == <<wsRef, timerRef, backoffRef, unmounted>>
history == <<stale, revived>>
connVars == <<sock, pending, refs, setups, network, history>>

In(states) == {s \in Sockets : sock[s] \in states}
Live == In({"connecting", "open"})

Mounted == setups > 0 /\ ~ unmounted

ConnInit ==
  /\ sock = [s \in Sockets |-> "unused"]
  /\ pending = {}
  /\ wsRef = None /\ timerRef = None
  /\ backoffRef = MinBackoff
  /\ unmounted = FALSE
  /\ setups = 0
  /\ network \in BOOLEAN
  /\ stale = {} /\ revived = 0

-----------------------------------------------------------------------------

(* new WebSocket(url) *)
NewSocket(s) ==
  /\ sock[s] = "unused"
  /\ sock' = [sock EXCEPT ![s] = "connecting"]
  /\ wsRef' = s

Setup ==
  /\ ~ Mounted /\ setups < MaxSetups
  /\ setups' = setups + 1
  /\ unmounted' = FALSE
  /\ \E s \in Sockets : NewSocket(s)
  /\ UNCHANGED <<pending, timerRef, backoffRef, network, history>>

(* Closing a socket that is closed does nothing. *)
CloseSocket ==
  /\ sock' = IF wsRef \in Live THEN [sock EXCEPT ![wsRef] = "closing"] ELSE sock
  /\ stale' = stale \cup In({"closing", "failed"}) \cup (Live \cap {wsRef})

(* Faulty variant: the clean-up forgets the timer. *)
CleanupKeepingTimer ==
  /\ Mounted
  /\ unmounted' = TRUE
  /\ CloseSocket
  /\ UNCHANGED <<pending, wsRef, timerRef, backoffRef, setups, network, revived>>

(* The function the effect returns. *)
Cleanup ==
  /\ Mounted
  /\ unmounted' = TRUE
  /\ pending' = pending \ {timerRef}
  /\ CloseSocket
  /\ UNCHANGED <<wsRef, timerRef, backoffRef, setups, network, revived>>

OnOpen(s) ==
  /\ sock[s] = "connecting" /\ network
  /\ sock' = [sock EXCEPT ![s] = "open"]
  /\ backoffRef' = MinBackoff
  /\ UNCHANGED <<pending, wsRef, timerRef, unmounted, setups, network, history>>

(* A connection may break at any time, an attempt fails for want of a      *)
(* server. onerror closes the socket; its close event is due either way.   *)
Fails(s) ==
  /\ s \in Live /\ (sock[s] = "open" \/ ~ network)
  /\ sock' = [sock EXCEPT ![s] = "failed"]

SocketFails(s) ==
  /\ Fails(s)
  /\ UNCHANGED <<pending, refs, setups, network, history>>

(* Faulty variant: the delay has no bound. *)
ScheduleUncapped ==
  /\ backoffRef' = 2 * backoffRef
  /\ \E t \in Timers \ pending :
       /\ pending' = pending \cup {t}
       /\ timerRef' = t

(* scheduleReconnect *)
Schedule ==
  /\ backoffRef' = IF 2 * backoffRef < MaxBackoff THEN 2 * backoffRef ELSE MaxBackoff
  /\ \E t \in Timers \ pending :
       /\ pending' = pending \cup {t}
       /\ timerRef' = t

CloseEvent(s, Then) ==
  /\ sock[s] \in {"closing", "failed"}
  /\ sock' = [sock EXCEPT ![s] = "unused"]
  /\ stale' = stale \ {s}
  /\ IF unmounted
       THEN UNCHANGED <<pending, timerRef, backoffRef, revived>>
       ELSE /\ Then
            /\ revived' = IF s \in stale THEN revived + 1 ELSE revived
  /\ UNCHANGED <<wsRef, unmounted, setups, network>>

(* Faulty variant: the end of a connection that had opened is taken for an *)
(* orderly one.                                                            *)
OnCloseGivingUp(s) ==
  CloseEvent(s, IF backoffRef = MinBackoff
                  THEN UNCHANGED <<pending, timerRef, backoffRef>> ELSE Schedule)

(* onclose: the flag it reads is that of the present set-up, not that of   *)
(* the set-up its socket was made by.                                      *)
OnClose(s) == CloseEvent(s, Schedule)

(* The callback of a timer: the ref is cleared whichever timer it holds.   *)
TimerFires(t) ==
  /\ t \in pending
  /\ pending' = pending \ {t}
  /\ timerRef' = None
  /\ IF unmounted THEN UNCHANGED <<sock, wsRef>>
                  ELSE \E s \in Sockets : NewSocket(s)
  /\ UNCHANGED <<backoffRef, unmounted, setups, network, history>>

(* The network comes and goes. *)
NetworkChanges ==
  /\ network' = ~ network
  /\ UNCHANGED <<sock, pending, refs, setups, history>>

ConnNext ==
  \/ Setup \/ Cleanup \/ NetworkChanges
  \/ \E s \in Sockets : OnOpen(s) \/ SocketFails(s) \/ OnClose(s)
  \/ \E t \in Timers : TimerFires(t)

ConnSpec == ConnInit /\ [][ConnNext]_connVars

(* Events are delivered, timers fire, and an attempt that can succeed does *)
(* if the server stays up.                                                 *)
FairConnSpec ==
  /\ ConnSpec
  /\ \A s \in Sockets : WF_connVars(OnOpen(s)) /\ WF_connVars(OnClose(s))
                        /\ WF_connVars(sock[s] = "connecting" /\ SocketFails(s))
  /\ \A t \in Timers : WF_connVars(TimerFires(t))

-----------------------------------------------------------------------------

ConnTypeOK ==
  /\ sock \in [Sockets -> {"unused", "connecting", "open", "closing", "failed"}]
  /\ pending \subseteq Timers
  /\ wsRef \in Sockets \cup {None} /\ timerRef \in Timers \cup {None}
  /\ backoffRef \in MinBackoff .. MaxBackoff
  /\ unmounted \in BOOLEAN /\ network \in BOOLEAN
  /\ setups \in 0 .. MaxSetups
  /\ stale \subseteq In({"closing", "failed"}) /\ revived \in Nat

(* What will lead to further connections: sockets in use, sockets that     *)
(* failed since the last clean-up, and timers.                             *)
Chains == Cardinality(Live) + Cardinality(In({"failed"}) \ stale) + Cardinality(pending)

(* The page has one connection, attempt or timer while it is mounted and   *)
(* none once it is not, but for one more with each close event that was    *)
(* due at a clean-up and was delivered after the next set-up. Nothing      *)
(* else makes the page connect twice or after unmounting, whichever of     *)
(* several timers and sockets the refs have lost track of                  *)
(* (useWebSocket.ts:24-72).                                                *)
OneChainUnlessRevived == Chains <= revived + (IF Mounted THEN 1 ELSE 0)

(* A mounted page whose server stays reachable has an open connection      *)
(* again and again, however often it breaks (useWebSocket.ts:48-64).       *)
ComesBack ==
  <>[](network /\ Mounted) => []<>(In({"open"}) # {})

=============================================================================
