------------------------------- MODULE Server -------------------------------
(***************************************************************************)
(* The WebSocket handlers of the server (internal/server/server.go) around *)
(* the hub. A connection has two goroutines: the handler, which registers  *)
(* a channel, reads until an error and unregisters; and the writer, which  *)
(* ranges over the channel and closes the socket when it leaves. Request   *)
(* goroutines call Broadcast meanwhile.                                    *)
(*                                                                         *)
(* A connection is named by the channel its handler makes. The network is  *)
(* modelled from what the handlers see of it: a peer that closed makes     *)
(* reads and writes fail, one that vanished without a word takes writes    *)
(* into the kernel's buffer until the kernel gives up on it.               *)
(***************************************************************************)
EXTENDS Naturals, Sequences

CONSTANTS
  Chans, Agents, Cap, NoChan,  (* see Hub                                  *)
  Events,     (* posted events, each broadcast by one request goroutine    *)
  Responses,  (* messages peers send                                       *)
  AgentOf,    (* the agent id in a connection's path, NoAgent for /ws      *)
  NoAgent

Calls == Events \cup Responses

ASSUME ServerAssumption ==
  /\ Cap \in Nat \ {0} /\ NoChan \notin Chans
  /\ Events \cap Responses = {}
  /\ NoAgent \notin Agents
  /\ AgentOf \in [Chans -> Agents \cup {NoAgent}]

VARIABLES
  clients, agentListeners, closed, used, sent, got,
  call, pending, audience, dropped, earlier, panicked,  (* the hub's       *)
  handler,  (* where the handler of a connection is                        *)
  writer,   (* where its writer goroutine is; exited = socket closed       *)
  peer,     (* the other end: none yet, up, closed or silent               *)
  inbox,    (* messages of the peer the handler has not read               *)
  frames,   (* events that reached the peer                                *)
  unacked   (* silent peers with data waiting to be acknowledged           *)

H == INSTANCE Hub

hubVars == <<clients, agentListeners, closed, used, sent, got,
             call, pending, audience, dropped, earlier, panicked>>
netVars == <<peer, inbox, frames, unacked>>
vars == <<hubVars, handler, writer, netVars>>

Init ==
  /\ H!Init
  /\ handler = [c \in Chans |-> "idle"]
  /\ writer = [c \in Chans |-> "none"]
  /\ peer = [c \in Chans |-> "none"]
  /\ inbox = [c \in Chans |-> <<>>]
  /\ frames = [c \in Chans |-> <<>>]
  /\ unacked = {}

-----------------------------------------------------------------------------
(* The peer and the network. *)

Typed(r) == \E c \in Chans : \E i \in DOMAIN inbox[c] : inbox[c][i] = r

PeerSends(c, r) ==
  /\ peer[c] = "up"
  /\ call[r] = "idle" /\ ~ Typed(r)
  /\ inbox' = [inbox EXCEPT ![c] = Append(@, r)]
  /\ UNCHANGED <<hubVars, handler, writer, peer, frames, unacked>>

PeerLeaves(c) ==
  /\ peer[c] = "up"
  /\ \E how \in {"closed", "silent"} : peer' = [peer EXCEPT ![c] = how]
  /\ UNCHANGED <<hubVars, handler, writer, inbox, frames, unacked>>

(* Retransmissions to a silent peer have run out: the socket is dead. *)
KernelGivesUp(c) ==
  /\ c \in unacked
  /\ peer' = [peer EXCEPT ![c] = "closed"]
  /\ unacked' = unacked \ {c}
  /\ UNCHANGED <<hubVars, handler, writer, inbox, frames>>

-----------------------------------------------------------------------------
(* The handler goroutine: handleWS and handleAgentWS. *)

(* The upgrade answers the peer before the channel is registered. *)
Upgrade(c) ==
  /\ handler[c] = "idle"
  /\ handler' = [handler EXCEPT ![c] = "upgraded"]
  /\ peer' = [peer EXCEPT ![c] = "up"]
  /\ UNCHANGED <<hubVars, writer, inbox, frames, unacked>>

(* Register, and the start of the writer. *)
StartConn(c) ==
  /\ handler[c] = "upgraded"
  /\ H!Register(c)
  /\ handler' = [handler EXCEPT ![c] = "reading"]
  /\ writer' = [writer EXCEPT ![c] = "ranging"]
  /\ UNCHANGED netVars

(* ReadMessage returns: the agent route hands the message to               *)
(* RouteResponse, the other route forgets it.                              *)
ReadMessage(c) ==
  /\ handler[c] = "reading"
  /\ writer[c] # "exited"
  /\ inbox[c] # <<>>
  /\ inbox' = [inbox EXCEPT ![c] = Tail(@)]
  /\ IF AgentOf[c] = NoAgent
       THEN UNCHANGED hubVars
       ELSE H!RouteResponse(Head(inbox[c]), AgentOf[c])
  /\ UNCHANGED <<handler, writer, peer, frames, unacked>>

(* ReadMessage fails: the peer closed, or the writer closed the socket. *)
ReadError(c) ==
  /\ handler[c] = "reading"
  /\ peer[c] = "closed" \/ writer[c] = "exited"
  /\ handler' = [handler EXCEPT ![c] = "leaving"]
  /\ UNCHANGED <<hubVars, writer, netVars>>

(* Faulty variant: the handler returns without calling Unregister. *)
ReturnRegistered(c) ==
  /\ handler[c] = "leaving"
  /\ handler' = [handler EXCEPT ![c] = "returned"]
  /\ UNCHANGED <<hubVars, writer, netVars>>

EndConn(c) ==
  /\ handler[c] = "leaving"
  /\ H!Unregister(c)
  /\ handler' = [handler EXCEPT ![c] = "returned"]
  /\ UNCHANGED <<writer, netVars>>

-----------------------------------------------------------------------------
(* The writer goroutine. *)

WriterTakes(c) ==
  /\ writer[c] = "ranging"
  /\ H!Receive(c)
  /\ writer' = [writer EXCEPT ![c] = "writing"]
  /\ UNCHANGED <<handler, netVars>>

(* Faulty variant: a write that fails is skipped, and the loop goes on.    *)
WriterSkips(c) ==
  /\ writer[c] = "writing"
  /\ writer' = [writer EXCEPT ![c] = "ranging"]
  /\ \/ UNCHANGED frames
     \/ frames' = [frames EXCEPT ![c] = Append(@, sent[c][got[c]])]
  /\ UNCHANGED <<hubVars, handler, peer, inbox, unacked>>

(* WriteMessage succeeds once the peer, or the kernel's buffer, takes the  *)
(* frame.                                                                  *)
WriterSends(c) ==
  /\ writer[c] = "writing"
  /\ \/ /\ peer[c] = "up"
        /\ frames' = [frames EXCEPT ![c] = Append(@, sent[c][got[c]])]
        /\ UNCHANGED unacked
     \/ /\ peer[c] = "silent"
        /\ unacked' = unacked \cup {c}
        /\ UNCHANGED frames
  /\ writer' = [writer EXCEPT ![c] = "ranging"]
  /\ UNCHANGED <<hubVars, handler, peer, inbox>>

(* Faulty variant: a writer that fails closes the channel it ranged over.  *)
WriterClosesChannel(c) ==
  /\ writer[c] = "writing"
  /\ peer[c] = "closed"
  /\ H!Close(c)
  /\ writer' = [writer EXCEPT ![c] = "exited"]
  /\ UNCHANGED <<clients, agentListeners, used, sent, got, call, pending,
                 audience, dropped, earlier, handler, netVars>>

(* WriteMessage fails: the loop ends, and the deferred conn.Close runs. *)
WriterFails(c) ==
  /\ writer[c] = "writing"
  /\ peer[c] = "closed"
  /\ writer' = [writer EXCEPT ![c] = "exited"]
  /\ UNCHANGED <<hubVars, handler, netVars>>

(* The channel is closed and empty: the range ends, conn.Close runs. *)
WriterEnds(c) ==
  /\ writer[c] = "ranging"
  /\ c \in closed /\ H!Queued(c) = 0
  /\ writer' = [writer EXCEPT ![c] = "exited"]
  /\ UNCHANGED <<hubVars, handler, netVars>>

-----------------------------------------------------------------------------
(* The request goroutines: handlePostEvent's Broadcast of a saved event.   *)

BroadcastStep(b) ==
  /\ (\E c \in Chans : H!Offer(b, c)) \/ H!BroadcastUnlock(b)
  /\ UNCHANGED <<handler, writer, netVars>>

BroadcastStart(b) ==
  /\ call[b] = "idle"
  /\ H!BroadcastLock(b)
  /\ UNCHANGED <<handler, writer, netVars>>

HandlerStep(c) == StartConn(c) \/ ReadMessage(c) \/ ReadError(c) \/ EndConn(c)

WriterStep(c) == WriterTakes(c) \/ WriterFails(c) \/ WriterEnds(c)

Next ==
  \/ \E c \in Chans :
       \/ Upgrade(c) \/ HandlerStep(c)
       \/ WriterStep(c) \/ WriterSends(c)
       \/ PeerLeaves(c) \/ KernelGivesUp(c)
       \/ \E r \in Responses : PeerSends(c, r)
  \/ \E b \in Events : BroadcastStart(b) \/ BroadcastStep(b)

Spec == Init /\ [][Next]_vars

(* Goroutines that can run do, and the kernel times out. A peer that is up *)
(* may read as slowly as it likes, so WriterSends is not fair, and nobody  *)
(* has to connect, leave or post.                                          *)
FairSpec ==
  /\ Spec
  /\ \A c \in Chans : WF_vars(HandlerStep(c)) /\ WF_vars(WriterStep(c))
                      /\ WF_vars(KernelGivesUp(c))
  /\ \A b \in Events : WF_vars(BroadcastStep(b))

-----------------------------------------------------------------------------

TypeOK ==
  /\ H!TypeOK
  /\ handler \in [Chans -> {"idle", "upgraded", "reading", "leaving", "returned"}]
  /\ writer \in [Chans -> {"none", "ranging", "writing", "exited"}]
  /\ peer \in [Chans -> {"none", "up", "closed", "silent"}]
  /\ inbox \in [Chans -> Seq(Responses)]
  /\ frames \in [Chans -> Seq(Calls)]
  /\ unacked \subseteq Chans

(* The handlers keep the discipline Hub asks of its callers, although      *)
(* nothing in the hub enforces it: a handler registers the channel it made *)
(* itself, once, before any Unregister of it, and no message of a peer is  *)
(* routed twice or along with an event (server.go:63-123). The operations  *)
(* the handlers call are those of Hub without Next's conditions on them.   *)
ImplementsHub == H!Spec

(* No handler, writer or poster makes the hub send on a closed channel or  *)
(* close one twice, whichever side of a connection ends first.             *)
HandlersNeverPanic == H!NoPanic

(* Why the discipline is kept: a channel is fresh until its handler has    *)
(* registered it, and a message that is yet to be read is in one inbox,    *)
(* once, and has not been routed.                                          *)
CallerInv ==
  /\ \A c \in Chans : handler[c] \in {"idle", "upgraded"} => c \notin used
  /\ \A c \in Chans : \A i \in DOMAIN inbox[c] : call[inbox[c][i]] = "idle"
  /\ \A c, d \in Chans : \A i \in DOMAIN inbox[c] : \A j \in DOMAIN inbox[d] :
       inbox[c][i] = inbox[d][j] => c = d /\ i = j

Lost(c) == peer[c] = "closed" \/ c \in unacked

(* A connection whose peer is known to be gone is torn down whichever of   *)
(* its two goroutines notices first: the channel is unregistered, both     *)
(* goroutines end and the socket is closed (server.go:72-87, 105-122).     *)
GoneIsCleanedUp ==
  \A c \in Chans :
    Lost(c) ~> /\ handler[c] = "returned" /\ writer[c] = "exited"
               /\ c \notin clients

(* A request that broadcasts an event gets its answer although every       *)
(* client may have stopped reading (hub.go:37-40).                         *)
SlowClientsDelayNobody ==
  \A b \in Events : call[b] = "sending" ~> call[b] = "done"

(* While a peer is up it receives what its channel was given, in order and *)
(* without a gap: events are lost at the full channel only, never between  *)
(* the channel and the socket (server.go:74-78).                           *)
FramesWithoutGaps ==
  \A c \in Chans :
    /\ frames[c] = SubSeq(sent[c], 1, Len(frames[c]))
    /\ peer[c] = "up" /\ writer[c] = "ranging" => Len(frames[c]) = got[c]

(* The README says that responses typed in the web UI are routed through   *)
(* the hub to the proxy: a response the server has read from an agent's    *)
(* socket is put into some channel.                                        *)
ResponseRouted ==
  \A r \in Responses : call[r] = "done" ~> \E c \in Chans : H!InChannel(r, c)

=============================================================================
